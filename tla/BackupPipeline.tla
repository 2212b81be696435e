--------------------------- MODULE BackupPipeline ---------------------------
(***************************************************************************)
(* One device's backup from start to notification                          *)
(* (BackupService.backup_device and what it calls), the backup_jobs table  *)
(* with flush and retention, cancellation at shutdown, crashes and the     *)
(* recovery of the table at start-up (fastapi_server.py, lifespan).        *)
(*                                                                         *)
(* The queue (BackupQueue) runs at most one backup of a device at a time;  *)
(* backups of different devices interleave between their awaits.  A step   *)
(* is one awaited call with what follows it up to the next await.  A row's *)
(* timestamp is set whenever the row is written: of the timestamps only    *)
(* their order is kept, and what a statement writes becomes the youngest.  *)
(* A database call whose caller is cancelled may still take effect in its  *)
(* thread: that is the call followed by the cancellation.                  *)
(***************************************************************************)
EXTENDS Integers, FiniteSets

CONSTANTS
    Devices,    \* device names
    JobIds,     \* identities of rows, reused once a row is deleted
    MaxRows,    \* app.retention.max_rows
    Captures,   \* what a device may answer: [bytes, lines], lines not counting
                \* empty ones
    Invalid,    \* an answer with the signature of a CLI error
    NoCapture,  \* no configuration: config_size_bytes is NULL
    Settings,   \* what may go wrong, the notifications.trigger values, the answers
                \* in use and a bound on the rows and running backups, see Setting
    NoJob,      \* no row could be created
    NoStatus    \* no previous completed backup

FaultKinds == {"db", "size", "smtp", "cancel", "crash", "flush", "retention"}
Setting == [faults : SUBSET FaultKinds, jobs : Nat, captures : SUBSET Captures,
            triggers : SUBSET {"always", "failure", "failure_new"}]

ASSUME MaxRowsAssumption == MaxRows \in Nat \ {0}
ASSUME JobIdsAssumption == IsFiniteSet(JobIds) /\ NoJob \notin JobIds
ASSUME SettingsAssumption == Settings \subseteq Setting
ASSUME CapturesAssumption == Captures \subseteq [bytes : Nat, lines : Nat]
ASSUME NoCaptureAssumption == NoCapture \notin Captures /\ Invalid \notin Captures

VARIABLES
    setting,    \* which of the Settings this behaviour has
    app,        \* the process: "up", "stopping" (workers cancelled), "down"
    trigger,    \* notifications.trigger of the running process
    rows,       \* backup_jobs, a function from the ids of its rows
    older,      \* pairs of ids: the first row's timestamp is before the second's
    run,        \* backup_device of each device
    last,       \* observer: outcome of the device's last completed backup
    told        \* observer: failure mails since the device's last backup that
                \* did not fail, counted up to MaxTold

table == <<rows, older>>
vars == <<setting, app, trigger, table, run, last, told>>

MaxTold == 2

Outcomes == {"success", "no_changes", "failed"}
ASSUME NoStatusAssumption == NoStatus \notin Outcomes
\* The table keeps the bytes of a configuration; the lines are kept here for what the
\* properties say of it.
Row == [device : Devices, status : Outcomes \cup {"in_progress"},
        config : Captures \cup {NoCapture}]
\* What is awaited: the previous status, the new row, the device, the
\* validation, git, the row's update, the mail server.
Points == {"idle", "previous", "create", "fetch", "validate", "save", "record",
           "notify"}
Run == [pc : Points, previous : Outcomes \cup {NoStatus}, job : JobIds \cup {NoJob},
        attempt : 0 .. 1, capture : Captures \cup {Invalid, NoCapture}, outcome : Outcomes]
IdleRun == [pc |-> "idle", previous |-> NoStatus, job |-> NoJob, attempt |-> 0,
            capture |-> NoCapture, outcome |-> "failed"]

TypeOK ==
    /\ setting \in Settings
    /\ app \in {"up", "stopping", "down"}
    /\ trigger \in setting.triggers
    /\ DOMAIN rows \subseteq JobIds
    /\ rows \in [DOMAIN rows -> Row]
    /\ older \subseteq (DOMAIN rows) \X (DOMAIN rows)
    /\ run \in [Devices -> Run]
    /\ last \in [Devices -> Outcomes \cup {NoStatus}]
    /\ told \in [Devices -> 0 .. MaxTold]

Init ==
    /\ setting \in Settings
    /\ app = "up"
    /\ trigger \in setting.triggers
    /\ rows = [i \in {} |-> {}]
    /\ older = {}
    /\ run = [d \in Devices |-> IdleRun]
    /\ last = [d \in Devices |-> NoStatus]
    /\ told = [d \in Devices |-> 0]

-----------------------------------------------------------------------------
(***************************************************************************)
(* The table.                                                              *)
(***************************************************************************)
Ids == DOMAIN rows
FreeIds == JobIds \ (Ids \cup {run[d].job : d \in Devices})
Starting == {d \in Devices : run[d].pc \in {"previous", "create"}}

\* ORDER BY timestamp DESC, first row; rows of one timestamp come in any order.
Youngest(S) == {i \in S : \A j \in S : <<i, j>> \notin older}

\* A statement gives the rows in S their timestamp.
Aged(S) == {p \in older : p[1] \notin S /\ p[2] \notin S} \cup ((Ids \ S) \X S)

\* Rows of S get new values, or are inserted.
Written(S, new) == [i \in Ids \cup S |-> IF i \in S THEN new[i] ELSE rows[i]]

\* Only the rows in keep are left of a table.
Keep(keep, r, o) ==
    /\ rows' = [i \in keep |-> r[i]]
    /\ older' = o \cap (keep \X keep)

\* Mutation of Completed: failed backups are not looked at.
CompletedWell(d) ==
    {i \in Ids : rows[i].device = d /\ rows[i].status \in {"success", "no_changes"}}

\* Mutation of Completed: the filter on the device is missing.
CompletedAny(d) == {i \in Ids : rows[i].status \in Outcomes}

\* The rows get_previous_completed_status chooses from.
Completed(d) == {i \in Ids : rows[i].device = d /\ rows[i].status \in Outcomes}

PreviousStatus(d) ==
    IF Completed(d) = {} THEN {NoStatus}
    ELSE {rows[i].status : i \in Youngest(Completed(d))}

\* The rows get_latest_completed_job chooses from.
Sized(d) ==
    {i \in Ids : /\ rows[i].device = d
                 /\ rows[i].status \in {"success", "no_changes"}
                 /\ rows[i].config # NoCapture}

PreviousConfig(d) ==
    IF Sized(d) = {} THEN {NoCapture} ELSE {rows[i].config : i \in Youngest(Sized(d))}

\* A configuration is suspiciously small after the previous one (NoCapture: unknown).
TooSmall(previous, c) ==
    /\ previous # NoCapture /\ previous.bytes >= 8192
    /\ c.bytes < 1024 \/ c.bytes < previous.bytes \div 5
    /\ c.lines < 60

\* The row update_job finds: none if it was deleted or never created.
OwnRow(d) == Ids \cap {run[d].job}

\* update_job: the row gets its final status and a new timestamp.
Update(d) ==
    LET config == IF run[d].outcome = "failed" THEN NoCapture ELSE run[d].capture
        final == [i \in OwnRow(d) |-> [rows[i] EXCEPT !.status = run[d].outcome,
                                                     !.config = config]]
    IN  /\ rows' = Written(OwnRow(d), final)
        /\ older' = Aged(OwnRow(d))

\* Mutation of Stuck: every row that is not a success is marked.
StuckOrUnchanged == {i \in Ids : rows[i].status # "success"}

\* The rows mark_stuck_jobs_as_failed marks.
Stuck == {i \in Ids : rows[i].status = "in_progress"}
Marked(S) == Written(S, [i \in S |-> [rows[i] EXCEPT !.status = "failed"]])

\* What LogRetentionService.run may leave of the rows in the order o: the rows older
\* than the age limit go, then the oldest ones beyond the row limit; a deletion that
\* fails is logged.
Retainable(o) ==
    {keep \in SUBSET Ids : /\ Cardinality(keep) <= MaxRows \/ "db" \in setting.faults
                           /\ \A p \in o : p[1] \in keep => p[2] \in keep}

\* _should_notify
ShouldNotify(outcome, previous) ==
    CASE trigger = "always"      -> outcome \in {"success", "failed"}
      [] trigger = "failure"     -> outcome = "failed"
      [] trigger = "failure_new" -> /\ outcome = "failed"
                                    /\ previous \in {NoStatus, "success", "no_changes"}

-----------------------------------------------------------------------------
(***************************************************************************)
(* backup_device.                                                          *)
(***************************************************************************)
Working(d, p) == app = "up" /\ run[d].pc = p
Goto(d, p) == run' = [run EXCEPT ![d].pc = p]
End(d) == run' = [run EXCEPT ![d] = IdleRun]

\* A worker calls backup_device.  The bound on rows: an id is left.
Begin(d) ==
    /\ Working(d, "idle")
    /\ Cardinality(FreeIds) > Cardinality(Starting)
    /\ Cardinality(JobIds \ FreeIds) + Cardinality(Starting) < setting.jobs
    /\ Goto(d, "previous")
    /\ UNCHANGED <<setting, app, trigger, table, last, told>>

\* _get_previous_backup_status; a failing database reads as no history.
ReadPrevious(d) ==
    /\ Working(d, "previous")
    /\ \E p \in PreviousStatus(d) \cup (IF "db" \in setting.faults THEN {NoStatus} ELSE {}) :
           run' = [run EXCEPT ![d].pc = "create", ![d].previous = p]
    /\ UNCHANGED <<setting, app, trigger, table, last, told>>

\* _create_in_progress_job; a failing database leaves the backup without a row.
Create(d) ==
    /\ Working(d, "create")
    /\ \/ \E id \in FreeIds :
              /\ rows' = Written({id}, [i \in {id} |->
                              [device |-> d, status |-> "in_progress", config |-> NoCapture]])
              /\ older' = Aged({id})
              /\ run' = [run EXCEPT ![d].pc = "fetch", ![d].job = id]
       \/ "db" \in setting.faults /\ Goto(d, "fetch") /\ UNCHANGED table
    /\ UNCHANGED <<setting, app, trigger, last, told>>

\* The backup goes on to the update of its row with outcome o; only a
\* capture that was saved matters from here.
Conclude(d, o) ==
    run' = [run EXCEPT ![d].pc = "record", ![d].outcome = o, ![d].attempt = 0,
                       ![d].capture = IF o = "failed" THEN NoCapture ELSE @]

\* ssh_service or telnet_service returns a capture or raises.
Fetch(d) ==
    /\ Working(d, "fetch")
    /\ \/ \E c \in setting.captures \cup {Invalid} :
              run' = [run EXCEPT ![d].pc = "validate", ![d].capture = c]
       \/ Conclude(d, "failed")
    /\ UNCHANGED <<setting, app, trigger, table, last, told>>

\* The configuration a capture is compared with; a failing database reads as none.
KnownConfigs(d) ==
    PreviousConfig(d) \cup (IF "size" \in setting.faults THEN {NoCapture} ELSE {})

\* _validate_config_capture raises ConfigCaptureTooSmallError.
Rejected(d, known) == run[d].capture # Invalid /\ TooSmall(known, run[d].capture)

\* Mutation of Validate: the second capture is saved although it is too small.
ValidateAcceptsSecond(d) ==
    /\ Working(d, "validate")
    /\ \E known \in KnownConfigs(d) :
          CASE run[d].capture = Invalid -> Conclude(d, "failed")
            [] Rejected(d, known) /\ run[d].attempt = 0 ->
                   run' = [run EXCEPT ![d].pc = "fetch", ![d].attempt = @ + 1]
            [] OTHER -> Goto(d, "save")
    /\ UNCHANGED <<setting, app, trigger, table, last, told>>

\* Mutation of Validate: the attempts are counted from one.
ValidateRetriesTwice(d) ==
    /\ Working(d, "validate")
    /\ \E known \in KnownConfigs(d) :
          CASE run[d].capture = Invalid -> Conclude(d, "failed")
            [] Rejected(d, known) /\ run[d].attempt < 2 ->
                   run' = [run EXCEPT ![d].pc = "fetch", ![d].attempt = @ + 1]
            [] Rejected(d, known) /\ run[d].attempt = 2 -> Conclude(d, "failed")
            [] OTHER -> Goto(d, "save")
    /\ UNCHANGED <<setting, app, trigger, table, last, told>>

\* Mutation of Validate: the attempts are not counted.
ValidateRetriesForever(d) ==
    /\ Working(d, "validate")
    /\ \E known \in KnownConfigs(d) :
          CASE run[d].capture = Invalid -> Conclude(d, "failed")
            [] Rejected(d, known) -> Goto(d, "fetch")
            [] OTHER -> Goto(d, "save")
    /\ UNCHANGED <<setting, app, trigger, table, last, told>>

\* _validate_config_capture: a capture that is too small is fetched once more.
Validate(d) ==
    /\ Working(d, "validate")
    /\ \E known \in KnownConfigs(d) :
          CASE run[d].capture = Invalid -> Conclude(d, "failed")
            [] Rejected(d, known) /\ run[d].attempt = 0 ->
                   run' = [run EXCEPT ![d].pc = "fetch", ![d].attempt = 1]
            [] Rejected(d, known) /\ run[d].attempt = 1 -> Conclude(d, "failed")
            [] OTHER -> Goto(d, "save")
    /\ UNCHANGED <<setting, app, trigger, table, last, told>>

\* git_service.save_config (GitStore) commits, finds no change or raises.
SaveConfig(d) ==
    /\ Working(d, "save")
    /\ \E o \in Outcomes : Conclude(d, o)
    /\ UNCHANGED <<setting, app, trigger, table, last, told>>

\* Mutation of Record: the early return for NO_CHANGES skips the update.
RecordSkipsNoChanges(d) ==
    /\ Working(d, "record")
    /\ IF run[d].outcome = "no_changes" THEN UNCHANGED table ELSE Update(d)
    /\ IF run[d].outcome = "no_changes" THEN End(d) ELSE Goto(d, "notify")
    /\ last' = [last EXCEPT ![d] = run[d].outcome]
    /\ told' = [told EXCEPT ![d] = IF run[d].outcome = "failed" THEN @ ELSE 0]
    /\ UNCHANGED <<setting, app, trigger>>

\* _update_job_final_status; a failing database is logged.  NO_CHANGES returns
\* here, the other outcomes go on to the notification.
Record(d) ==
    /\ Working(d, "record")
    /\ \/ Update(d)
       \/ "db" \in setting.faults /\ UNCHANGED table
    /\ IF run[d].outcome = "no_changes" THEN End(d) ELSE Goto(d, "notify")
    /\ last' = [last EXCEPT ![d] = run[d].outcome]
    /\ told' = [told EXCEPT ![d] = IF run[d].outcome = "failed" THEN @ ELSE 0]
    /\ UNCHANGED <<setting, app, trigger>>

\* send_notification: the status before this run decides under failure_new; a
\* failing mail server is logged and the mail lost.
Notify(d) ==
    /\ Working(d, "notify")
    /\ \E mailed \in {TRUE} \cup (IF "smtp" \in setting.faults THEN {FALSE} ELSE {}) :
           told' = [told EXCEPT ![d] =
                       IF /\ mailed /\ run[d].outcome = "failed" /\ @ < MaxTold
                          /\ ShouldNotify(run[d].outcome, run[d].previous)
                       THEN @ + 1 ELSE @]
    /\ End(d)
    /\ UNCHANGED <<setting, app, trigger, table, last>>

-----------------------------------------------------------------------------
(***************************************************************************)
(* The rest of the application.                                            *)
(***************************************************************************)
\* DELETE /backups/flush
Flush ==
    /\ "flush" \in setting.faults /\ app = "up"
    /\ Keep({}, rows, older)
    /\ UNCHANGED <<setting, app, trigger, run, last, told>>

\* The scheduler's retention job or POST /backups/retention/run.
Retention ==
    /\ "retention" \in setting.faults /\ app = "up"
    /\ \E keep \in Retainable(older) : Keep(keep, rows, older)
    /\ UNCHANGED <<setting, app, trigger, run, last, told>>

\* Shutdown cancels the workers.
Stop ==
    /\ "cancel" \in setting.faults /\ app = "up"
    /\ app' = "stopping"
    /\ UNCHANGED <<setting, trigger, table, run, last, told>>

\* CancelledError ends a backup where it is: its row stays as it is.
Cancel(d) ==
    /\ app = "stopping" /\ run[d].pc # "idle"
    /\ End(d)
    /\ UNCHANGED <<setting, app, trigger, table, last, told>>

\* Mutation of Exit: shutdown does not wait for the cancelled backups.
ExitWithoutWaiting ==
    /\ app = "stopping"
    /\ app' = "down"
    /\ UNCHANGED <<setting, trigger, table, run, last, told>>

\* The workers are gathered and the process exits.
Exit ==
    /\ app = "stopping"
    /\ \A d \in Devices : run[d].pc = "idle"
    /\ app' = "down"
    /\ UNCHANGED <<setting, trigger, table, run, last, told>>

\* The process dies: of the backups only the rows remain.
Crash ==
    /\ "crash" \in setting.faults /\ app # "down"
    /\ app' = "down"
    /\ run' = [d \in Devices |-> IdleRun]
    /\ UNCHANGED <<setting, trigger, table, last, told>>

\* Start-up, perhaps with another configuration: stuck rows are marked, a failure
\* of that is logged; retention runs if it is enabled.
Start ==
    /\ app = "down"
    /\ app' = "up"
    /\ trigger' \in setting.triggers
    /\ \E S \in {Stuck} \cup (IF "db" \in setting.faults THEN {{}} ELSE {}) :
           \E keep \in IF "retention" \in setting.faults THEN Retainable(Aged(S)) ELSE {Ids} :
               Keep(keep, Marked(S), Aged(S))
    /\ UNCHANGED <<setting, run, last, told>>

Step(d) == ReadPrevious(d) \/ Create(d) \/ Fetch(d) \/ Validate(d) \/ SaveConfig(d)
           \/ Record(d) \/ Notify(d)

Next ==
    \/ \E d \in Devices : Begin(d) \/ Step(d) \/ Cancel(d)
    \/ Flush \/ Retention
    \/ Stop \/ Exit \/ Crash \/ Start

Spec == Init /\ [][Next]_vars

\* Fairness.  A database call and the validation return or raise, and the event
\* loop goes on (a session caught in the loop of its pager, see DeviceSession, would
\* freeze it).  Nothing is assumed of a fetch, a save or a mail: wait_closed
\* (ssh_service.py 1212), git push and smtplib (notification_service.py 120, 126)
\* have no timeout.
Unbounded == {"fetch", "save", "notify"}
Fairness == \A d \in Devices : WF_vars(ReadPrevious(d) \/ Create(d) \/ Validate(d) \/ Record(d))

FairSpec == Spec /\ Fairness

-----------------------------------------------------------------------------
(***************************************************************************)
(* Properties.                                                             *)
(***************************************************************************)
\* While backup_device runs, the row it created is in progress and its own, or
\* deleted: no recovery, retention or other backup gives it a final status.
RowFollowsRun ==
    \A d \in Devices : run[d].pc \in {"fetch", "validate", "save", "record"} =>
        \A i \in OwnRow(d) : rows[i].device = d /\ rows[i].status = "in_progress"

InProgress == {i \in Ids : rows[i].status = "in_progress"}

\* The operator sees "in progress" only for a backup that is running: recovery
\* leaves no row of an earlier process behind (lines 60-71 of the lifespan).
InProgressIsRunning ==
    app = "up" /\ "db" \notin setting.faults =>
        \A i \in InProgress : \E d \in Devices : run[d].job = i /\ rows[i].device = d

\* A final status is never overwritten, by recovery or by another backup.
FinalRowsKept ==
    [][\A i \in Ids \cap Ids' : rows[i].status \in Outcomes => rows'[i] = rows[i]]_vars

\* No row of a device has a configuration that is suspiciously small after the one of
\* the row before it, as long as sizes can be read (line 417): the check reads the
\* table long before the row is written, yet no other backup of the device, shutdown,
\* restart or retention gets in between.  In steps that are not suspicious a
\* configuration may shrink to anything.
NoSuspiciousCapture ==
    "size" \notin setting.faults =>
        \A p \in older : LET d == rows[p[1]].device
                         IN  /\ {p[1], p[2]} \subseteq Sized(d)
                             /\ ~\E k \in Sized(d) : <<p[1], k>> \in older /\ <<k, p[2]>> \in older
                             => ~TooSmall(rows[p[1]].config, rows[p[2]].config)

\* Nothing is deleted from the table and nothing fails to be written to it.
HistoryKept == setting.faults \cap {"db", "flush", "retention"} = {}

\* Under failure_new a failing device is reported at most once until it works
\* again, although the previous status is read before the backup and restarts
\* may lose or invent outcomes (README.md, line 213).
ToldOnce ==
    [][trigger = "failure_new" /\ HistoryKept =>
          \A d \in Devices : told'[d] > told[d] => told[d] = 0]_vars

\* A device whose last completed backup failed has been reported as failing
\* since it last worked, under every trigger (README.md, lines 211-213): what
\* flush and retention delete never hides a new failure.
FailingIsTold ==
    \A d \in Devices : last[d] = "failed" /\ run[d].pc # "notify" => told[d] > 0

\* A backup that began ends, unless it hangs in one fetch, save or mail: it does not
\* go round between the fetch and the validation (lines 480-499), and no other
\* device's backup that hangs keeps it.
RunsEnd ==
    \A d \in Devices : run[d].pc # "idle" ~>
        (run[d].pc = "idle" \/ [](run[d].pc \in Unbounded))

\* A row does not stay in progress, whatever is deleted, unless its own backup hangs in
\* one fetch or save.
RowsEnd ==
    \A id \in JobIds : id \in InProgress ~>
        (id \notin InProgress
         \/ [](\E d \in Devices : run[d].job = id /\ run[d].pc \in {"fetch", "save"}))
=============================================================================
