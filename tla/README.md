# KiwiSSH in TLA+

KiwiSSH fetches the configuration of network devices over SSH or Telnet, keeps
each group's configurations in a git repository and records every attempt in a
`backup_jobs` table. This directory holds TLA+ models of the backend and of the
frontend's job list, the TLC configurations that check them on small instances,
and theorems that the TLA+ proof system checks for every value of the
constants.

## The system

One Python process runs one asyncio event loop. The services are singletons on
it; database and git calls run in threads (`asyncio.to_thread`).

| Component | State | Operations | Correct when |
| --- | --- | --- | --- |
| Backup queue (`backup_service.py` 54-267) | FIFO queue, worker tasks, dedupe set, setup lock | enqueue one or many, start, stop, worker loop | one backup per device, no leaked name or worker, shutdown drains |
| Backup pipeline (`backup_service.py` 269-569, `backup_job_service.py`) | rows of `backup_jobs` | `backup_device`, recovery | every row follows its backup, final rows stay, no suspiciously small capture is recorded |
| SSH and Telnet sessions (`ssh_service.py`, `telnet_service.py`) | connection, jumphost, buffer, phase | connect, log in, command phases, read, clean up, retry | output is the command's own, connections closed, no command before the shell, bounded attempts |
| Git store (`git_service.py`) | working tree, index, commits, lock per group, count cache | save, history, count, diff, push | what is reported agrees with HEAD, counts fresh, pages number alike |
| Device sources (`source_service.py`) | device cache, loaded flag | load, look up, invalidate | the cache is one source's complete content |
| Configuration (`core/config.py`) | settings | load, validate, resolve per device | node before group before application |
| Notifications (`notification_service.py`) | none | trigger rule, mail | a new failure is reported, once |
| Retention and flush (`log_retention_service.py`, `backups.py`) | rows | delete by age, by count, all | running backups and decisions survive it |
| Scheduler (`scheduler_service.py`) | jobs with device snapshots | start, stop, trigger | jobs for the enabled devices with a cron of one whole source, calls the queue |
| Lifespan (`fastapi_server.py`) | none | load, recovery, start, stop | recovery before the first backup |
| Routes, vendors, favourites, profiles | none of their own | reads, reload, favourites | paging and counts agree |
| Frontend stores | jobs, devices, favourites | load, auto-refresh, optimistic update | the shown data is the last query's |

Interactions: the application's start loads the devices and hands them to the
scheduler; the scheduler's jobs and the trigger routes call the queue. A worker
calls `backup_device`, which reads and writes rows, drives a session with the
device, saves to git, invalidates the count cache and sends mail. History routes
read git under the same lock, some of them on the event loop itself. Flush,
retention and the recovery at start-up change rows under everybody's feet, and a
reload changes the devices under the handlers that await them. The frontend
polls the rows with requests that may overlap. PROJECT.json
lists every component with its status and every hazard with its line.

## Modules

**DeviceBackups** is the abstract specification of the queue: a device is idle,
queued or running; accepting, starting, releasing, discarding at shutdown.

**BackupQueue** is the code. Nothing but `await` lets another coroutine in, so
an action is the code between two suspension points: the check of the dedupe
set, the reservation and the put of a batch are one action because the state
lock is never held across a suspension and the queue is unbounded. A caller
(`Call`) waits for the setup lock, which only `stop_backup_queue` holds across
an await (`stopping`, from `StopBegin` to `StopEnd`). `EnsureWorkers` is part of
every enqueue. `Die` is the worker "that died unexpectedly" of line 157: a
`CancelledError` that comes out of a library's own future passes
`except Exception`. `EndCancelled` is the cancellation by shutdown. Task
identities are reused once they left the list.

**GitStore** is one group's repository: groups share nothing. `Save` starts the
thread, `Open` takes the lock, compares and truncates, `Write`, `Stage`,
`CommitIndex`, `Push` and `Finish` are the steps of `_save_config_sync`,
`Return` is back on the event loop, where the count is invalidated without the
lock. `Fail` is an exception at any step; the lock is released and nothing is
undone. The remote is not modelled: a push, rejected or not, changes nothing
here but holds the lock until it returns. `CountStart`,
`CountLock` and `CountStore` are the count request with its second look at the
cache. `BlockLoop` and `UnblockLoop` are the handlers that take the lock on the
event loop. `History` is the page of `get_config_history` with its version
numbers; it holds the lock from the first to the last read, so it is an operator
on the repository and on what git does for it (`GitAnswers`): count, list but not
count (the page is then numbered by its own length), or not even list. Contents are model values; a file that is truncated or half
written is `Torn`. TTLs may expire at any time (`Expire`).

**BackupPipeline** is `backup_device` as the awaits see it, for several devices,
with the table as a function of row ids (`rows`) and the order of the timestamps
(`older`): every write sets the timestamp, so what a statement writes becomes the
youngest (`Aged`), and the rows that start-up marks share one. Retention leaves
what is younger (`Retainable`), or anything less if a deletion fails. A capture
is invalid or has bytes and lines, which `TooSmall` compares by the thresholds of
`_validate_config_capture`: the previous one at least 8192 bytes, the new one below
1024 bytes or a fifth, and below 60 lines. `Stop`, `Cancel`,
`Exit`, `Crash` and `Start` are the lifespan; `Start` is recovery followed by
retention. `last` and `told` are observers, read by properties only: `last` is
the device's last completed outcome and `told` counts the failure mails since
the device last worked. A thread whose caller was cancelled may finish its
database call: that is the call followed by the cancellation. A fetch and a save
are one step each with their outcomes here; their insides are DeviceSession and
GitStore.

**ShellReader** is the device's interactive shell and the loop that reads it,
`_read_until_patterns` and `_read_trailing_output`, which the two services share
word for word. Output is a sequence of lines in flight and a read returns any
number of them, so every way of cutting the output into chunks is explored. A
line is what the code can tell of it: it looks like a prompt (the real one, or
`mark`, a line of output that matches a prompt pattern), like a pager's marker,
or not. The device side (`Device`, `DeviceCuts`) is external: it answers, pages,
asks for input and ends the session. A Telnet device greets line by line
(`DeviceGreets`) before it asks for the user name; of its banner only the lines
that look like a prompt are kept. Silence is known to the reader only by its
windows (`IdleWindow`, `InactivityWindow`). `Sanitized` removes echo and prompt.

**DeviceSession** is `get_config` around it: `OpenTunnel` and `OpenConn`, the
Telnet login, the first prompt and its second newline, one action per kind of
step of the vendor's script (`ThenStep` with interactive inputs, `TypeCommand`
after `Drain`, which discards at most `DrainChunks` chunks, `InvalidStep`,
`ThenStepBad`), then `CloseConn` to `TunnelClosed`
for the `finally` clauses, and `EndAttempt` and `NextAttempt` for the retries.
`Fail` is the way every exception takes. `Cancel` may arrive at any await. A
member of the constant `Cases` is the protocol, the jumphost, the vendor's
script and what may go wrong. **ConfigFetch** is what it promises the backup:
bounded tries, one session at a time, a configuration only from one session in
which every required command ran. What was captured is lost with its attempt.

**DeviceConfig** resolves a device's options as `get_device_config` does, level
by level, and states what the README's tables document, as a definition of its
own with nothing in common with the first. Options that are resolved alike have
one representative: `timeout` stands for `retry`, `password` for the user name, the
enable password and the vendor. A schedule is resolved in a way of its own and is
modelled as such, with its cron expression and its time zone at each level
(`ScheduleOf`, `ResolvedSchedule`): a level's schedule counts if it has a cron, and a
schedule that names none has the default one.

**DeviceSources** is the device cache with its callers. A file and a table are
read without giving up the event loop, so loading and caching are one step; an
HTTP source is awaited, and `Serve`, `RequestFails` and `Resume` are steps of
their own, between which other handlers load, read and reload (`Get`, `Reload`)
and the source itself changes. `CacheRows` puts rows in until one raises.
`StartLoads` and `StartEnds` are the application's start, which gives the
scheduler its devices: `SchedulerStarts` makes jobs for those that are enabled and have
a cron expression, but for any that are refused, or does not start at all, which the
application only logs. `complete`, `since` and `refused` are observers.

**JobsPage** is the list of jobs in the frontend: the store of `stores/jobs.ts`,
which JobsView and the dashboard share. A load (`Load`) is a request with the
view that sent it; `Serve` reads the table, `Refuse` is the route's answer to an
exception (an empty list), `Arrive` and `Fail` end the load, and `Continue` is
what `loadJobsPage` does afterwards: it corrects the page of its view, even one
that was left meanwhile, and loads once more. `Type` and `Search` are the
watchers with their 250 ms, `Choose` the fields that load at once, `Turn` the
page buttons, `SetAutoRefresh` and `Tick` the interval timer, `Unmount` and
`Mount` the route. A row is not modelled, only the number of pages, the same
under every filter; that tells one answer from another.

The **MC** modules add what TLC needs; the **_proofs** modules hold the theorems,
**Positions** a lemma that two of them share.

## Runs

| Run | Instance | Shows |
| --- | --- | --- |
| queue | 3 devices, 2 callers, 2 threads, 4 tasks; batches of one and of all | the invariants of the queue, the refinement of DeviceBackups, nothing gets stuck |
| git | 2 devices, 1 count thread; 1 content and 2 commits with failures at every step and crashes; 2 contents and 2 commits with counts that fail; 2 contents and 3 commits without failures | reports, counts, pages and commits, with liveness |
| git_crash_unchanged | 1 device, 2 contents | finding 1 |
| pipeline_outages | 2 devices, row limit 1; 4 rows and all triggers with shutdowns, crashes and lost mails; 3 rows and captures of four sizes with shutdowns and crashes; 2 rows with a failing database, shutdowns and retention; 2 rows and captures of two sizes with a failing database and retention | shutdown, crash and recovery between any two awaits, a database that fails at any call, and that what is compared before a save still holds when it is written |
| pipeline_deletions | 2 devices, 2 rows, row limit 1 | flush and retention under running backups, with liveness although fetches, saves and mails may hang |
| pipeline_recovery_hides | 1 device, 3 rows | finding 2 |
| session | 22 combinations of protocol, jumphost, script and faults; 2 lines per answer and look-alike lines per banner, 1 retry | what is captured, what is closed, what is delivered, and that it ends |
| session_cut | SSH, 2 commands, no retry | finding 3 |
| session_pager | SSH, 2 commands, no retry | finding 4 |
| sources | 3 calls and the start; 3 kinds of source, 3 histories; all configurations near a usual one, all schedules of the three levels | the cache, the reload, the jobs and the resolution |
| sources_reload | 2 calls and the start, HTTP | finding 5 |
| jobs | 2 views, 2 filters, 2 pages, 2 loads at a time; 5 combinations of what happens besides, 2 of them with failing requests and reads | pages stay in bounds, timers end with their view, the list settles on the last query |

Bounds. Two threads and three devices make one device wait while two run; two
more task identities than threads let dead workers sit in the list while their
replacements run (an identity is free again after the next enqueue). Two
devices are enough for every conflict in the repository, which involves one
index, one lock and two files; `maxLog` bounds the commits and three let a
device commit before and after another and give pages of three. Two devices and
up to four rows give a device a history of three with another device's row among
them. `MaxTold` caps an observer. `JobIds` bounds the table: a backup begins only
when a row is left for it. A session needs an answer of two lines, so that a
look-alike prompt can be followed by more, two or three commands, so that output
can be taken for the wrong one, and one retry, so that an attempt follows a
failed one; at most one pager answer waits for the device. One chunk is drained
before a command at most (`DrainChunks`, 8 in the code), so that the bound is met.
The sizes of captures are on both sides of each threshold, and let a configuration
shrink in two steps none of which is suspicious. Three calls let a
reload overlap an older load and a reader come after both; a source has up to
three versions. The schedules of a level are none, a time zone only, no cron
(null), an empty cron and a cron, with and without a time zone. The configurations
differ in at most two options per level from
a group with a password and a profile, and from a node without options.
Two loads at a time let an old answer overtake or be overtaken, two views let one
be opened while a load of the other is under way, and two pages give a page that
vanishes.
The runs with symmetry (pipeline_outages over devices and rows,
sources over the calls of the handlers) check safety only.
Deadlock is checked where the system runs on for ever; a fetch ends, and the
calls of the source module are finite, so those runs switch it off.

What may fail is part of an instance. Some properties hold only without certain
faults, and that is what the code does: `CountFresh` and `CommitIsOwn` need git
not to fail once the file is written, `NoChangesIsCommitted` that and no crash,
`InProgressIsRunning` needs a working database, `NoSuspiciousCapture` that the
size of the last capture can be read, `FailingIsTold` a working database, no
restart and no lost mail, `ToldOnce` a history that is written and kept
(`HistoryKept`). `VersionsNumberCommits` says of a page that git could not count
only that its numbers are not too high, unless it has the whole history.
`NoSuspiciousCapture` compares each configuration with the one before it, as the code
does: in steps that are not suspicious it may shrink to anything. `RunsEnd` and
`RowsEnd` except a backup that itself hangs in a fetch, a save or a mail.
`CapturedIsOwnAnswer` needs a device that does not pause for
longer than the confirmation window, and scripts that await their prompts, and lets
the look-alike lines at the very end of an answer be lost;
`CommandsOnlyInShell` needs a banner with one look-alike line at most or a device that
does not pause; `JobsAreWholeSource` leaves out jobs that were refused and
a scheduler that did not start; `ResolutionMatchesDocs` leaves out a cron expression
that a schedule with a time zone only hides;
`NothingLeaks` leaves out a cancellation that arrives while the device's
connection is closing, after which the jumphost's is not closed (a
`CancelledError` passes `except Exception`); `FetchEnds` leaves out an SSH peer
that never closes, for whom `wait_closed` has no timeout.

## Fairness

Queue: `asyncio.Queue` wakes a waiting worker; backups end, which is an assumption
on the environment, since `wait_closed` of an SSH connection, a push and a mail server
have no timeout; `asyncio.Lock`
serves its waiters in FIFO order, hence strong fairness of a caller's turn
although shutdowns may keep coming; cron triggers keep calling, which is what
replaces dead workers. Git: a thread that holds the lock goes on (this assumes
that a push returns, the code sets no timeout on it); a waiting thread gets a
lock that is freed again and again (strong fairness: `RLock` promises no order,
the operating system starves nobody); the event loop runs a finished save's
callback before it serves handlers for ever. For `LoopUnblocks` weak fairness
of the blocked handler is enough: a blocked loop starts no threads. Pipeline:
database calls and the validation return or raise, and the event loop goes on (a
session in the loop of finding 4 would freeze it); of a fetch, a save and a mail
nothing is assumed, each of them may hang for ever. Session: the event loop runs what is ready and the
timers that are due, and a device answers or is silent until the timer fires;
that is weak fairness of everything but the faults. Job list: a
request ends, not every one for ever with an error (strong fairness of serving
and of arriving), and an interval timer fires. Crashes, cancellations,
deletions, failures and worker deaths are never assumed to happen.

## Findings

1. `has_changes=False` is documented as "identical to the last backup"
   (`git_service.py` 221), but the comparison is with the working tree, which is
   written before the commit. After a crash in between (or an exception in
   staging or committing) the next save of the same configuration reports no
   changes, and the configuration is in no commit.
2. Start-up recovery marks an interrupted backup as failed without a mail; the
   first backup that then really fails is not reported under `failure_new`,
   which README.md 213 promises for the first failure.
3. A device that ends the stream in the middle of an answer: the reader returns
   what it has as if the prompt had come, and the truncated configuration is a
   success (only the size check of the pipeline may notice).
4. A pager marker that is followed by a newline is not removed from the buffer
   ("Remove pagination marker line"), so it is answered again and again. Each
   round renews the deadline and none awaits output: the event loop, and with it the
whole application, is stuck.
5. `POST /devices/reload` answers with devices that the source no longer has,
   if another handler was awaiting the HTTP source when the cache was cleared.

Not findings of a run, but seen on the way, and exempted by the properties named. If a
Telnet banner has two or more lines that look like a prompt, and pauses of 0.2 s after
them, the first one ends the login, a later one is confirmed as the first prompt, which
is awaited "to ensure the shell is ready before sending commands" (`telnet_service.py`
985), and the commands are typed as user names (`CommandsOnlyInShell`). The end of an
answer that looks like a prompt is stripped with the prompt ("Trim trailing blank lines
and shell prompt lines", `ssh_service.py` 477-483), so that the captured configuration
lacks these lines (`CapturedIsOwnAnswer`). A group's or a node's schedule with a time
zone and no cron expression gets the default cron (`config.py` 80) and overrides that of
the levels above, where README.md 379 and 407 document the global (or the group's) one
as the default (`ResolutionMatchesDocs`).

Also seen: an exception in the statistics after
a commit skips the invalidation, and the cached count is stale for up to 300 s;
a single-device trigger of a disabled device is answered "is already queued or
currently running" (`backups.py` 88); a cancellation while the device's
connection closes leaves the jumphost's open; auto-refresh does not correct the
page, so a page beyond the last one stays in view; JobsView clears the timer
when it is left and leaves `autoRefreshEnabled` as it is, so that the box
"Auto-refresh (sec)" is checked when the view is opened again, and nothing
refreshes until the box or the interval is changed; a failing `rev-list` makes pages
number their commits each on its own (`git_service.py` 334-337); the application comes
up without jobs if the scheduler does not start; README.md 185 documents
`app.schedule.TZ` where the code reads `timezone`.

## Proofs

`BackupQueue_proofs` proves, for any finite set of devices and tasks, any set
of callers and any number of threads, every safety property the run queue
checks, and `WorkersListed`. Assumptions: the threads are at least one (`max(1, ...)` in the code),
devices and tasks are finite sets, batches are sets of devices.

`DedupeExact` alone is not inductive: a shutdown clears the dedupe set, which
is right only if no worker is still inside a backup, and that needs
`WorkersListed` (gather waits for listed workers only), which needs in turn
that `EnsureWorkers` drops only ended tasks from the list and that only
shutdown cancels (`TaskInv`). `OneBackupPerDevice` is needed when a worker
releases a name: the name must not occur elsewhere. The inductive invariant
`IInv` is the conjunction; `InitIInv` and `NextIInv` prove it with one step per
action. `WorkersBounded` then bounds the list (`ListBounded`),
`TaskDoneExact` counts with the finite-set theorems, `TypeCorrect` follows from
both, `NothingStartsInShutdown` and `Refinement` use lemmas on what each kind
of step does to the waiting and the running devices.

`BackupPipeline_proofs` proves, for any devices, row ids, limits, triggers and
faults, every safety property the pipeline's runs check. Assumptions: row ids are
finitely many, `NoJob` is none of them and `NoStatus` is no outcome. Each way of
changing the table (`Insert`, `Update`, `Keep`, start-up's marking) has a lemma
that says what it does to rows and order (`Inserted`, `Updated`, `Kept`,
`Restarted`), and the steps that leave the table alone are taken together
(`QuietSteps`). The invariant then has a part per question. Who owns a row:
`JobInv` (no two runs have one row, a process that is down has none) and `DoneInv`
(a row that is written stays as written until its run ends); `FinalRowsKept` and
`InProgressIsRunning` need both. What a capture is compared with: the query
gives the youngest configuration only, so `NoSuspiciousCapture`, which relates two
rows with no other between them, needs that only rows marked at start-up, which have
no configuration, share a timestamp (`TieInv`), and `CaptureInv`: from the validation to
the write the device's youngest configuration is one after which the capture is not
suspicious, since no other backup of the device writes meanwhile and retention takes
older rows first. What was told:
`HistoryInv` says that a reported device's history ends with a failure and that a
backup that has read it knows; it needs `HistoryKept`. `FailureInv` says that what
is left of a history ends with the last outcome, because a running backup's row
is younger than all of it, so that deletion by age never uncovers an older
outcome; it needs that nothing stops the process, mails arrive and the database
works (`Undisturbed`), and finding 2 shows that it fails with crashes.
`QueriesAnswer` shows that the queries of the model have an answer in every
state, by induction on finite sets.

`DeviceSession_proofs` proves for any number of retries, any scripts whose
phases are in their order, any lengths of answers and all faults that nothing
leaks and that a session implements ConfigFetch. Its invariant relates the
control state to the life of the connection (`ConnInv`) and of the tunnel
(`TunnelInv`), and to the position in the script (`ScriptInv`): an attempt that
is past an error has not passed a required command. `Refinement` shows that a
step either is unseen (the reader's, the device's, the login's), or ends a
command, or opens, closes, repeats or delivers. `DataInv` has the types of what
is typed, printed, read and captured; it needs that what the code cuts out of a
buffer is a part of it (`TrimmedType`, `AfterEchoType`, `ChunkTypes`).
`NoCommandAtLogin` is `CommandsOnlyInShell`, for a banner with one look-alike line or
a device that does not pause (`Steady`); otherwise a second such line passes for the
first prompt. Its invariant (`LoginInv`) follows a Telnet login that a look-alike line ended
too early: no credential has been sent, and a device that is sent newlines only asks
for the user name again (`LoginCutShort`); a single look-alike line has been read by
then, and without a pause none is confirmed before the question that follows it, so
that no first prompt is ever confirmed.

`DeviceAnswers_proofs` proves `CapturedIsOwnAnswer`, the loss of trailing look-alike
lines included as the one thing that can be missing (`TrimmedAnswer`), for any script, any lengths of
answers, any way of cutting the output into chunks, and any retries. Its hypotheses
are those of the property: a device that does not pause for longer than the
reader's window, and prompts that are awaited. The invariant `CInv` has a part per
question. How the stream ends (`EndInv`): a device that is gone has printed the end
of the stream last and prints nothing more. Who may still print (`LiveInv`): only
commands that have begun, and none that something was captured of (`OwnInv`), so an
answer that is captured is complete. When a read ends (`SettledInv`): a prompt that
is confirmed was the device's own, since a device that asks or pages has said that
last (`AttentionInv`); so after each prompt the device is silent or gone, until a
command after the backup fails without ending the attempt (`Clean`). What the buffer
holds (`AnswerInv`): what was read and what is in flight is, together, the echo, the
answer and at most a pager that is not yet answered (`AnswerOf`), unless the
command was typed at a device that had gone (`Untaken`) or the reader answers for
ever a pager it cannot remove (`Paged`, finding 4). The lemmas on sequences say that
a chunk that is read changes nothing of the whole (`Rejoined`), that the pager which
is removed is the only one (`PagerRemoved`), and that cutting off the echo of such an
output leaves the answer (`SanitizedAnswer`).

`DeviceSources_proofs` proves for any configuration, any source whose rows are
finite sequences (none in a source that is missing) and any number of calls every
invariant of the run. `ServiceOK` is stated of a record of the three
service variables, so that one lemma (`CacheRowsStep`) serves loads that start
from the cache as it is and loads that start from a cleared one.
`ResolvedAsDocumented` compares the two definitions of the options for all
values, with the one exception of a hidden cron expression (`ResolvedCron`);
`FirstAndLast` (in `Positions`) gives the rows that `ReadRows` and
`LastRow` choose. The answers need a second invariant: only an HTTP source is
ever awaited (`AnswerOK`), so that any other reload fills the cache that it has
cleared itself; and no handler runs before the application is up (`StartInv`), so
that the start's load is exact even if it is awaited, and the jobs are those of
one whole source but for the refused ones (`JobsInv`).

`GitStore_proofs` proves for any number of devices, readers, configurations and
commits, and all faults, every safety property of the repository. Assumptions: `Free` is no device or reader, and
devices and readers are distinct (`LockHolders`); `Absent` and `Torn` are no
configurations. `SuccessIsCommitted` needs `SaveInv`: the configuration is in
the file once written, in the index once staged, at HEAD once committed, and
there it stays, since the lock (`LockInv`) keeps the others out of the file's
way and a later commit takes the same index. `CommitIsOwn`,
`NoChangesIsCommitted` and `CountFresh` hold only while git works, and need
`CleanInv`: outside a save's staged state index and HEAD agree, and the file is
HEAD's or torn, so that a commit by one device leaves the files and the counts
of the others alone (`CountKept`, by the finite-set theorems); a reader that
has counted holds the lock until the count is stored (`CountInv`).
`VersionsAreAges` says of every page what its version numbers mean, with the count
and without it; its lemmas
say that the k-th newest commit exists and is the one the page chooses
(`NthGreatest`, by well-founded minima).

`JobsPage_proofs` proves that a timer neither outlives its view nor its successor
and that pages stay within bounds, for any views, loads and timers.

Only model-checked: liveness (fairness and ENABLED are beyond the prover). Every
safety property of a passing run is a theorem.

## Plan

1. Done: the queue, the git store with history pages, the sessions, the sources
   and the resolution of options, and the pipeline, each with proofs.
2. The composition of BackupPipeline with GitStore (a save that fails after its
   commit, a cancelled backup whose thread goes on to commit), if an instance
   small enough for TLC can be found.
3. The favourites store of the frontend: changes made before the server answers.

## Not modelled

Text: command output beyond the lines' kinds, configuration content beyond bytes
and lines, the lines of a banner that do not look like a prompt, a vendor's
processing rules, metadata and message wording, time zones. The choice of SSH
algorithms. The remote of a repository: what a push does there, and who else
pushes. The contribution graph and the statistics of jobs. The SSH simulator,
YAML, CSV and pydantic parsing, HTTP plumbing, the other views and stores of the
frontend. APScheduler, asyncio, asyncssh, telnetlib3, git and PostgreSQL appear
only through what the code relies on.
