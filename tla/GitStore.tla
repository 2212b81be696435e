------------------------------ MODULE GitStore ------------------------------
(***************************************************************************)
(* One group's git repository as GitService uses it                        *)
(* (backend/app/services/git_service.py): the working tree, the index, the *)
(* commit log, the per-group repo lock and the cache of per-device commit  *)
(* counts.  Groups share nothing, so one is modelled.                      *)
(*                                                                         *)
(* save_config runs _save_config_sync in a thread: its steps interleave    *)
(* with other threads except where the repo lock forbids it.  Invalidation *)
(* of the count runs on the event loop after the thread returned, without  *)
(* the lock.  get_diff and get_config_at_commit take the lock on the event *)
(* loop thread itself and block it.  A crash loses memory and keeps disk.  *)
(***************************************************************************)
EXTENDS Integers, Sequences, FiniteSets

CONSTANTS
    Devices,    \* devices of the group; BackupQueue allows one save per device
    Contents,   \* configurations a device can have
    Readers,    \* threads that serve history counts
    Setups,     \* [faults, contents, maxLog]: what may fail, the configurations
                \* in use, and the bound on the number of commits
    Absent,     \* no file, no tree entry
    Torn,       \* file truncated or partly written, equal to no configuration
    NoCount,    \* no cache entry, or one past its TTL
    Free        \* nobody holds the repo lock

FaultKinds == {"write", "stage", "commit", "stats", "count", "crash"}

ASSUME SetupsAssumption == \A s \in Setups :
    s.faults \subseteq FaultKinds /\ s.contents \subseteq Contents /\ s.maxLog \in Nat
ASSUME SpecialContents == Absent \notin Contents /\ Torn \notin Contents /\ Absent # Torn
ASSUME LockHolders == Free \notin Devices \cup Readers /\ Devices \cap Readers = {}

VARIABLES
    setup,      \* which of the Setups this behaviour has
    lock,       \* holder of the group's RLock
    worktree,   \* content of each device's .conf file on disk
    index,      \* staged content
    log,        \* commits, oldest first: [tree, by]
    cache,      \* _history_count_cache, expired entries removed
    save,       \* each device's save: [pc, content]
    reader,     \* each count request: [pc, device, count]
    loopBlocked \* the event loop thread waits for the repo lock

vars == <<setup, lock, worktree, index, log, cache, save, reader, loopBlocked>>

\* A torn file is only ever in the working tree, never staged or committed.
Trees == [Devices -> Contents \cup {Absent}]
Commit == [tree : Trees, by : Devices]
\* Points of a save: outside; waiting for the lock; the file opened for writing
\* after the comparison found it equal (rewriting) or different (opened); file
\* written; staged; committed; push tried; returned with or without changes, or
\* by an exception, to the event loop.
SavePoints == {"idle", "waiting", "rewriting", "opened", "written", "staged",
               "committed", "pushed", "changed", "unchanged", "failed"}
SaveStates == [pc : SavePoints, content : Contents \cup {Absent}]
ReaderStates == [pc : {"idle", "waiting", "counted"}, device : Devices \cup {Absent},
                 count : Nat]

TypeOK ==
    /\ setup \in Setups
    /\ lock \in Devices \cup Readers \cup {Free}
    /\ worktree \in [Devices -> Contents \cup {Absent, Torn}]
    /\ index \in Trees
    /\ log \in Seq(Commit)
    /\ cache \in [Devices -> Nat \cup {NoCount}]
    /\ save \in [Devices -> SaveStates]
    /\ reader \in [Readers -> ReaderStates]
    /\ loopBlocked \in BOOLEAN

NoTree == [d \in Devices |-> Absent]
IdleSave == [pc |-> "idle", content |-> Absent]
IdleReader == [pc |-> "idle", device |-> Absent, count |-> 0]

Init ==
    /\ setup \in Setups
    /\ lock = Free
    /\ worktree = NoTree
    /\ index = NoTree
    /\ log = <<>>
    /\ cache = [d \in Devices |-> NoCount]
    /\ save = [d \in Devices |-> IdleSave]
    /\ reader = [r \in Readers |-> IdleReader]
    /\ loopBlocked = FALSE

-----------------------------------------------------------------------------
\* The tree at commit i, and at HEAD.
TreeAt(i) == IF i = 0 THEN NoTree ELSE log[i].tree
Head_ == TreeAt(Len(log))

\* git rev-list --count HEAD -- <device>.conf: the commits that touch the file.
Touching(d) == {i \in 1 .. Len(log) : TreeAt(i)[d] # TreeAt(i - 1)[d]}
RevCount(d) == Cardinality(Touching(d))

\* Mutation of Version: the page is numbered on its own.
VersionInPage(total, page, offset, i) == Len(page) - (i - 1)
\* The number of the i-th entry of a page.
Version(total, page, offset, i) ==
    LET n == total - (offset + i - 1) IN IF n < 0 THEN 0 ELSE n

\* get_config_history: the commits that touch the file, newest first, without
\* the first offset ones and at most limit of them, with their version numbers.
Newest(d, n) == CHOOSE i \in Touching(d) :
                    Cardinality({j \in Touching(d) : j > i}) = n - 1
Page(d, offset, limit) ==
    LET left == RevCount(d) - offset
    IN  [i \in 1 .. (IF left < limit THEN left ELSE limit) |-> Newest(d, offset + i)]
\* What git does for it: everything; it fails to list the commits, and the history
\* is empty; it lists them but fails to count them, and they are numbered by the
\* length of their page.
GitAnswers == {"counted"} \cup IF "count" \in setup.faults THEN {"unlisted", "uncounted"} ELSE {}
History(d, offset, limit, git) ==
    LET page == IF git = "unlisted" THEN <<>> ELSE Page(d, offset, limit)
        total == IF git = "counted" THEN RevCount(d) ELSE Len(page)
    IN  [i \in DOMAIN page |-> [commit |-> page[i], version |-> Version(total, page, offset, i)]]

At(d, p) == save[d].pc = p
Goto(d, p) == save' = [save EXCEPT ![d].pc = p]

\* backup_device calls save_config: a thread starts and waits for the lock.
Save(d, c) ==
    /\ ~loopBlocked
    /\ At(d, "idle")
    /\ Len(log) + Cardinality({e \in Devices : ~At(e, "idle")}) < setup.maxLog
    /\ save' = [save EXCEPT ![d] = [pc |-> "waiting", content |-> c]]
    /\ UNCHANGED <<setup, lock, worktree, index, log, cache, reader, loopBlocked>>

\* Mutation of Open: the repo lock is not respected.
OpenUnlocked(d) ==
    /\ At(d, "waiting")
    /\ lock' = d
    /\ Goto(d, IF worktree[d] = save[d].content THEN "rewriting" ELSE "opened")
    /\ worktree' = [worktree EXCEPT ![d] = Torn]
    /\ UNCHANGED <<setup, index, log, cache, reader, loopBlocked>>

\* Lock taken, existing file compared, file opened for writing (truncated).
Open(d) ==
    /\ At(d, "waiting")
    /\ lock = Free
    /\ lock' = d
    /\ Goto(d, IF worktree[d] = save[d].content THEN "rewriting" ELSE "opened")
    /\ worktree' = [worktree EXCEPT ![d] = Torn]
    /\ UNCHANGED <<setup, index, log, cache, reader, loopBlocked>>

\* The content is written; without changes the save returns at once.
Write(d) ==
    /\ save[d].pc \in {"rewriting", "opened"}
    /\ worktree' = [worktree EXCEPT ![d] = save[d].content]
    /\ IF At(d, "rewriting")
       THEN lock' = Free /\ Goto(d, "unchanged")
       ELSE UNCHANGED lock /\ Goto(d, "written")
    /\ UNCHANGED <<setup, index, log, cache, reader, loopBlocked>>

\* Mutation of Stage: the file may be staged before it is written and closed.
StageUnflushed(d) ==
    /\ save[d].pc \in {"opened", "written"}
    /\ index' = [index EXCEPT ![d] = worktree[d]]
    /\ Goto(d, "staged")
    /\ UNCHANGED <<setup, lock, worktree, log, cache, reader, loopBlocked>>

\* repo.index.add
Stage(d) ==
    /\ At(d, "written")
    /\ index' = [index EXCEPT ![d] = worktree[d]]
    /\ Goto(d, "staged")
    /\ UNCHANGED <<setup, lock, worktree, log, cache, reader, loopBlocked>>

\* Mutation of CommitIndex: the commit is taken from the tree before staging.
CommitHead(d) ==
    /\ At(d, "staged")
    /\ log' = Append(log, [tree |-> Head_, by |-> d])
    /\ Goto(d, "committed")
    /\ UNCHANGED <<setup, lock, worktree, index, cache, reader, loopBlocked>>

\* repo.index.commit: the whole index becomes the tree of a new commit.
CommitIndex(d) ==
    /\ At(d, "staged")
    /\ log' = Append(log, [tree |-> index, by |-> d])
    /\ Goto(d, "committed")
    /\ UNCHANGED <<setup, lock, worktree, index, cache, reader, loopBlocked>>

\* _push_to_remote_sync: a rejected or failed push is logged and changes nothing
\* here; the remote is not modelled.  The lock is held until the push returns.
Push(d) ==
    /\ At(d, "committed")
    /\ Goto(d, "pushed")
    /\ UNCHANGED <<setup, lock, worktree, index, log, cache, reader, loopBlocked>>

\* commit.stats was read, the thread returns (hash, True, ...).
Finish(d) ==
    /\ At(d, "pushed")
    /\ Goto(d, "changed")
    /\ lock' = Free
    /\ UNCHANGED <<setup, worktree, index, log, cache, reader, loopBlocked>>

\* Where an exception may leave the locked section: at the comparison or the
\* opening, in the write, in add, in the message or the commit, in the stats.
MayFail(d) ==
    \/ "write" \in setup.faults /\ At(d, "waiting") /\ lock = Free
    \/ "write" \in setup.faults /\ save[d].pc \in {"rewriting", "opened"}
    \/ "stage" \in setup.faults /\ At(d, "written")
    \/ "commit" \in setup.faults /\ At(d, "staged")
    \/ "stats" \in setup.faults /\ At(d, "pushed")

\* Mutation of Fail: the lock is not released by an exception.
FailKeepsLock(d) ==
    /\ MayFail(d)
    /\ Goto(d, "failed")
    /\ UNCHANGED <<setup, lock, worktree, index, log, cache, reader, loopBlocked>>

\* An exception leaves the locked section; what was done so far stays.
Fail(d) ==
    /\ MayFail(d)
    /\ Goto(d, "failed")
    /\ lock' = Free
    /\ UNCHANGED <<setup, worktree, index, log, cache, reader, loopBlocked>>

\* Mutation of Return: the cached count is left alone.
ReturnWithoutInvalidate(d) ==
    /\ ~loopBlocked
    /\ save[d].pc \in {"changed", "unchanged", "failed"}
    /\ save' = [save EXCEPT ![d] = IdleSave]
    /\ UNCHANGED <<setup, lock, worktree, index, log, cache, reader, loopBlocked>>

\* Back on the event loop: invalidate_history_count after a change.
Return(d) ==
    /\ ~loopBlocked
    /\ save[d].pc \in {"changed", "unchanged", "failed"}
    /\ cache' = IF At(d, "changed") THEN [cache EXCEPT ![d] = NoCount] ELSE cache
    /\ save' = [save EXCEPT ![d] = IdleSave]
    /\ UNCHANGED <<setup, lock, worktree, index, log, reader, loopBlocked>>

-----------------------------------------------------------------------------
\* get_config_history_count without a cached value: a thread waits for the lock.
CountStart(r, d) ==
    /\ ~loopBlocked
    /\ reader[r].pc = "idle"
    /\ cache[d] = NoCount
    /\ reader' = [reader EXCEPT ![r] = [pc |-> "waiting", device |-> d, count |-> 0]]
    /\ UNCHANGED <<setup, lock, worktree, index, log, cache, save, loopBlocked>>

\* Lock taken: a value cached meanwhile is returned, otherwise git counts (a
\* failing rev-list counts 0).
CountLock(r) ==
    LET d == reader[r].device
    IN  /\ reader[r].pc = "waiting"
        /\ lock = Free
        /\ \/ /\ cache[d] # NoCount
              /\ reader' = [reader EXCEPT ![r] = IdleReader]
              /\ UNCHANGED lock
           \/ /\ cache[d] = NoCount
              /\ lock' = r
              /\ \E n \in {RevCount(d)} \cup (IF "count" \in setup.faults THEN {0} ELSE {}) :
                     reader' = [reader EXCEPT ![r].pc = "counted", ![r].count = n]
        /\ UNCHANGED <<setup, worktree, index, log, cache, save, loopBlocked>>

\* The count is stored and the lock released.
CountStore(r) ==
    /\ reader[r].pc = "counted"
    /\ cache' = [cache EXCEPT ![reader[r].device] = reader[r].count]
    /\ reader' = [reader EXCEPT ![r] = IdleReader]
    /\ lock' = Free
    /\ UNCHANGED <<setup, worktree, index, log, save, loopBlocked>>

\* An entry passes its TTL.
Expire(d) ==
    /\ cache[d] # NoCount
    /\ cache' = [cache EXCEPT ![d] = NoCount]
    /\ UNCHANGED <<setup, lock, worktree, index, log, save, reader, loopBlocked>>

-----------------------------------------------------------------------------
\* get_diff or get_config_at_commit is called while a thread holds the lock.
BlockLoop ==
    /\ ~loopBlocked
    /\ lock # Free
    /\ loopBlocked' = TRUE
    /\ UNCHANGED <<setup, lock, worktree, index, log, cache, save, reader>>

\* It gets the lock, reads the repository and goes on.
UnblockLoop ==
    /\ loopBlocked
    /\ lock = Free
    /\ loopBlocked' = FALSE
    /\ UNCHANGED <<setup, lock, worktree, index, log, cache, save, reader>>

\* The process dies and is started again.
Crash ==
    /\ "crash" \in setup.faults
    /\ lock' = Free
    /\ cache' = [d \in Devices |-> NoCount]
    /\ save' = [d \in Devices |-> IdleSave]
    /\ reader' = [r \in Readers |-> IdleReader]
    /\ loopBlocked' = FALSE
    /\ UNCHANGED <<setup, worktree, index, log>>

SaveStep(d) == Open(d) \/ Write(d) \/ Stage(d) \/ CommitIndex(d) \/ Push(d)
               \/ Finish(d) \/ Fail(d) \/ Return(d)
CountStep(r) == CountLock(r) \/ CountStore(r)

Next ==
    \/ \E d \in Devices : (\E c \in setup.contents : Save(d, c)) \/ SaveStep(d) \/ Expire(d)
    \/ \E r \in Readers : (\E d \in Devices : CountStart(r, d)) \/ CountStep(r)
    \/ BlockLoop \/ UnblockLoop
    \/ Crash

Spec == Init /\ [][Next]_vars

\* Fairness.  A thread that waits for the lock gets it if it is freed again and
\* again, a thread that holds it goes on (git and the push return), and the
\* event loop, which serves its callbacks in FIFO order, resumes a save whose
\* thread returned although handlers keep blocking it.  A blocked event loop
\* needs no more than weak fairness: while it waits no thread is started.
Fairness ==
    /\ \A d \in Devices :
           /\ SF_vars(Open(d))
           /\ WF_vars(Write(d) \/ Stage(d) \/ CommitIndex(d) \/ Push(d) \/ Finish(d))
           /\ SF_vars(Return(d))
    /\ \A r \in Readers : SF_vars(CountLock(r)) /\ WF_vars(CountStore(r))
    /\ WF_vars(UnblockLoop)

FairSpec == Spec /\ Fairness

-----------------------------------------------------------------------------
(***************************************************************************)
(* Safety.                                                                 *)
(***************************************************************************)

\* git itself does not fail and the process is not killed.
GitWorks == setup.faults \cap {"stage", "commit", "stats", "crash"} = {}

\* A save that reports a new commit has its configuration at HEAD when
\* backup_device writes the SUCCESS row, whatever failed or crashed before and
\* whatever other devices committed since.
SuccessIsCommitted ==
    \A d \in Devices : At(d, "changed") => Head_[d] = save[d].content

\* A save that reports no changes has its configuration at HEAD already ("the
\* config is identical to the last backup", line 221).
UnchangedIsCommitted ==
    \A d \in Devices : At(d, "unchanged") => Head_[d] = save[d].content

\* And it has, whatever else fails, unless git failed or the process died after
\* the file was written.
NoChangesIsCommitted == GitWorks => UnchangedIsCommitted

\* A cached commit count differs from git's only between a commit and the
\* invalidation by the save that made it (docstring, lines 370-372).
CountFresh ==
    GitWorks /\ "count" \notin setup.faults =>
        \A d \in Devices : cache[d] \notin {NoCount, RevCount(d)}
                             => save[d].pc \in {"committed", "pushed", "changed"}

\* However the history of a device is paged, an entry's version is the number of
\* the device's commits up to it ("oldest commit = 1, newest = N", line 339): two
\* pages never number a commit differently, and a later commit renumbers none.  When
\* git lists the commits but fails to count them this holds for a page with the whole
\* history only; any other page numbers its entries too low, never too high.
VersionsNumberCommits ==
    \A d \in Devices, offset \in 0 .. setup.maxLog, limit \in 1 .. setup.maxLog,
       git \in GitAnswers :
        LET entries == History(d, offset, limit, git)
            Age(c) == Cardinality({j \in Touching(d) : j <= c})
        IN  \A i \in DOMAIN entries :
                /\ entries[i].version <= Age(entries[i].commit)
                /\ git = "counted" \/ (offset = 0 /\ limit >= RevCount(d))
                      => entries[i].version = Age(entries[i].commit)

\* A backup's commit changes no other device's file, although all devices of a
\* group share one index; what a failed commit left staged goes with the next one.
CommitIsOwn ==
    GitWorks => \A i \in 1 .. Len(log) : \A d \in Devices \ {log[i].by} :
        TreeAt(i)[d] = TreeAt(i - 1)[d]

(***************************************************************************)
(* Liveness.                                                               *)
(***************************************************************************)

\* A handler that blocks the event loop on the repo lock gets the lock: the loop
\* is never blocked for ever, and no thread waits for the loop meanwhile.
LoopUnblocks == loopBlocked ~> ~loopBlocked
=============================================================================
