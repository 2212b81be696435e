-------------------------- MODULE MCBackupPipeline --------------------------
(* Small instances of BackupPipeline for TLC. *)
EXTENDS BackupPipeline, TLC

\* A usual configuration; a fourth of it, too big to be suspicious; what is suspicious
\* after the first but not after the second; and the same with enough lines.
Large == [bytes |-> 10000, lines |-> 300]
Fourth == [bytes |-> 2500, lines |-> 50]
Rest == [bytes |-> 600, lines |-> 20]
Terse == [bytes |-> 600, lines |-> 60]
AllSizes == {Large, Fourth, Rest, Terse}

AllTriggers == {"always", "failure", "failure_new"}
AsIs(faults, triggers, captures, jobs) ==
    [faults |-> faults, triggers |-> triggers, captures |-> captures, jobs |-> jobs]

\* Shutdowns, crashes and lost mails; a database that fails at any call, with
\* shutdowns and retention; captures of all sizes, with shutdowns and crashes; and a
\* small one after a large one, with a failing database and retention.
Outages == {AsIs({"cancel", "crash", "smtp"}, AllTriggers, {Large}, 4),
            AsIs({"db", "cancel", "retention"}, {"failure_new"}, {Large}, 2),
            AsIs({"cancel", "crash"}, {"always"}, AllSizes, 3),
            AsIs({"db", "retention"}, {"always"}, {Large, Rest}, 2)}

\* Rows are deleted under running backups.
Deletions == {AsIs({"flush", "retention", "size"}, {"failure_new"}, {Large, Rest}, 2)}

\* A crash turns an interrupted backup into a failure nobody was told of.
Crashes == {AsIs({"crash"}, {"failure_new"}, {Large}, 3)}

\* Devices and row ids are interchangeable; for safety only.
Symmetry == Permutations(Devices) \cup Permutations(JobIds)
=============================================================================
