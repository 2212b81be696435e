----------------------------- MODULE MCGitStore -----------------------------
(* Instances of GitStore for TLC. *)
EXTENDS GitStore

CONSTANTS c1, c2

Setup(f, c, n) == [faults |-> f, contents |-> c, maxLog |-> n]

\* Git and the files fail at every step and the process crashes; nothing fails but
\* the counting, and the history is longer.
GitSetups ==
    {Setup({"write", "stage", "commit", "stats", "count", "crash"}, {c1}, 2),
     Setup({"count"}, {c1, c2}, 2),
     Setup({}, {c1, c2}, 3)}

\* A crash between writing the file and committing it.
CrashSetups == {Setup({"crash"}, {c1, c2}, 2)}
=============================================================================
