--------------------------- MODULE DeviceBackups ---------------------------
(***************************************************************************)
(* What the backup queue promises, without tasks, locks or a queue object: *)
(* every device is idle, queued or running; a device is accepted only when *)
(* idle; at most Threads devices run; a device stops being queued only     *)
(* because it is started or because the whole queue is shut down, and a    *)
(* shutdown discards only when nothing runs.  BackupQueue implements it.   *)
(***************************************************************************)
EXTENDS Integers, FiniteSets

CONSTANTS
    Devices,   \* device names
    Threads    \* app.threads, the configured worker concurrency

VARIABLE phase \* [Devices -> Phases]

Phases == {"idle", "queued", "running"}

In(p) == {d \in Devices : phase[d] = p}

Init == phase = [d \in Devices |-> "idle"]

\* A caller's accepted devices become queued together, none of them queued or
\* running before.
Accept(D) ==
    /\ D # {}
    /\ D \subseteq In("idle")
    /\ phase' = [d \in Devices |-> IF d \in D THEN "queued" ELSE phase[d]]

\* A worker takes a queued device.
Start(d) ==
    /\ phase[d] = "queued"
    /\ Cardinality(In("running")) < Threads
    /\ phase' = [phase EXCEPT ![d] = "running"]

\* A backup ends: result, exception, cancellation.
Release(d) ==
    /\ phase[d] = "running"
    /\ phase' = [phase EXCEPT ![d] = "idle"]

\* Shutdown drops what is still waiting.
Discard ==
    /\ In("running") = {}
    /\ In("queued") # {}
    /\ phase' = [d \in Devices |-> "idle"]

Next ==
    \/ \E D \in SUBSET Devices : Accept(D)
    \/ \E d \in Devices : Start(d) \/ Release(d)
    \/ Discard

Spec == Init /\ [][Next]_phase
=============================================================================
