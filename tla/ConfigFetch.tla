---------------------------- MODULE ConfigFetch ----------------------------
(***************************************************************************)
(* What get_config of the SSH and the Telnet service promises the backup:  *)
(* a bounded number of tries, one session with the device at a time, and a *)
(* configuration only from one session in which every required command     *)
(* has run.                                                                *)
(***************************************************************************)
EXTENDS Naturals

CONSTANT MaxTries   \* at least one

VARIABLES
    required,   \* the number of required commands of a session
    tries, session, ran, result

vars == <<required, tries, session, ran, result>>

Init ==
    /\ required \in Nat
    /\ tries = 1 /\ session = "closed" /\ ran = 0 /\ result = "none"

\* The device is connected.
Open ==
    /\ result = "none" /\ session = "closed"
    /\ session' = "open"
    /\ ran' = 0
    /\ UNCHANGED <<required, tries, result>>

\* A required command has run.
Command ==
    /\ session = "open" /\ ran < required
    /\ ran' = ran + 1
    /\ UNCHANGED <<required, tries, session, result>>

\* Whatever was run, the session is closed.
Close ==
    /\ session = "open"
    /\ session' = "closed"
    /\ UNCHANGED <<required, tries, ran, result>>

Retry ==
    /\ result = "none" /\ session = "closed" /\ tries < MaxTries
    /\ tries' = tries + 1
    /\ ran' = 0
    /\ UNCHANGED <<required, session, result>>

\* The caller gets a configuration, the last error, or its own cancellation.
Deliver ==
    /\ result = "none" /\ session = "closed"
    /\ \/ result' = "config" /\ ran = required
       \/ result' = "failed" /\ tries = MaxTries
    /\ UNCHANGED <<required, tries, session, ran>>

Cancelled ==
    /\ result = "none"
    /\ result' = "cancelled"
    /\ session' = "closed"
    /\ UNCHANGED <<required, tries, ran>>

Next == Open \/ Command \/ Close \/ Retry \/ Deliver \/ Cancelled

Spec == Init /\ [][Next]_vars
=============================================================================
