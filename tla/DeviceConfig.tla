---------------------------- MODULE DeviceConfig ----------------------------
(***************************************************************************)
(* Settings.get_device_config: the options of a device out of the three    *)
(* levels of the configuration file (app, its group, its node), their      *)
(* validation, and what the README documents of both.                      *)
(*                                                                         *)
(* Options that are resolved alike have one representative: timeout for    *)
(* retry; password for the user name, the enable password and the vendor.  *)
(* The options are those of the file; a key that is missing is Unset.      *)
(***************************************************************************)
EXTENDS Integers, FiniteSets

Unset == ""

JumpKeys == {"hostname", "port", "username", "password", "key", "profile"}
\* No jumphost is one without any key: a group's has a host name.
NoJump == [k \in JumpKeys |-> Unset]

\* A group's or a node's options.  Ports are 0 when they are not set.
NoOptions == [protocol |-> Unset, timeout |-> Unset, cron |-> Unset, zone |-> Unset,
              password |-> Unset, key |-> Unset, profile |-> Unset, port |-> 0,
              jump |-> NoJump]

DefaultCron == "daily at 2"
NoCron == "null"    \* cron is None
Never == "never"    \* cron is the empty string
LocalZone == "TZ"   \* the time zone of the process

Given(new, old) == IF new = Unset THEN old ELSE new
\* Mutation of MergeJump: a node's jumphost replaces the group's.
MergeJumpWhole(old, new) == IF new = NoJump THEN old ELSE new
\* A node's jumphost overrides the group's key by key.
MergeJump(old, new) == [k \in JumpKeys |-> Given(new[k], old[k])]

\* A level's schedule with the defaults of ScheduleConfig; without one it has no cron.
ScheduleOf(o) ==
    [cron |-> IF o.cron # Unset THEN o.cron
              ELSE IF o.zone # Unset THEN DefaultCron ELSE NoCron,
     zone |-> Given(o.zone, LocalZone)]

\* A schedule with a cron expression overrides, its time zone included.
ResolvedSchedule(old, o) == IF ScheduleOf(o).cron = NoCron THEN old ELSE ScheduleOf(o)

\* One level on top of what was resolved so far.
Overridden(c, o) ==
    [c EXCEPT !.protocol = Given(o.protocol, @),
              !.timeout = Given(o.timeout, @),
              !.schedule = ResolvedSchedule(@, o),
              !.password = Given(o.password, @),
              !.key = Given(o.key, @),
              !.profile = Given(o.profile, @),
              !.port = IF o.port = 0 THEN @ ELSE o.port,
              !.defaultPort = @ /\ o.port = 0,
              !.jump = MergeJump(@, o.jump)]

\* A jumphost has a port after all.
WithPort(jump) == IF jump = NoJump THEN jump ELSE [jump EXCEPT !.port = Given(@, "22")]

\* The application's defaults, the group's, the node's, and Telnet's own port.
Resolved(app, group, node) ==
    LET base == [protocol |-> app.protocol, timeout |-> app.timeout,
                 schedule |-> [cron |-> Given(app.cron, DefaultCron),
                               zone |-> Given(app.zone, LocalZone)],
                 password |-> Unset, key |-> Unset, profile |-> Unset,
                 port |-> 22, defaultPort |-> TRUE, jump |-> NoJump]
        c == Overridden(Overridden(base, group), node)
    IN  [c EXCEPT !.port = IF c.protocol = "telnet" /\ c.defaultPort THEN 23 ELSE @,
                  !.jump = WithPort(@)]

HasSecret(c) == c.password # Unset \/ c.key # Unset

\* What get_device_config refuses with a ValueError.
Valid(c) ==
    /\ IF c.protocol = "telnet" THEN c.password # Unset /\ c.jump = NoJump
       ELSE HasSecret(c) /\ c.profile # Unset
    /\ c.jump = NoJump \/ /\ \A k \in {"hostname", "username", "profile"} : c.jump[k] # Unset
                          /\ HasSecret(c.jump)

-----------------------------------------------------------------------------
(***************************************************************************)
(* What the tables of the README say: the node's value, or the group's, or *)
(* the global one; "groups.<group>.port or 22 (or 23 when protocol:        *)
(* telnet)"; "groups.<group>.jumphost.port or 22"; "Global                 *)
(* app.schedule.cron".                                                     *)
(***************************************************************************)
FirstOf(a, b, c) == IF a # Unset THEN a ELSE IF b # Unset THEN b ELSE c
\* A cron expression that a level has, null is none.
CronOf(o) == IF o.cron = NoCron THEN Unset ELSE o.cron

Documented(app, group, node) ==
    LET protocol == FirstOf(node.protocol, group.protocol, app.protocol)
    IN  [protocol |-> protocol,
         timeout |-> FirstOf(node.timeout, group.timeout, app.timeout),
         cron |-> FirstOf(CronOf(node), CronOf(group), Given(app.cron, DefaultCron)),
         password |-> FirstOf(node.password, group.password, Unset),
         key |-> FirstOf(node.key, group.key, Unset),
         profile |-> FirstOf(node.profile, group.profile, Unset),
         port |-> CASE node.port # 0 -> node.port
                    [] node.port = 0 /\ group.port # 0 -> group.port
                    [] OTHER -> IF protocol = "telnet" THEN 23 ELSE 22,
         jump |-> LET named == [k \in JumpKeys |-> FirstOf(node.jump[k], group.jump[k], Unset)]
                  IN  IF named = NoJump THEN NoJump
                      ELSE [named EXCEPT !.port = FirstOf(@, "22", Unset)]]

\* A schedule that names a time zone only has the default cron expression, so that it
\* hides those of the levels above it.
OnlyZone(o) == o.cron = Unset /\ o.zone # Unset
Hidden(group, node) == OnlyZone(node) \/ (OnlyZone(group) /\ ScheduleOf(node).cron = NoCron)

\* The options are those that the tables name, but for a cron expression that is hidden.
AsDocumented(c, app, group, node) ==
    LET doc == Documented(app, group, node)
    IN  /\ \A f \in DOMAIN doc \ {"cron"} : c[f] = doc[f]
        /\ c.schedule.cron = IF Hidden(group, node) THEN DefaultCron ELSE doc.cron
=============================================================================
