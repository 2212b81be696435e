--------------------------- MODULE DeviceSources ---------------------------
(***************************************************************************)
(* The cache of devices (SourceService): how it is loaded from the source, *)
(* by the start of the application and by the handlers that need devices,  *)
(* and how POST /devices/reload renews it.                                 *)
(*                                                                         *)
(* A file, an Ansible inventory or a table is read without giving up the   *)
(* event loop; an HTTP source is awaited, and what other handlers do in    *)
(* the meantime is what this module is about.                              *)
(***************************************************************************)
EXTENDS DeviceConfig, Sequences

CONSTANTS
    Calls,  \* the calls of the handlers, each made once
    Start,  \* the call of the application's start
    Cases   \* [kind, settings, versions]: a configuration, and what the source
            \* holds over time

Kinds == {"file", "postgres", "http"}

ASSUME CallsAssumption == Start \notin Calls
ASSUME CasesAssumption == \A c \in Cases :
    /\ c.kind \in Kinds /\ Len(c.versions) \in Nat \ {0}
    /\ \A v \in 1 .. Len(c.versions) :
          LET rows == c.versions[v].rows
          IN  /\ rows \in Seq({rows[i] : i \in DOMAIN rows})
              /\ ~c.versions[v].found => rows = <<>>

VARIABLES
    case,     \* the configuration and the source of this behaviour
    version,  \* the source's current content
    cache,    \* _devices_cache, by device name
    loaded,   \* _loaded
    call,     \* the calls: [op, pc, got, since, result]
    app,      \* "starting", "up" or "aborted"
    scheduler, \* [running, jobs, refused]: the devices of the scheduled jobs, and those
               \* whose job was refused (observer)
    complete  \* observer: the versions completely cached since the cache was cleared

vars == <<case, version, cache, loaded, call, app, scheduler, complete>>

NoDevices == [d \in {} |-> TRUE]
NewCall == [op |-> "none", pc |-> "new", got |-> 0, since |-> 0, result |-> NoDevices]

Init ==
    /\ case \in Cases
    /\ version = 1
    /\ cache = NoDevices /\ loaded = FALSE
    /\ call = [r \in Calls \cup {Start} |-> NewCall]
    /\ app = "starting"
    /\ scheduler = [running |-> FALSE, jobs |-> NoDevices, refused |-> {}]
    /\ complete = {}

\* The source changes.
SourceChanges ==
    /\ version < Len(case.versions)
    /\ version' = version + 1
    /\ UNCHANGED <<case, cache, loaded, call, app, scheduler, complete>>

-----------------------------------------------------------------------------
(***************************************************************************)
(* Rows.                                                                   *)
(***************************************************************************)
NodeOf(d) == IF d \in DOMAIN case.settings.nodes THEN case.settings.nodes[d] ELSE NoOptions
ConfigOf(row) == Resolved(case.settings.app, case.settings.groups[row.group], NodeOf(row.name))

\* A row of a group that is not configured, or with options that are refused,
\* raises.
GoodRow(row) == row.group \in DOMAIN case.settings.groups /\ Valid(ConfigOf(row))

\* The device that a row makes.
Device(row) == [name |-> row.name, group |-> row.group, addr |-> row.addr,
                enabled |-> row.enabled, config |-> ConfigOf(row)]

\* The rows before the first one that raises.
BadRows(rows) == {i \in 1 .. Len(rows) : ~GoodRow(rows[i])}
ReadRows(rows) ==
    IF BadRows(rows) = {} THEN rows
    ELSE SubSeq(rows, 1, (CHOOSE i \in BadRows(rows) : \A j \in BadRows(rows) : i <= j) - 1)

\* The devices of a source, and a cache with the rows put in one after the other.
Names(rows) == {rows[i].name : i \in 1 .. Len(rows)}
LastRow(rows, d) == rows[CHOOSE i \in 1 .. Len(rows) : /\ rows[i].name = d
                            /\ \A j \in i + 1 .. Len(rows) : rows[j].name # d]
Cached(old, rows) ==
    [d \in DOMAIN old \cup Names(rows) |->
        IF d \in Names(rows) THEN Device(LastRow(rows, d)) ELSE old[d]]
Devices(rows) == Cached(NoDevices, rows)

-----------------------------------------------------------------------------
(***************************************************************************)
(* Calls.                                                                  *)
(***************************************************************************)
\* The service before a load: as it is, or cleared by invalidate_cache.
Kept == [cache |-> cache, loaded |-> loaded, complete |-> complete]
Cleared == [cache |-> NoDevices, loaded |-> FALSE, complete |-> {}]
\* Mutation of Invalidated: the flag only.
InvalidatedFlag == [Kept EXCEPT !.loaded = FALSE]
Invalidated == Cleared

Becomes(s) == cache' = s.cache /\ loaded' = s.loaded /\ complete' = s.complete
Ends(c, pc, answer) == [c EXCEPT !.pc = pc, !.result = answer]

\* Mutation of CacheRows: the cache counts as loaded whatever happened.
CacheRowsAnyway(r, c, v, s) ==
    LET rows == case.versions[v].rows
        new == Cached(s.cache, ReadRows(rows))
    IN  /\ Becomes([s EXCEPT !.cache = new, !.loaded = TRUE])
        /\ call' = [call EXCEPT ![r] = Ends(c, "done", new)]

\* The rows of a payload, one by one, into the cache as it is.  What was cached
\* before a row that raises stays.
CacheRows(r, c, v, s) ==
    LET rows == case.versions[v].rows
        new == Cached(s.cache, ReadRows(rows))
    IN  IF BadRows(rows) = {}
        THEN /\ Becomes([cache |-> new, loaded |-> TRUE, complete |-> s.complete \cup {v}])
             /\ call' = [call EXCEPT ![r] = Ends(c, "done", new)]
        ELSE /\ Becomes([s EXCEPT !.cache = new])
             /\ call' = [call EXCEPT ![r] = Ends(c, "failed", NoDevices)]

\* A CSV file or an Ansible inventory; one that is missing has no devices.
LoadFile(r, c, s) ==
    /\ case.kind = "file"
    /\ IF case.versions[version].found THEN CacheRows(r, c, version, s)
       ELSE Becomes(s) /\ call' = [call EXCEPT ![r] = Ends(c, "done", s.cache)]

\* A table; one that cannot be read raises.
LoadTable(r, c, s) ==
    /\ case.kind = "postgres"
    /\ IF case.versions[version].found THEN CacheRows(r, c, version, s)
       ELSE Becomes(s) /\ call' = [call EXCEPT ![r] = Ends(c, "failed", NoDevices)]

\* An HTTP source is awaited.
LoadHttp(r, c, s) ==
    /\ case.kind = "http"
    /\ Becomes(s)
    /\ call' = [call EXCEPT ![r] = [c EXCEPT !.pc = "requested"]]

\* load_devices
Load(r, c, s) == LoadFile(r, c, s) \/ LoadTable(r, c, s) \/ LoadHttp(r, c, s)

\* A handler's call of a getter, or of invalidate_cache and a getter.
Calling(r, op, s) ==
    LET c == [call[r] EXCEPT !.op = op, !.since = version]
    IN  /\ call[r].pc = "new"
        /\ IF s.loaded THEN call' = [call EXCEPT ![r] = Ends(c, "done", s.cache)] /\ Becomes(s)
           ELSE Load(r, c, s)
        /\ UNCHANGED <<case, version, app, scheduler>>

Get(r) == app = "up" /\ r # Start /\ Calling(r, "get", Kept)
Reload(r) == app = "up" /\ r # Start /\ Calling(r, "reload", Invalidated)

\* The HTTP source answers a request with what it holds.
Serve(r) ==
    /\ call[r].pc = "requested" /\ case.versions[version].found
    /\ call' = [call EXCEPT ![r].pc = "answered", ![r].got = version]
    /\ UNCHANGED <<case, version, cache, loaded, app, scheduler, complete>>

\* Mutation of RequestFails: an error is taken for an answer.
RequestFailsUnseen(r) ==
    /\ call[r].pc = "requested"
    /\ call' = [call EXCEPT ![r].pc = "answered"]
    /\ UNCHANGED <<case, version, cache, loaded, app, scheduler, complete>>

\* Or the request fails, with a status, a timeout or a body that is no list.
RequestFails(r) ==
    /\ call[r].pc = "requested"
    /\ call' = [call EXCEPT ![r] = Ends(@, "failed", NoDevices)]
    /\ UNCHANGED <<case, version, cache, loaded, app, scheduler, complete>>

\* The handler goes on with the payload, whatever happened to the cache meanwhile.
Resume(r) ==
    /\ call[r].pc = "answered"
    /\ CacheRows(r, call[r], call[r].got, Kept)
    /\ UNCHANGED <<case, version, app, scheduler>>

-----------------------------------------------------------------------------
(***************************************************************************)
(* The application's start.                                                *)
(***************************************************************************)
StartLoads == app = "starting" /\ Calling(Start, "reload", Cleared)

\* Mutation of ScheduledOf: the devices that are not enabled too.
ScheduledOfAll(devices) ==
    [d \in {n \in DOMAIN devices : devices[n].config.schedule.cron \notin {NoCron, Never}}
        |-> devices[d]]
\* The devices that are enabled and have a cron expression.
ScheduledOf(devices) ==
    [d \in {n \in DOMAIN devices : /\ devices[n].enabled
                                   /\ devices[n].config.schedule.cron \notin {NoCron, Never}}
        |-> devices[d]]

\* These get their jobs, for as long as the application runs; a job that is refused
\* is logged.  A scheduler that does not start is logged too.
SchedulerStarts(devices) ==
    \/ \E refused \in SUBSET DOMAIN ScheduledOf(devices) :
          scheduler' = [running |-> TRUE, refused |-> refused,
                        jobs |-> [d \in DOMAIN ScheduledOf(devices) \ refused |-> devices[d]]]
    \/ UNCHANGED scheduler

\* With the devices the scheduler starts, and the application is up.  An exception ends it.
StartEnds ==
    /\ app = "starting" /\ call[Start].pc \in {"done", "failed"}
    /\ IF call[Start].pc = "done"
       THEN app' = "up" /\ SchedulerStarts(call[Start].result)
       ELSE app' = "aborted" /\ UNCHANGED scheduler
    /\ UNCHANGED <<case, version, cache, loaded, call, complete>>

-----------------------------------------------------------------------------
Next ==
    \/ SourceChanges \/ StartLoads \/ StartEnds
    \/ \E r \in Calls \cup {Start} : Serve(r) \/ RequestFails(r) \/ Resume(r)
    \/ \E r \in Calls : Get(r) \/ Reload(r)

Spec == Init /\ [][Next]_vars

-----------------------------------------------------------------------------
(***************************************************************************)
(* Properties.                                                             *)
(***************************************************************************)
TypeOK ==
    /\ case \in Cases /\ version \in 1 .. Len(case.versions)
    /\ loaded \in BOOLEAN /\ app \in {"starting", "up", "aborted"}
    /\ complete \subseteq 1 .. version
    /\ \A d \in DOMAIN cache : cache[d].name = d
    /\ \A r \in Calls \cup {Start} :
          /\ call[r].pc \in {"new", "requested", "answered", "done", "failed"}
          /\ call[r].op \in {"none", "get", "reload"}
          /\ call[r].pc = "answered" => call[r].got \in call[r].since .. version

\* The devices that a handler is given although the last load failed half way, or
\* another one is still awaited, are never less than a whole source: a cache that
\* counts as loaded holds every device of a payload that was read to its end
\* since the cache was cleared.
Has(devices, v) == Names(case.versions[v].rows) \subseteq DOMAIN devices
LoadedIsWhole == loaded => \E v \in complete : Has(cache, v)

\* What a reload answers has every device, as it is now, of a source not older
\* than the reload; and of a source that is not awaited it has nothing else, even
\* after a load that failed half way.
Renewed(r, v) ==
    LET new == Devices(case.versions[v].rows)
        answer == call[r].result
    IN  /\ BadRows(case.versions[v].rows) = {}
        /\ DOMAIN new \subseteq DOMAIN answer
        /\ \A d \in DOMAIN new : answer[d] = new[d]
Reloaded(r) == call[r].op = "reload" /\ call[r].pc = "done"
ReloadShowsSource ==
    \A r \in Calls \cup {Start} : Reloaded(r) =>
        \E v \in call[r].since .. version :
            \/ Renewed(r, v) /\ (case.kind # "http" =>
                                    DOMAIN call[r].result = Names(case.versions[v].rows))
            \/ ~case.versions[v].found /\ call[r].result = NoDevices

\* A scheduler that runs has jobs for the devices of one whole source, not of a part of
\* one: those that are enabled and have a cron expression, but for jobs that were refused.
JobsAreWholeSource ==
    scheduler.running => \E v \in 1 .. version :
        LET rows == case.versions[v].rows
            due == {d \in Names(rows) : LET row == LastRow(rows, d)
                                        IN  /\ row.enabled
                                            /\ ConfigOf(row).schedule.cron \notin {NoCron, Never}}
        IN  /\ BadRows(rows) = {}
            /\ scheduler.jobs = [d \in due \ scheduler.refused |-> Device(LastRow(rows, d))]

\* Every device that is cached has the options the README documents, whichever level
\* of the file names them; a cron expression that a level with a time zone only hides is
\* exempted.
ResolutionMatchesDocs ==
    \A d \in DOMAIN cache :
        AsDocumented(cache[d].config, case.settings.app,
                     case.settings.groups[cache[d].group], NodeOf(d))

\* "Reload devices from source": the devices after a reload are those of the
\* source, a device that was removed from it is gone.
ReloadIsExact ==
    \A r \in Calls : Reloaded(r) =>
        \E v \in call[r].since .. version :
            DOMAIN call[r].result = Names(case.versions[v].rows)
=============================================================================
