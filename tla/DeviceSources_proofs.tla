------------------------ MODULE DeviceSources_proofs ------------------------
(***************************************************************************)
(* Proofs about DeviceSources for any configuration, any source and any    *)
(* number of concurrent calls.                                             *)
(***************************************************************************)
EXTENDS DeviceSources, Positions, TLAPS

\* The cron expression of two levels on top of a global one.
LEMMA ResolvedCron ==
    ASSUME NEW a, NEW g, NEW n, NEW c,
           c = ResolvedSchedule(ResolvedSchedule([cron |-> Given(a.cron, DefaultCron),
                                                  zone |-> Given(a.zone, LocalZone)], g), n)
    PROVE  c.cron = IF Hidden(g, n) THEN DefaultCron
                    ELSE FirstOf(CronOf(n), CronOf(g), Given(a.cron, DefaultCron))
<1> DEFINE base == [cron |-> Given(a.cron, DefaultCron), zone |-> Given(a.zone, LocalZone)]
           m == ResolvedSchedule(base, g)
<1>1. /\ base.cron = Given(a.cron, DefaultCron)
      /\ \A o : ScheduleOf(o).cron = IF o.cron # Unset THEN o.cron
                                     ELSE IF o.zone # Unset THEN DefaultCron ELSE NoCron
  BY DEF ScheduleOf
<1>2. /\ m.cron = IF ScheduleOf(g).cron = NoCron THEN base.cron ELSE ScheduleOf(g).cron
      /\ c.cron = IF ScheduleOf(n).cron = NoCron THEN m.cron ELSE ScheduleOf(n).cron
  BY DEF ResolvedSchedule
<1> HIDE DEF base, m
<1>3. Unset # NoCron /\ DefaultCron # NoCron
  BY DEF Unset, NoCron, DefaultCron
<1>4. CASE ScheduleOf(n).cron # NoCron
  BY <1>1, <1>2, <1>3, <1>4 DEF Hidden, OnlyZone, FirstOf, CronOf
<1>5. CASE ScheduleOf(n).cron = NoCron
  <2>1. c.cron = m.cron /\ CronOf(n) = Unset /\ ~OnlyZone(n)
    BY <1>1, <1>2, <1>3, <1>5 DEF CronOf, OnlyZone
  <2>2. CASE ScheduleOf(g).cron = NoCron
    BY <1>1, <1>2, <1>3, <2>1, <2>2 DEF Hidden, OnlyZone, FirstOf, CronOf
  <2>3. CASE ScheduleOf(g).cron # NoCron
    BY <1>1, <1>2, <1>3, <1>5, <2>1, <2>3 DEF Hidden, OnlyZone, FirstOf, CronOf
  <2> QED BY <2>2, <2>3
<1> QED BY <1>4, <1>5

\* The options that get_device_config resolves are those that the README's tables
\* name, for every value of every level, but for a cron expression that is hidden.
LEMMA ResolvedAsDocumented ==
    ASSUME NEW a, NEW g, NEW n
    PROVE  AsDocumented(Resolved(a, g, n), a, g, n)
<1> DEFINE own == [cron |-> Given(a.cron, DefaultCron), zone |-> Given(a.zone, LocalZone)]
           base == [protocol |-> a.protocol, timeout |-> a.timeout, schedule |-> own,
                    password |-> Unset, key |-> Unset, profile |-> Unset,
                    port |-> 22, defaultPort |-> TRUE, jump |-> NoJump]
           m == Overridden(base, g)
           c == Overridden(m, n)
           r == [c EXCEPT !.port = IF c.protocol = "telnet" /\ c.defaultPort THEN 23 ELSE @,
                          !.jump = WithPort(@)]
           doc == Documented(a, g, n)
<1>1. Resolved(a, g, n) = r
  BY DEF Resolved
<1>2. /\ m.protocol = Given(g.protocol, a.protocol)
      /\ m.timeout = Given(g.timeout, a.timeout)
      /\ m.schedule = ResolvedSchedule(own, g)
      /\ m.password = Given(g.password, Unset)
      /\ m.key = Given(g.key, Unset)
      /\ m.profile = Given(g.profile, Unset)
      /\ m.port = (IF g.port = 0 THEN 22 ELSE g.port)
      /\ m.defaultPort = (g.port = 0)
      /\ m.jump = MergeJump(NoJump, g.jump)
      /\ DOMAIN m = {"protocol", "timeout", "schedule", "password", "key", "profile", "port",
                     "defaultPort", "jump"}
  <2> HIDE DEF own
  <2> QED BY DEF Overridden
<1> HIDE DEF m
<1>3. /\ c.protocol = Given(n.protocol, m.protocol)
      /\ c.timeout = Given(n.timeout, m.timeout)
      /\ c.schedule = ResolvedSchedule(m.schedule, n)
      /\ c.password = Given(n.password, m.password)
      /\ c.key = Given(n.key, m.key)
      /\ c.profile = Given(n.profile, m.profile)
      /\ c.port = (IF n.port = 0 THEN m.port ELSE n.port)
      /\ c.defaultPort = (m.defaultPort /\ n.port = 0)
      /\ c.jump = MergeJump(m.jump, n.jump)
      /\ DOMAIN c = DOMAIN m
  BY <1>2 DEF Overridden
<1> HIDE DEF c
<1>4. /\ r.protocol = c.protocol /\ r.timeout = c.timeout /\ r.password = c.password
      /\ r.key = c.key /\ r.profile = c.profile /\ r.schedule = c.schedule
  BY <1>2, <1>3
<1>5. /\ r.port = IF c.protocol = "telnet" /\ c.defaultPort THEN 23 ELSE c.port
      /\ r.jump = WithPort(c.jump)
  BY <1>2, <1>3
<1> HIDE DEF r
<1>6. r.protocol = doc.protocol /\ r.timeout = doc.timeout
  BY <1>2, <1>3, <1>4 DEF Documented, FirstOf, Given
<1>7. r.password = doc.password /\ r.key = doc.key /\ r.profile = doc.profile
  BY <1>2, <1>3, <1>4 DEF Documented, FirstOf, Given
<1>8. r.port = doc.port
  <2>1. c.protocol = doc.protocol
    BY <1>4, <1>6
  <2>2. doc.port = CASE n.port # 0 -> n.port
                     [] n.port = 0 /\ g.port # 0 -> g.port
                     [] OTHER -> IF doc.protocol = "telnet" THEN 23 ELSE 22
    BY DEF Documented
  <2> HIDE DEF doc
  <2>3. CASE n.port # 0
    BY <1>2, <1>3, <1>5, <2>2, <2>3
  <2>4. CASE n.port = 0 /\ g.port # 0
    BY <1>2, <1>3, <1>5, <2>2, <2>4
  <2>5. CASE n.port = 0 /\ g.port = 0
    BY <1>2, <1>3, <1>5, <2>1, <2>2, <2>5
  <2> QED BY <2>3, <2>4, <2>5
<1>9. r.jump = doc.jump
  <2> DEFINE named == [k \in JumpKeys |-> FirstOf(n.jump[k], g.jump[k], Unset)]
  <2>1. c.jump = named
    BY <1>2, <1>3 DEF FirstOf, Given, MergeJump, NoJump
  <2>2. doc.jump = IF named = NoJump THEN NoJump
                   ELSE [named EXCEPT !.port = FirstOf(@, "22", Unset)]
    BY DEF Documented
  <2> HIDE DEF named, doc
  <2>3. \A p : FirstOf(p, "22", Unset) = Given(p, "22")
    BY DEF FirstOf, Given, Unset
  <2> QED BY <1>5, <2>1, <2>2, <2>3 DEF WithPort
<1>10. r.schedule.cron = IF Hidden(g, n) THEN DefaultCron ELSE doc.cron
  <2>1. r.schedule = ResolvedSchedule(ResolvedSchedule(own, g), n)
    BY <1>2, <1>3, <1>4
  <2>2. doc.cron = FirstOf(CronOf(n), CronOf(g), Given(a.cron, DefaultCron))
    BY DEF Documented
  <2> QED BY <2>1, <2>2, ResolvedCron
<1>11. DOMAIN doc = {"protocol", "timeout", "cron", "password", "key", "profile", "port", "jump"}
  BY DEF Documented
<1> HIDE DEF doc
<1>12. \A f \in DOMAIN doc \ {"cron"} : r[f] = doc[f]
  BY <1>6, <1>7, <1>8, <1>9, <1>11
<1> QED BY <1>1, <1>10, <1>12 DEF AsDocumented, doc

-----------------------------------------------------------------------------
(***************************************************************************)
(* The invariant: types, the calls, the cached devices and LoadedIsWhole.  *)
(***************************************************************************)
Callers == Calls \cup {Start}

\* A call's record, and what holds of it.
CallOK(c) ==
    /\ c = [op |-> c.op, pc |-> c.pc, got |-> c.got, since |-> c.since, result |-> c.result]
    /\ c.pc \in {"new", "requested", "answered", "done", "failed"}
    /\ c.op \in {"none", "get", "reload"}
    /\ c.since \in 0 .. version
    /\ c.pc = "answered" => c.got \in c.since .. version /\ c.got \in 1 .. version

CallsOK ==
    /\ call = [r \in Callers |-> call[r]]
    /\ \A r \in Callers : CallOK(call[r])

\* Cached devices have the options resolved for their group and their node.
DevicesOK(devices) ==
    \A d \in DOMAIN devices :
        /\ devices[d].name = d
        /\ devices[d].config = Resolved(case.settings.app,
                                        case.settings.groups[devices[d].group], NodeOf(d))

\* The service's three variables, or the record of them that a load starts from.
ServiceOK(s) ==
    /\ DevicesOK(s.cache)
    /\ s.loaded \in BOOLEAN
    /\ s.complete \subseteq 1 .. version
    /\ s.loaded => \E v \in s.complete : Has(s.cache, v)

SourceOK == case \in Cases /\ version \in 1 .. Len(case.versions)
AppOK == app \in {"starting", "up", "aborted"}

IInv == SourceOK /\ AppOK /\ CallsOK /\ ServiceOK(Kept)

\* The rows of every version are a sequence.
LEMMA RowsAreSequences ==
    ASSUME SourceOK, NEW v \in 1 .. version
    PROVE  LET rows == case.versions[v].rows
           IN  rows \in Seq({rows[i] : i \in DOMAIN rows}) /\ Len(rows) \in Nat
<1> DEFINE rows == case.versions[v].rows
<1>1. v \in 1 .. Len(case.versions)
  BY CasesAssumption DEF SourceOK
<1>2. rows \in Seq({rows[i] : i \in DOMAIN rows})
  BY <1>1, CasesAssumption DEF SourceOK
<1>3. Len(rows) \in Nat
  BY <1>2
<1> QED BY <1>2, <1>3

\* The rows that a load reads are a sequence again, all of them when none raises.
LEMMA ReadRowsLength ==
    ASSUME NEW rows, rows \in Seq({rows[i] : i \in DOMAIN rows})
    PROVE  /\ Len(ReadRows(rows)) \in Nat
           /\ BadRows(rows) = {} => ReadRows(rows) = rows
<1>1. Len(rows) \in Nat
  OBVIOUS
<1>2. CASE BadRows(rows) = {}
  BY <1>1, <1>2 DEF ReadRows
<1>3. CASE BadRows(rows) # {}
  <2> DEFINE first == CHOOSE i \in BadRows(rows) : \A j \in BadRows(rows) : i <= j
  <2>1. BadRows(rows) \in SUBSET (1 .. Len(rows))
    BY DEF BadRows
  <2>2. \E i \in BadRows(rows) : \A j \in BadRows(rows) : i <= j
    BY <1>1, <1>3, <2>1, FirstAndLast
  <2>3. first \in BadRows(rows)
    BY <2>2
  <2> HIDE DEF first
  <2>4. first \in 1 .. Len(rows)
    BY <2>1, <2>3
  <2>5. Len(SubSeq(rows, 1, first - 1)) \in Nat
    BY <1>1, <2>4
  <2> QED BY <1>3, <2>5 DEF ReadRows, first
<1> QED BY <1>2, <1>3

\* The names in a cache that rows are put into; those the rows do not have keep
\* their devices.
LEMMA CachedNames ==
    ASSUME NEW old, NEW rows
    PROVE  /\ DOMAIN Cached(old, rows) = DOMAIN old \cup Names(rows)
           /\ \A d \in DOMAIN old : d \notin Names(rows) => Cached(old, rows)[d] = old[d]
BY DEF Cached

\* A name that the rows have gets the device of a row of that name.
LEMMA CachedDevice ==
    ASSUME NEW old, NEW rows, Len(rows) \in Nat, NEW d \in Names(rows)
    PROVE  \E row : row.name = d /\ Cached(old, rows)[d] = Device(row)
<1> DEFINE Of == {i \in 1 .. Len(rows) : rows[i].name = d}
           Last(i) == rows[i].name = d /\ \A j \in i + 1 .. Len(rows) : rows[j].name # d
           last == CHOOSE i \in 1 .. Len(rows) : Last(i)
<1>1. Of \in SUBSET (1 .. Len(rows)) /\ Of # {}
  BY DEF Names
<1>2. PICK i \in Of : \A j \in Of : j <= i
  BY <1>1, FirstAndLast
<1>3. ASSUME NEW j \in i + 1 .. Len(rows) PROVE rows[j].name # d
  <2>1. j \in 1 .. Len(rows) /\ ~(j <= i)
    OBVIOUS
  <2> QED BY <1>2, <2>1
<1>4. Last(i) /\ i \in 1 .. Len(rows)
  BY <1>3
<1>5. last \in 1 .. Len(rows) /\ Last(last)
  BY <1>4
<1>6. Cached(old, rows)[d] = Device(rows[last])
  BY CachedNames, Zenon DEF Cached, LastRow
<1> HIDE DEF last
<1> QED BY <1>5, <1>6

\* Caching rows keeps the options of every cached device right.
LEMMA CachedOK ==
    ASSUME NEW old, DevicesOK(old), NEW rows, Len(rows) \in Nat
    PROVE  DevicesOK(Cached(old, rows))
<1> DEFINE new == Cached(old, rows)
<1> SUFFICES ASSUME NEW d \in DOMAIN new
             PROVE  /\ new[d].name = d
                    /\ new[d].config = Resolved(case.settings.app,
                                                case.settings.groups[new[d].group], NodeOf(d))
  BY DEF DevicesOK
<1>1. CASE d \in Names(rows)
  <2>1. PICK row : row.name = d /\ new[d] = Device(row)
    BY <1>1, CachedDevice
  <2> HIDE DEF new
  <2>2. /\ new[d].name = d
        /\ new[d].group = row.group
        /\ new[d].config = ConfigOf(row)
    BY <2>1 DEF Device
  <2> QED BY <2>1, <2>2 DEF ConfigOf
<1>2. CASE d \notin Names(rows)
  <2>1. d \in DOMAIN old /\ new[d] = old[d]
    BY <1>2, CachedNames
  <2> HIDE DEF new
  <2> QED BY <2>1 DEF DevicesOK
<1> QED BY <1>1, <1>2

\* A call that goes on leaves the others as they were.
LEMMA CallStep ==
    ASSUME CallsOK, NEW r \in Callers, NEW c, CallOK(c),
           call' = [call EXCEPT ![r] = c], version' = version
    PROVE  CallsOK'
<1>1. call' = [q \in Callers |-> IF q = r THEN c ELSE call[q]]
  BY Zenon DEF CallsOK
<1>2. call' = [q \in Callers |-> call'[q]]
  BY <1>1
<1>3. ASSUME NEW q \in Callers PROVE CallOK(call[q])'
  <2>1. CASE q = r
    BY <1>1, <2>1 DEF CallOK
  <2>2. CASE q # r
    <3>1. call'[q] = call[q]
      BY <1>1, <2>2
    <3>2. CallOK(call[q])
      BY DEF CallsOK
    <3> QED BY <3>1, <3>2 DEF CallOK
  <2> QED BY <2>1, <2>2
<1> QED BY <1>2, <1>3 DEF CallsOK

\* The end of a call, and its request.
LEMMA CallEnds ==
    ASSUME NEW c, CallOK(c), NEW pc \in {"done", "failed"}, NEW answer
    PROVE  CallOK(Ends(c, pc, answer)) /\ CallOK([c EXCEPT !.pc = "requested"])
<1>1. PICK o, p, g, i, a : c = [op |-> o, pc |-> p, got |-> g, since |-> i, result |-> a]
  BY DEF CallOK
<1> DEFINE e == Ends(c, pc, answer)
           q == [c EXCEPT !.pc = "requested"]
<1>2. e = [[c EXCEPT !.pc = pc] EXCEPT !.result = answer]
  BY <1>1 DEF Ends
<1>3. q = [op |-> o, pc |-> "requested", got |-> g, since |-> i, result |-> a]
  BY <1>1
<1> HIDE DEF e, q
<1>4. CallOK(e)
  BY <1>1, <1>2 DEF CallOK
<1>5. CallOK(q)
  BY <1>1, <1>3 DEF CallOK
<1> QED BY <1>4, <1>5 DEF e, q

\* The answer to a request is what the source holds.
LEMMA CallAnswered ==
    ASSUME NEW c, CallOK(c), NEW v, v = version, version \in 1 .. version
    PROVE  CallOK([c EXCEPT !.pc = "answered", !.got = v])
<1>1. PICK o, p, g, i, a : c = [op |-> o, pc |-> p, got |-> g, since |-> i, result |-> a]
  BY DEF CallOK
<1> DEFINE e == [c EXCEPT !.pc = "answered", !.got = v]
<1>2. e = [[c EXCEPT !.pc = "answered"] EXCEPT !.got = v]
  BY <1>1
<1>3. i \in 0 .. version /\ o \in {"none", "get", "reload"}
  BY <1>1 DEF CallOK
<1> HIDE DEF e
<1>4. /\ e.op = o /\ e.pc = "answered" /\ e.got = v /\ e.since = i /\ e.result = a
      /\ e = [op |-> e.op, pc |-> e.pc, got |-> e.got, since |-> e.since, result |-> e.result]
  BY <1>1, <1>2
<1>5. CallOK(e)
  BY <1>3, <1>4 DEF CallOK
<1> QED BY <1>5 DEF e

\* A load starts from a service that is in order, as it is or cleared.
LEMMA StartOfLoad ==
    ASSUME IInv
    PROVE  ServiceOK(Kept) /\ ServiceOK(Cleared) /\ Cleared.loaded = FALSE
<1>1. ServiceOK(Cleared)
  BY DEF Cleared, ServiceOK, DevicesOK, NoDevices
<1>2. Cleared.loaded = FALSE
  BY DEF Cleared
<1> QED BY <1>1, <1>2 DEF IInv

\* What the service becomes is in order if it was so before.
LEMMA BecomesOK ==
    ASSUME NEW s, ServiceOK(s), Becomes(s), case' = case, version' = version
    PROVE  ServiceOK(Kept)'
<1>1. cache' = s.cache /\ loaded' = s.loaded /\ complete' = s.complete
  BY DEF Becomes
<1>2. Kept'.cache = s.cache /\ Kept'.loaded = s.loaded /\ Kept'.complete = s.complete
  BY <1>1 DEF Kept
<1>3. DevicesOK(Kept.cache)'
  BY <1>2 DEF ServiceOK, DevicesOK, NodeOf
<1> QED BY <1>2, <1>3 DEF ServiceOK, Has

\* A payload that is cached keeps the service and the calls in order, whether it
\* is read to its end or not.
LEMMA CacheRowsStep ==
    ASSUME SourceOK, CallsOK, NEW s, ServiceOK(s), NEW r \in Callers, NEW c, CallOK(c),
           NEW v \in 1 .. version, s = Kept \/ s = Cleared,
           CacheRows(r, c, v, s), case' = case, version' = version
    PROVE  CallsOK' /\ ServiceOK(Kept)'
<1> DEFINE rows == case.versions[v].rows
           new == Cached(s.cache, ReadRows(rows))
<1>1. rows \in Seq({rows[i] : i \in DOMAIN rows})
  BY RowsAreSequences
<1>2. Len(ReadRows(rows)) \in Nat /\ (BadRows(rows) = {} => ReadRows(rows) = rows)
  <2> HIDE DEF rows
  <2> QED BY <1>1, ReadRowsLength
<1>3. DevicesOK(new)
  <2>1. DevicesOK(s.cache)
    BY DEF ServiceOK
  <2> HIDE DEF rows
  <2> QED BY <1>2, <2>1, CachedOK
<1>4. DOMAIN new = DOMAIN s.cache \cup Names(ReadRows(rows))
  BY CachedNames
<1>5. CASE BadRows(rows) = {}
  <2> DEFINE t == [cache |-> new, loaded |-> TRUE, complete |-> s.complete \cup {v}]
  <2>1. Becomes(t) /\ call' = [call EXCEPT ![r] = Ends(c, "done", new)]
    BY <1>5 DEF CacheRows
  <2>2. Has(new, v)
    BY <1>2, <1>4, <1>5 DEF Has
  <2> HIDE DEF new
  <2>3. ServiceOK(t)
    BY <1>3, <2>2 DEF ServiceOK
  <2> HIDE DEF t
  <2>4. ServiceOK(Kept)'
    BY <2>1, <2>3, BecomesOK
  <2>5. CallsOK'
    BY <2>1, CallEnds, CallStep
  <2> QED BY <2>4, <2>5
<1>6. CASE BadRows(rows) # {}
  <2> DEFINE t == [s EXCEPT !.cache = new]
  <2>1. Becomes(t) /\ call' = [call EXCEPT ![r] = Ends(c, "failed", NoDevices)]
    BY <1>6 DEF CacheRows
  <2>2. \A u : Has(s.cache, u) => Has(new, u)
    BY <1>4 DEF Has
  <2> HIDE DEF new
  <2>3. t.cache = new /\ t.loaded = s.loaded /\ t.complete = s.complete
    BY DEF Kept, Cleared
  <2> HIDE DEF t
  <2>4. ServiceOK(t)
    BY <1>3, <2>2, <2>3 DEF ServiceOK
  <2>5. ServiceOK(Kept)'
    BY <2>1, <2>4, BecomesOK
  <2>6. CallsOK'
    BY <2>1, CallEnds, CallStep
  <2> QED BY <2>5, <2>6
<1> QED BY <1>5, <1>6

\* A call that is answered from the cache, or loads the devices.
LEMMA CallingStep ==
    ASSUME IInv, NEW s, s = Kept \/ s = Cleared, NEW r \in Callers,
           NEW op \in {"get", "reload"}, Calling(r, op, s)
    PROVE  IInv'
<1>1. ServiceOK(s)
  BY StartOfLoad
<1>2. PICK c : c = [call[r] EXCEPT !.op = op, !.since = version]
  OBVIOUS
<1>3. version \in Nat /\ version \in 1 .. version
  BY CasesAssumption DEF IInv, SourceOK
<1>4. call[r].pc = "new" /\ UNCHANGED <<case, version, app, scheduler>>
  BY DEF Calling
<1>5. CallOK(c)
  <2>1. PICK o, p, g, i, a :
          call[r] = [op |-> o, pc |-> p, got |-> g, since |-> i, result |-> a]
    BY DEF IInv, CallsOK, CallOK
  <2>2. p = "new"
    BY <1>4, <2>1
  <2>3. c = [[call[r] EXCEPT !.op = op] EXCEPT !.since = version]
    BY <1>2, <2>1
  <2>4. c = [op |-> op, pc |-> p, got |-> g, since |-> version, result |-> a]
    <3>1. [call[r] EXCEPT !.op = op] = [op |-> op, pc |-> p, got |-> g, since |-> i, result |-> a]
      BY <2>1
    <3> QED BY <2>3, <3>1
  <2> QED BY <1>3, <2>2, <2>4 DEF CallOK
<1>6. IF s.loaded THEN call' = [call EXCEPT ![r] = Ends(c, "done", s.cache)] /\ Becomes(s)
                  ELSE Load(r, c, s)
  BY <1>2 DEF Calling
<1>7. CallsOK' /\ ServiceOK(Kept)'
  <2>1. CASE \/ Becomes(s) /\ call' = [call EXCEPT ![r] = Ends(c, "done", s.cache)]
             \/ Becomes(s) /\ call' = [call EXCEPT ![r] = Ends(c, "failed", NoDevices)]
             \/ Becomes(s) /\ call' = [call EXCEPT ![r] = [c EXCEPT !.pc = "requested"]]
    <3>1. ServiceOK(Kept)'
      BY <1>1, <1>4, <2>1, BecomesOK
    <3>2. \A answer : CallOK(Ends(c, "done", answer)) /\ CallOK(Ends(c, "failed", answer))
      BY <1>5, CallEnds
    <3>3. CallOK([c EXCEPT !.pc = "requested"])
      BY <1>5, CallEnds
    <3>4. PICK e : CallOK(e) /\ call' = [call EXCEPT ![r] = e]
      BY <2>1, <3>2, <3>3
    <3>5. CallsOK'
      BY <1>4, <3>4, CallStep DEF IInv
    <3> QED BY <3>1, <3>5
  <2>2. CASE CacheRows(r, c, version, s)
    BY <1>1, <1>3, <1>4, <1>5, <2>2, CacheRowsStep DEF IInv
  <2> QED BY <1>6, <2>1, <2>2 DEF Load, LoadFile, LoadTable, LoadHttp
<1> QED BY <1>4, <1>7 DEF IInv, SourceOK, AppOK

\* A call's step that leaves the service alone.
LEMMA OnlyCall ==
    ASSUME IInv, NEW r \in Callers, NEW c, CallOK(c), call' = [call EXCEPT ![r] = c],
           UNCHANGED <<case, version, cache, loaded, app, scheduler, complete>>
    PROVE  IInv'
<1>1. CallsOK'
  BY CallStep DEF IInv
<1>2. ServiceOK(Kept)'
  <2>1. Becomes(Kept)
    BY DEF Becomes, Kept
  <2>2. ServiceOK(Kept)
    BY DEF IInv
  <2>3. PICK s : s = Kept
    OBVIOUS
  <2>4. ServiceOK(s) /\ Becomes(s)
    BY <2>1, <2>2, <2>3 DEF Becomes, ServiceOK
  <2> QED BY <2>4, BecomesOK
<1> QED BY <1>1, <1>2 DEF IInv, SourceOK, AppOK

\* Initially nothing is cached and no call was made.
LEMMA InitIInv == Init => IInv
<1> SUFFICES ASSUME Init PROVE IInv
  OBVIOUS
<1>1. SourceOK
  BY CasesAssumption DEF Init, SourceOK
<1>2. CallsOK
  BY DEF Init, CallsOK, CallOK, NewCall, Callers
<1>3. ServiceOK(Kept)
  BY DEF Init, Kept, ServiceOK, DevicesOK, NoDevices
<1> QED BY <1>1, <1>2, <1>3 DEF Init, IInv, AppOK

\* Every step keeps the invariant.
LEMMA NextIInv == IInv /\ [Next]_vars => IInv'
<1> SUFFICES ASSUME IInv, [Next]_vars PROVE IInv'
  OBVIOUS
<1>1. version \in Nat /\ Len(case.versions) \in Nat
  BY CasesAssumption DEF IInv, SourceOK
<1>2. CASE SourceChanges
  <2>1. /\ version' = version + 1 /\ version < Len(case.versions)
        /\ UNCHANGED <<case, cache, loaded, call, app, scheduler, complete>>
    BY <1>2 DEF SourceChanges
  <2>2. SourceOK' /\ AppOK'
    BY <1>1, <2>1 DEF IInv, SourceOK, AppOK
  <2>3. \A r \in Callers : CallOK(call[r]) => CallOK(call[r])'
    BY <1>1, <2>1 DEF CallOK
  <2>4. CallsOK'
    BY <2>1, <2>3 DEF IInv, CallsOK
  <2>5. ServiceOK(Kept)'
    <3>1. ServiceOK(Kept)
      BY DEF IInv
    <3>2. Kept' = Kept
      BY <2>1 DEF Kept
    <3>3. DevicesOK(Kept.cache)'
      BY <2>1, <3>1 DEF Kept, ServiceOK, DevicesOK, NodeOf
    <3>4. \A v \in 1 .. version : v \in 1 .. version'
      BY <1>1, <2>1
    <3>5. (Kept.complete \subseteq 1 .. version)'
      BY <3>1, <3>2, <3>4 DEF ServiceOK
    <3> QED BY <2>1, <3>1, <3>2, <3>3, <3>5 DEF ServiceOK, Has
  <2> QED BY <2>2, <2>4, <2>5 DEF IInv
<1>3. CASE StartLoads
  <2>1. PICK s : s = Cleared
    OBVIOUS
  <2>2. Calling(Start, "reload", s)
    BY <1>3, <2>1 DEF StartLoads
  <2> QED BY <2>1, <2>2, CallingStep DEF Callers
<1>4. CASE StartEnds
  <2>1. UNCHANGED <<case, version, cache, loaded, call, complete>> /\ AppOK'
    BY <1>4 DEF StartEnds, AppOK
  <2>2. SourceOK' /\ CallsOK'
    BY <2>1 DEF IInv, SourceOK, CallsOK, CallOK
  <2>3. ServiceOK(Kept)'
    BY <2>1 DEF IInv, Kept, ServiceOK, DevicesOK, NodeOf, Has
  <2> QED BY <2>1, <2>2, <2>3 DEF IInv
<1>5. ASSUME NEW r \in Callers, Serve(r)
      PROVE  IInv'
  <2>1. version \in 1 .. version
    BY <1>1, CasesAssumption DEF IInv, SourceOK
  <2>2. PICK c, v : c = call[r] /\ v = version
    OBVIOUS
  <2>3. CallOK([c EXCEPT !.pc = "answered", !.got = v])
    BY <2>1, <2>2, CallAnswered DEF IInv, CallsOK
  <2>4. call' = [call EXCEPT ![r] = [c EXCEPT !.pc = "answered", !.got = v]]
    BY <1>5, <2>2 DEF Serve
  <2> QED BY <1>5, <2>3, <2>4, OnlyCall DEF Serve
<1>6. ASSUME NEW r \in Callers, RequestFails(r)
      PROVE  IInv'
  <2>1. PICK c : c = Ends(call[r], "failed", NoDevices)
    OBVIOUS
  <2>2. CallOK(call[r])
    BY DEF IInv, CallsOK
  <2>3. CallOK(Ends(call[r], "failed", NoDevices))
    <3>1. PICK o : o = call[r]
      OBVIOUS
    <3>2. CallOK(Ends(o, "failed", NoDevices))
      BY <2>2, <3>1, CallEnds
    <3> QED BY <3>1, <3>2
  <2>4. CallOK(c) /\ call' = [call EXCEPT ![r] = c]
    BY <1>6, <2>1, <2>3 DEF RequestFails
  <2> QED BY <1>6, <2>4, OnlyCall DEF RequestFails
<1>7. ASSUME NEW r \in Callers, Resume(r)
      PROVE  IInv'
  <2>1. PICK s, c, v : s = Kept /\ c = call[r] /\ v = call[r].got
    OBVIOUS
  <2>2. CallOK(call[r]) /\ call[r].pc = "answered"
    BY <1>7 DEF Resume, IInv, CallsOK
  <2>3. CallOK(c) /\ v \in 1 .. version
    BY <2>1, <2>2 DEF CallOK
  <2>4. CacheRows(r, c, v, s) /\ UNCHANGED <<case, version, app, scheduler>>
    BY <1>7, <2>1 DEF Resume
  <2>5. ServiceOK(s)
    BY <2>1 DEF IInv
  <2>6. CallsOK' /\ ServiceOK(Kept)'
    BY <2>1, <2>3, <2>4, <2>5, CacheRowsStep DEF IInv
  <2> QED BY <2>4, <2>6 DEF IInv, SourceOK, AppOK
<1>8. ASSUME NEW r \in Calls, Get(r) \/ Reload(r)
      PROVE  IInv'
  <2>1. PICK s, t : s = Kept /\ t = Cleared
    OBVIOUS
  <2>2. Calling(r, "get", s) \/ Calling(r, "reload", t)
    BY <1>8, <2>1 DEF Get, Reload, Invalidated
  <2> QED BY <2>1, <2>2, CallingStep DEF Callers
<1>9. CASE UNCHANGED vars
  <2>1. UNCHANGED <<case, version, cache, loaded, call, app, complete>>
    BY <1>9 DEF vars
  <2>2. SourceOK' /\ CallsOK' /\ AppOK'
    BY <2>1 DEF IInv, SourceOK, CallsOK, CallOK, AppOK
  <2>3. ServiceOK(Kept)'
    BY <2>1 DEF IInv, Kept, ServiceOK, DevicesOK, NodeOf, Has
  <2> QED BY <2>2, <2>3 DEF IInv
<1> QED BY <1>2, <1>3, <1>4, <1>5, <1>6, <1>7, <1>8, <1>9 DEF Next, Callers

-----------------------------------------------------------------------------
\* The types, the calls' records, the cached devices' options and LoadedIsWhole
\* hold in every reachable state.
THEOREM Inductive == Spec => []IInv
BY InitIInv, NextIInv, PTL DEF Spec

\* Whatever is loaded, invalidated and awaited at a time, the types are kept; a
\* payload that arrives was served after its request.
THEOREM TypeCorrect == Spec => []TypeOK
<1>1. IInv => TypeOK
  <2> SUFFICES ASSUME IInv PROVE TypeOK
    OBVIOUS
  <2>1. /\ case \in Cases /\ version \in 1 .. Len(case.versions)
        /\ app \in {"starting", "up", "aborted"}
    BY DEF IInv, SourceOK, AppOK
  <2>2. /\ loaded \in BOOLEAN /\ complete \subseteq 1 .. version
        /\ \A d \in DOMAIN cache : cache[d].name = d
    BY DEF IInv, Kept, ServiceOK, DevicesOK
  <2>3. ASSUME NEW r \in Calls \cup {Start}
        PROVE  /\ call[r].pc \in {"new", "requested", "answered", "done", "failed"}
               /\ call[r].op \in {"none", "get", "reload"}
               /\ call[r].pc = "answered" => call[r].got \in call[r].since .. version
    BY DEF IInv, CallsOK, CallOK, Callers
  <2> QED BY <2>1, <2>2, <2>3 DEF TypeOK
<1> QED BY <1>1, Inductive, PTL

\* A cache that counts as loaded holds every device of a payload that was read to
\* its end since the cache was cleared, whatever failed half way or came late.
THEOREM LoadedWhole == Spec => []LoadedIsWhole
<1>1. IInv => LoadedIsWhole
  BY DEF IInv, Kept, ServiceOK, LoadedIsWhole
<1> QED BY <1>1, Inductive, PTL

\* Every cached device has the options that the README's tables name, for any
\* configuration, the key-by-key jumphost and its port included; its cron expression too,
\* unless a level with only a time zone hides it (DeviceSources_schedule).
THEOREM OptionsAsDocumented == Spec => []ResolutionMatchesDocs
<1>1. IInv => ResolutionMatchesDocs
  BY ResolvedAsDocumented DEF IInv, Kept, ServiceOK, DevicesOK, ResolutionMatchesDocs
<1> QED BY <1>1, Inductive, PTL

-----------------------------------------------------------------------------
(***************************************************************************)
(* What the calls answer, and what the scheduler gets at the start.        *)
(***************************************************************************)
\* The rows of a version that has no bad row, and nothing else.
Whole(v, devices) ==
    BadRows(case.versions[v].rows) = {} /\ devices = Devices(case.versions[v].rows)

\* What ReloadShowsSource says of one call.
Shows(c, v) ==
    LET rows == case.versions[v].rows
        new == Devices(rows)
    IN  \/ /\ BadRows(rows) = {}
           /\ DOMAIN new \subseteq DOMAIN c.result
           /\ \A d \in DOMAIN new : c.result[d] = new[d]
           /\ case.kind # "http" => DOMAIN c.result = Names(rows)
        \/ ~case.versions[v].found /\ c.result = NoDevices

\* A reload that is done shows the source; only an HTTP source is awaited.
AnswerOK(c) ==
    /\ c.op = "reload" /\ c.pc = "done" => \E v \in c.since .. version : Shows(c, v)
    /\ c.pc \in {"requested", "answered"} => case.kind = "http"
AnswersOK == \A r \in Callers : AnswerOK(call[r])

\* Until the application is up no handler runs, so that the start's own load finds
\* the cache that it cleared; what it is given is one whole source.
StartInv ==
    app = "starting" =>
        /\ \A r \in Calls : call[r].pc = "new"
        /\ call[Start].pc \in {"new", "requested", "answered"} => cache = NoDevices
        /\ call[Start].pc = "done" => \E v \in 1 .. version : Whole(v, call[Start].result)

\* The jobs of a scheduler that runs, for some of its devices.
JobsOf(devices) == [d \in DOMAIN ScheduledOf(devices) \ scheduler.refused |-> devices[d]]
JobsInv ==
    /\ app = "starting" => ~scheduler.running
    /\ scheduler.running => \E v \in 1 .. version : \E devices :
                               Whole(v, devices) /\ scheduler.jobs = JobsOf(devices)

AInv == AnswersOK /\ StartInv /\ JobsInv

\* Rows put into an empty cache are the source's devices; the devices of the rows
\* are the same whatever was cached.
LEMMA CachedShows ==
    ASSUME NEW old, NEW rows
    PROVE  /\ DOMAIN Devices(rows) = Names(rows)
           /\ DOMAIN Devices(rows) \subseteq DOMAIN Cached(old, rows)
           /\ \A d \in DOMAIN Devices(rows) :
                  /\ Devices(rows)[d] = Device(LastRow(rows, d))
                  /\ Cached(old, rows)[d] = Devices(rows)[d]
<1>1. DOMAIN Devices(rows) = Names(rows)
  BY DEF Devices, Cached, NoDevices
<1>2. \A d \in Names(rows) : /\ Devices(rows)[d] = Device(LastRow(rows, d))
                             /\ Cached(old, rows)[d] = Device(LastRow(rows, d))
  BY DEF Devices, Cached, NoDevices
<1>3. Names(rows) \subseteq DOMAIN Cached(old, rows)
  BY CachedNames
<1> QED BY <1>1, <1>2, <1>3

\* The fields of a call that has ended or that waits for its answer.
LEMMA EndFields ==
    ASSUME NEW c, CallOK(c), NEW pc, NEW answer
    PROVE  LET e == Ends(c, pc, answer)
               q == [c EXCEPT !.pc = "requested"]
           IN  /\ e.op = c.op /\ e.since = c.since /\ e.pc = pc /\ e.result = answer
               /\ q.op = c.op /\ q.since = c.since /\ q.pc = "requested"
<1>1. PICK o, p, g, i, a : c = [op |-> o, pc |-> p, got |-> g, since |-> i, result |-> a]
  BY DEF CallOK
<1>2. Ends(c, pc, answer) = [[c EXCEPT !.pc = pc] EXCEPT !.result = answer]
  BY <1>1 DEF Ends
<1>3. [c EXCEPT !.pc = pc] = [op |-> o, pc |-> pc, got |-> g, since |-> i, result |-> a]
  BY <1>1
<1>4. Ends(c, pc, answer) = [op |-> o, pc |-> pc, got |-> g, since |-> i, result |-> answer]
  BY <1>2, <1>3
<1>5. [c EXCEPT !.pc = "requested"] =
          [op |-> o, pc |-> "requested", got |-> g, since |-> i, result |-> a]
  BY <1>1
<1> QED BY <1>1, <1>4, <1>5

\* What a call becomes whose payload is cached: it fails or shows the payload, and
\* exactly the payload if nothing was cached.
LEMMA CacheRowsAnswer ==
    ASSUME SourceOK, NEW s, NEW r \in Callers, NEW c, CallOK(c),
           NEW v \in 1 .. version, v \in c.since .. version,
           s.cache = NoDevices \/ case.kind = "http", CacheRows(r, c, v, s)
    PROVE  \E e : /\ call' = [call EXCEPT ![r] = e]
                  /\ AnswerOK(e) /\ e.pc \in {"done", "failed"}
                  /\ s.cache = NoDevices /\ e.pc = "done" => Whole(v, e.result)
<1> DEFINE rows == case.versions[v].rows
           new == Cached(s.cache, ReadRows(rows))
<1>1. rows \in Seq({rows[i] : i \in DOMAIN rows})
  BY RowsAreSequences
<1>2. CASE BadRows(rows) = {}
  <2> DEFINE e == Ends(c, "done", new)
  <2>1. call' = [call EXCEPT ![r] = e]
    BY <1>2 DEF CacheRows
  <2>2. ReadRows(rows) = rows
    BY <1>2 DEF ReadRows
  <2>3. /\ DOMAIN Devices(rows) = Names(rows)
        /\ DOMAIN Devices(rows) \subseteq DOMAIN new
        /\ \A d \in DOMAIN Devices(rows) : new[d] = Devices(rows)[d]
    <3>1. PICK old : old = s.cache
      OBVIOUS
    <3> HIDE DEF rows
    <3> QED BY <2>2, <3>1, CachedShows
  <2>4. s.cache = NoDevices => new = Devices(rows)
    BY <2>2 DEF Devices
  <2> HIDE DEF new
  <2>5. e.op = c.op /\ e.since = c.since /\ e.pc = "done" /\ e.result = new
    BY EndFields
  <2> HIDE DEF e
  <2>6. Shows(e, v)
    BY <1>2, <2>3, <2>4, <2>5 DEF Shows
  <2>7. AnswerOK(e)
    BY <2>5, <2>6 DEF AnswerOK
  <2>8. s.cache = NoDevices => Whole(v, e.result)
    BY <1>2, <2>4, <2>5 DEF Whole
  <2> QED BY <2>1, <2>5, <2>7, <2>8
<1>3. CASE BadRows(rows) # {}
  <2> DEFINE e == Ends(c, "failed", NoDevices)
  <2>1. call' = [call EXCEPT ![r] = e]
    BY <1>3 DEF CacheRows
  <2>2. e.pc = "failed"
    BY EndFields
  <2> HIDE DEF e
  <2> QED BY <2>1, <2>2 DEF AnswerOK
<1> QED BY <1>2, <1>3

\* What a getter or a reload becomes at once.
LEMMA CallingAnswer ==
    ASSUME IInv, NEW s, NEW op, NEW r \in Callers, Calling(r, op, s),
           (s = Kept /\ op = "get") \/ (s = Cleared /\ op = "reload")
    PROVE  \E e : /\ call' = [call EXCEPT ![r] = e]
                  /\ AnswerOK(e)
                  /\ op = "reload" =>
                        /\ e.pc \in {"requested", "done", "failed"}
                        /\ e.pc = "requested" => cache' = NoDevices
                        /\ e.pc = "done" => \E v \in 1 .. version : Whole(v, e.result)
<1>1. version \in Nat /\ version \in 1 .. version /\ SourceOK
  BY CasesAssumption DEF IInv, SourceOK
<1>2. PICK c : c = [call[r] EXCEPT !.op = op, !.since = version]
  OBVIOUS
<1>3. CallOK(c) /\ c.op = op /\ c.since = version
  <2>1. PICK o, p, g, i, a :
          call[r] = [op |-> o, pc |-> p, got |-> g, since |-> i, result |-> a]
    BY DEF IInv, CallsOK, CallOK
  <2>2. p = "new"
    BY <2>1 DEF Calling
  <2>3. [call[r] EXCEPT !.op = op] = [op |-> op, pc |-> p, got |-> g, since |-> i, result |-> a]
    BY <2>1
  <2>4. c = [[call[r] EXCEPT !.op = op] EXCEPT !.since = version]
    BY <1>2, <2>1
  <2>5. c = [op |-> op, pc |-> p, got |-> g, since |-> version, result |-> a]
    BY <2>3, <2>4
  <2> QED BY <1>1, <2>2, <2>5 DEF CallOK
<1>4. IF s.loaded THEN call' = [call EXCEPT ![r] = Ends(c, "done", s.cache)] /\ Becomes(s)
                  ELSE Load(r, c, s)
  BY <1>2 DEF Calling
<1>5. op = "reload" => s.cache = NoDevices /\ s.loaded = FALSE
  BY DEF Cleared
<1>6. CASE s.loaded
  <2> DEFINE e == Ends(c, "done", s.cache)
  <2>1. e.op = op /\ e.pc = "done"
    BY <1>3, EndFields
  <2>2. call' = [call EXCEPT ![r] = e]
    BY <1>4, <1>6
  <2> HIDE DEF e
  <2> QED BY <1>5, <1>6, <2>1, <2>2 DEF AnswerOK
<1>7. CASE ~s.loaded /\ CacheRows(r, c, version, s) /\ case.kind # "http"
  <2>1. CASE op = "reload"
    <3>1. PICK v : v = version
      OBVIOUS
    <3>2. v \in 1 .. version /\ v \in c.since .. version /\ CacheRows(r, c, v, s)
      BY <1>1, <1>3, <1>7, <3>1
    <3> QED BY <1>1, <1>3, <1>5, <2>1, <3>2, CacheRowsAnswer
  <2>2. CASE op = "get"
    <3>1. PICK e : /\ call' = [call EXCEPT ![r] = e]
                   /\ \E pc \in {"done", "failed"} : \E answer : e = Ends(c, pc, answer)
      BY <1>7 DEF CacheRows
    <3>2. e.op = "get" /\ e.pc \in {"done", "failed"}
      BY <1>3, <2>2, <3>1, EndFields
    <3> QED BY <2>2, <3>1, <3>2 DEF AnswerOK
  <2> QED BY <2>1, <2>2
<1>8. CASE /\ ~s.loaded /\ ~case.versions[version].found
           /\ call' = [call EXCEPT ![r] = Ends(c, "done", s.cache)]
  <2> DEFINE e == Ends(c, "done", s.cache)
             rows == case.versions[version].rows
  <2>1. e.op = op /\ e.since = version /\ e.pc = "done" /\ e.result = s.cache
    BY <1>3, EndFields
  <2>2. call' = [call EXCEPT ![r] = e]
    BY <1>8
  <2> HIDE DEF e
  <2>3. op = "reload" => Shows(e, version)
    BY <1>5, <1>8, <2>1 DEF Shows
  <2>4. AnswerOK(e)
    BY <1>1, <2>1, <2>3, <1>3 DEF AnswerOK
  <2>5. version \in 1 .. Len(case.versions) /\ case \in Cases
    BY <1>1 DEF SourceOK
  <2>6. rows = <<>>
    BY <1>8, <2>5, CasesAssumption
  <2>7. BadRows(rows) = {} /\ Names(rows) = {}
    BY <2>6 DEF BadRows, Names
  <2>8. Devices(rows) = NoDevices
    BY <2>7 DEF Devices, Cached, NoDevices
  <2>9. op = "reload" => Whole(version, e.result)
    BY <1>5, <2>1, <2>7, <2>8 DEF Whole
  <2> QED BY <1>1, <2>1, <2>2, <2>4, <2>9
<1>9. CASE ~s.loaded /\ call' = [call EXCEPT ![r] = Ends(c, "failed", NoDevices)]
  <2>1. Ends(c, "failed", NoDevices).pc = "failed"
    BY <1>3, EndFields
  <2> QED BY <1>9, <2>1 DEF AnswerOK
<1>10. CASE ~s.loaded /\ LoadHttp(r, c, s)
  <2> DEFINE e == [c EXCEPT !.pc = "requested"]
  <2>1. e.pc = "requested"
    BY <1>3, EndFields
  <2>2. call' = [call EXCEPT ![r] = e] /\ cache' = s.cache /\ case.kind = "http"
    BY <1>10 DEF LoadHttp, Becomes
  <2> HIDE DEF e
  <2> QED BY <1>5, <2>1, <2>2 DEF AnswerOK
<1> QED BY <1>4, <1>6, <1>7, <1>8, <1>9, <1>10 DEF Load, LoadFile, LoadTable


\* A step in which one call goes on keeps what holds of the answers.
LEMMA AnswersStep ==
    ASSUME CallsOK, AnswersOK, NEW r \in Callers, NEW e, AnswerOK(e),
           call' = [call EXCEPT ![r] = e], case' = case, version' = version
    PROVE  /\ AnswersOK'
           /\ call'[r] = e /\ \A q \in Callers \ {r} : call'[q] = call[q]
<1>1. call' = [q \in Callers |-> IF q = r THEN e ELSE call[q]]
  BY Zenon DEF CallsOK
<1>2. call'[r] = e /\ \A q \in Callers \ {r} : call'[q] = call[q]
  BY <1>1
<1>3. \A c, v : Shows(c, v) <=> Shows(c, v)'
  BY DEF Shows, BadRows, GoodRow, ConfigOf, NodeOf, Devices, Cached, Device, LastRow, Names
<1>4. \A c : AnswerOK(c) => AnswerOK(c)'
  BY <1>3 DEF AnswerOK
<1>5. ASSUME NEW q \in Callers PROVE AnswerOK(call[q])'
  <2>1. PICK c : c = call'[q] /\ AnswerOK(c)
    BY <1>2 DEF AnswersOK
  <2>2. AnswerOK(c)'
    BY <1>4, <2>1
  <2> QED BY <2>1, <2>2 DEF AnswerOK, Shows
<1> QED BY <1>2, <1>5 DEF AnswersOK

\* What a call shows does not depend on anything but the source; it stays right when
\* the source grows older.
LEMMA AnswersStay ==
    ASSUME CallsOK, AnswersOK, call' = call, case' = case,
           version \in Nat, version' \in {version, version + 1}
    PROVE  AnswersOK'
<1>1. \A v, c : Shows(c, v) <=> Shows(c, v)'
  BY DEF Shows, BadRows, GoodRow, ConfigOf, NodeOf, Devices, Cached, Device, LastRow, Names
<1>2. \A q \in Callers : call[q].since .. version \subseteq call[q].since .. version'
  BY DEF CallsOK, CallOK
<1> SUFFICES ASSUME NEW q \in Callers PROVE AnswerOK(call[q])'
  BY DEF AnswersOK
<1>3. PICK c : c = call[q]
  OBVIOUS
<1>4. AnswerOK(c) /\ c.since .. version \subseteq c.since .. version'
  BY <1>2, <1>3 DEF AnswersOK
<1>5. AnswerOK(c)'
  BY <1>1, <1>4 DEF AnswerOK
<1> QED BY <1>3, <1>5 DEF AnswerOK, Shows

\* The whole devices of a version stay what they are while the source is the same
\* and grows older.
LEMMA WholeStays ==
    ASSUME case' = case
    PROVE  \A v, devices : Whole(v, devices) <=> Whole(v, devices)'
BY DEF Whole, BadRows, GoodRow, ConfigOf, NodeOf, Devices, Cached, Device, LastRow, Names

\* Initially no call was made and the cache is empty.
LEMMA InitAInv == Init => AInv
BY DEF Init, AInv, AnswersOK, AnswerOK, StartInv, JobsInv, NewCall, Callers

\* Every step keeps the invariant.
LEMMA NextAInv == IInv /\ AInv /\ [Next]_vars => AInv'
<1> SUFFICES ASSUME IInv, AInv, [Next]_vars PROVE AInv'
  OBVIOUS
<1>0. /\ version \in Nat /\ version \in 1 .. version /\ Len(case.versions) \in Nat
      /\ SourceOK /\ CallsOK /\ Start \in Callers /\ Start \notin Calls
  BY CasesAssumption, CallsAssumption DEF IInv, SourceOK, Callers
<1>1. CASE UNCHANGED <<case, cache, call, app, scheduler>> /\ version' \in {version, version + 1}
  <2>3. AnswersOK'
    BY <1>0, <1>1, AnswersStay DEF AInv
  <2>4. \A v : v \in 1 .. version => v \in 1 .. version'
    BY <1>0, <1>1
  <2>5. \A v, devices : Whole(v, devices) => Whole(v, devices)'
    BY <1>1, WholeStays
  <2>6. StartInv'
    <3>1. \A answer : (\E v \in 1 .. version : Whole(v, answer))
                        => \E v \in 1 .. version' : Whole(v, answer)'
      BY <2>4, <2>5
    <3>2. PICK answer : answer = call[Start].result
      OBVIOUS
    <3>3. (\E v \in 1 .. version : Whole(v, call[Start].result))
            => (\E v \in 1 .. version : Whole(v, call[Start].result))'
      BY <1>1, <3>1, <3>2 DEF Whole
    <3> QED BY <1>1, <3>3 DEF AInv, StartInv
  <2>7. JobsInv'
    <3>1. \A v, devices : Whole(v, devices) /\ scheduler.jobs = JobsOf(devices)
                            => Whole(v, devices)' /\ (scheduler.jobs = JobsOf(devices))'
      BY <1>1, <2>5 DEF JobsOf, ScheduledOf
    <3> QED BY <1>1, <2>4, <3>1 DEF AInv, JobsInv
  <2> QED BY <2>3, <2>6, <2>7 DEF AInv
<1>2. CASE SourceChanges
  BY <1>1, <1>2 DEF SourceChanges
<1>3. ASSUME UNCHANGED <<case, version, app, scheduler>> PROVE JobsInv'
  BY <1>3, WholeStays DEF AInv, JobsInv, JobsOf, ScheduledOf
<1>4. ASSUME UNCHANGED <<case, version, app>>, NEW r \in Callers, NEW e, AnswerOK(e),
             call' = [call EXCEPT ![r] = e], app = "starting" => r = Start,
             r = Start /\ e.pc \in {"new", "requested", "answered"} /\ app = "starting"
                => cache' = NoDevices,
             r = Start /\ e.pc = "done" /\ app = "starting"
                => \E v \in 1 .. version : Whole(v, e.result)
      PROVE  AnswersOK' /\ StartInv'
  <2>1. /\ AnswersOK'
        /\ call'[r] = e /\ \A q \in Callers \ {r} : call'[q] = call[q]
    BY <1>0, <1>4, AnswersStep DEF AInv
  <2>2. StartInv'
    <3> SUFFICES ASSUME app = "starting" PROVE StartInv'
      BY <1>4 DEF StartInv
    <3>1. r = Start /\ call'[Start] = e /\ \A q \in Calls : call'[q].pc = "new"
      BY <1>0, <1>4, <2>1 DEF AInv, StartInv, Callers
    <3>2. e.pc = "done" => \E v \in 1 .. version' : Whole(v, e.result)'
      BY <1>4, <3>1, WholeStays
    <3>3. e.pc = "done" => (\E v \in 1 .. version : Whole(v, call[Start].result))'
      BY <3>1, <3>2 DEF Whole
    <3> QED BY <1>4, <3>1, <3>3 DEF StartInv
  <2> QED BY <2>1, <2>2
<1>5. CASE StartLoads
  <2>1. PICK s : s = Cleared
    OBVIOUS
  <2>2. Calling(Start, "reload", s)
    BY <1>5, <2>1 DEF StartLoads
  <2>3. PICK e : /\ call' = [call EXCEPT ![Start] = e] /\ AnswerOK(e)
                 /\ e.pc \in {"requested", "done", "failed"}
                 /\ e.pc = "requested" => cache' = NoDevices
                 /\ e.pc = "done" => \E v \in 1 .. version : Whole(v, e.result)
    BY <1>0, <2>1, <2>2, CallingAnswer
  <2>4. UNCHANGED <<case, version, app, scheduler>>
    BY <2>2 DEF Calling
  <2> QED BY <1>0, <1>3, <1>4, <2>3, <2>4 DEF AInv
<1>6. CASE StartEnds
  <2>1. UNCHANGED <<case, version, cache, loaded, call, complete>>
    BY <1>6 DEF StartEnds
  <2>2. AnswersOK'
    BY <1>0, <1>6, <2>1, AnswersStay DEF AInv, StartEnds
  <2>3. StartInv'
    BY <1>6 DEF StartEnds, StartInv
  <2>4. JobsInv'
    <3>1. app = "starting" /\ ~scheduler.running /\ app' # "starting"
      BY <1>6 DEF StartEnds, AInv, JobsInv
    <3>2. CASE UNCHANGED scheduler
      BY <3>1, <3>2 DEF JobsInv
    <3>3. ASSUME call[Start].pc = "done", NEW no,
                 scheduler' = [running |-> TRUE, refused |-> no,
                               jobs |-> [d \in DOMAIN ScheduledOf(call[Start].result) \ no
                                            |-> call[Start].result[d]]]
          PROVE  JobsInv'
      <4>1. PICK v \in 1 .. version : Whole(v, call[Start].result)
        BY <3>1, <3>3 DEF AInv, StartInv
      <4>2. PICK devices : devices = call[Start].result
        OBVIOUS
      <4>3. Whole(v, devices)'
        BY <2>1, <4>1, <4>2, WholeStays DEF Whole
      <4>4. (scheduler.jobs = JobsOf(devices))'
        BY <3>3, <4>2 DEF JobsOf, ScheduledOf
      <4> QED BY <2>1, <3>1, <4>3, <4>4 DEF JobsInv
    <3> QED BY <1>6, <3>2, <3>3 DEF StartEnds, SchedulerStarts
  <2> QED BY <2>2, <2>3, <2>4 DEF AInv
<1>7. ASSUME NEW r \in Callers, Serve(r)
      PROVE  AInv'
  <2>1. PICK c, v : c = call[r] /\ v = version
    OBVIOUS
  <2>2. PICK e : e = [c EXCEPT !.pc = "answered", !.got = v]
    OBVIOUS
  <2>3. e.pc = "answered"
    <3>1. PICK o, p, g, i, a : c = [op |-> o, pc |-> p, got |-> g, since |-> i, result |-> a]
      BY <1>0, <2>1 DEF CallsOK, CallOK
    <3>2. e = [[c EXCEPT !.pc = "answered"] EXCEPT !.got = v]
      BY <2>2, <3>1
    <3> QED BY <3>1, <3>2
  <2>4. /\ call' = [call EXCEPT ![r] = e] /\ call[r].pc = "requested"
        /\ UNCHANGED <<case, version, cache, loaded, app, scheduler, complete>>
    BY <1>7, <2>1, <2>2 DEF Serve
  <2>5. AnswerOK(e)
    BY <2>3, <2>4 DEF AInv, AnswersOK, AnswerOK
  <2>6. app = "starting" => r = Start /\ cache = NoDevices
    BY <2>4 DEF AInv, StartInv, Callers
  <2> QED BY <1>3, <1>4, <2>3, <2>4, <2>5, <2>6 DEF AInv
<1>8. ASSUME NEW r \in Callers, RequestFails(r)
      PROVE  AInv'
  <2>1. PICK c : c = call[r]
    OBVIOUS
  <2>2. PICK e : e = Ends(c, "failed", NoDevices)
    OBVIOUS
  <2>3. e.pc = "failed"
    BY <1>0, <2>1, <2>2, EndFields DEF CallsOK
  <2>4. /\ call' = [call EXCEPT ![r] = e] /\ call[r].pc = "requested"
        /\ UNCHANGED <<case, version, cache, loaded, app, scheduler, complete>>
    BY <1>8, <2>1, <2>2 DEF RequestFails
  <2>5. app = "starting" => r = Start
    BY <2>4 DEF AInv, StartInv, Callers
  <2> QED BY <1>3, <1>4, <2>3, <2>4, <2>5 DEF AInv, AnswerOK
<1>9. ASSUME NEW r \in Callers, Resume(r)
      PROVE  AInv'
  <2>1. PICK s, c, v : s = Kept /\ c = call[r] /\ v = call[r].got
    OBVIOUS
  <2>2. CallOK(c) /\ c.pc = "answered" /\ v \in c.since .. version /\ v \in 1 .. version
    BY <1>0, <1>9, <2>1 DEF Resume, CallsOK, CallOK
  <2>3. CacheRows(r, c, v, s) /\ UNCHANGED <<case, version, app, scheduler>>
    BY <1>9, <2>1 DEF Resume
  <2>4. case.kind = "http"
    BY <2>1, <2>2 DEF AInv, AnswersOK, AnswerOK
  <2>5. PICK e : /\ call' = [call EXCEPT ![r] = e]
                 /\ AnswerOK(e) /\ e.pc \in {"done", "failed"}
                 /\ s.cache = NoDevices /\ e.pc = "done" => Whole(v, e.result)
    <3>1. /\ SourceOK /\ r \in Callers /\ CallOK(c) /\ v \in 1 .. version
          /\ v \in c.since .. version /\ CacheRows(r, c, v, s) /\ case.kind = "http"
      BY <1>0, <1>9, <2>2, <2>3, <2>4
    <3> QED BY ONLY <3>1, CacheRowsAnswer
  <2>6. app = "starting" => r = Start /\ s.cache = NoDevices
    BY <2>1, <2>2 DEF AInv, StartInv, Callers, Kept
  <2> QED BY <1>3, <1>4, <2>2, <2>3, <2>5, <2>6 DEF AInv
<1>10. ASSUME NEW r \in Calls, Get(r) \/ Reload(r)
       PROVE  AInv'
  <2>1. PICK s, op : /\ Calling(r, op, s)
                     /\ (s = Kept /\ op = "get") \/ (s = Cleared /\ op = "reload")
    BY <1>10 DEF Get, Reload, Invalidated
  <2>2. app = "up" /\ r \in Callers /\ r # Start
    BY <1>0, <1>10 DEF Get, Reload, Callers
  <2>3. PICK e : call' = [call EXCEPT ![r] = e] /\ AnswerOK(e)
    BY <2>1, <2>2, CallingAnswer
  <2>4. UNCHANGED <<case, version, app, scheduler>>
    BY <2>1 DEF Calling
  <2> QED BY <1>3, <1>4, <2>2, <2>3, <2>4 DEF AInv
<1>11. CASE UNCHANGED vars
  BY <1>1, <1>11 DEF vars
<1> QED BY <1>2, <1>5, <1>6, <1>7, <1>8, <1>9, <1>10, <1>11 DEF Next, Callers

\* What is answered to a reload and what the scheduler is given holds in every
\* reachable state.
THEOREM AnswersInductive == Spec => []AInv
<1>1. Init => AInv
  BY InitAInv
<1>2. IInv /\ AInv /\ [Next]_vars => AInv'
  BY NextAInv
<1> QED BY <1>1, <1>2, Inductive, PTL DEF Spec

\* A reload that succeeds answers every device of a source not older than itself, as
\* that source has it, and nothing else unless another request was awaited meanwhile.
THEOREM ReloadsShowSource == Spec => []ReloadShowsSource
<1>1. AInv => ReloadShowsSource
  <2> SUFFICES ASSUME AInv, NEW r \in Callers, Reloaded(r)
               PROVE  \E v \in call[r].since .. version :
                        \/ Renewed(r, v) /\ (case.kind # "http" =>
                              DOMAIN call[r].result = Names(case.versions[v].rows))
                        \/ ~case.versions[v].found /\ call[r].result = NoDevices
    BY DEF ReloadShowsSource, Callers
  <2>1. PICK v \in call[r].since .. version : Shows(call[r], v)
    BY DEF AInv, AnswersOK, AnswerOK, Reloaded
  <2> QED BY <2>1 DEF Shows, Renewed
<1> QED BY <1>1, AnswersInductive, PTL

\* A scheduler that runs has the jobs of one whole source, whatever the kind of the source
\* and whenever it changes: of its devices that are enabled and have a cron expression, but
\* for jobs that were refused.
THEOREM JobsWholeSource == Spec => []JobsAreWholeSource
<1>1. AInv => JobsAreWholeSource
  <2> SUFFICES ASSUME AInv, scheduler.running PROVE JobsAreWholeSource
    BY DEF JobsAreWholeSource
  <2>0. PICK v \in 1 .. version :
          \E devices : Whole(v, devices) /\ scheduler.jobs = JobsOf(devices)
    BY DEF AInv, JobsInv
  <2>1. PICK devices : Whole(v, devices) /\ scheduler.jobs = JobsOf(devices)
    BY <2>0
  <2> DEFINE rows == case.versions[v].rows
             Cron(row) == ConfigOf(row).schedule.cron
             due == {d \in Names(rows) : LET row == LastRow(rows, d)
                                         IN  row.enabled /\ Cron(row) \notin {NoCron, Never}}
  <2>2. BadRows(rows) = {} /\ devices = Devices(rows)
    BY <2>1 DEF Whole
  <2>3. /\ DOMAIN devices = Names(rows)
        /\ \A d \in Names(rows) : devices[d] = Device(LastRow(rows, d))
    BY <2>2, CachedShows
  <2>4. \A d \in Names(rows) : /\ devices[d].enabled = LastRow(rows, d).enabled
                               /\ devices[d].config.schedule.cron = Cron(LastRow(rows, d))
    BY <2>3 DEF Device
  <2>5. DOMAIN ScheduledOf(devices) = due
    <3>1. DOMAIN ScheduledOf(devices) =
            {d \in DOMAIN devices : /\ devices[d].enabled
                                    /\ devices[d].config.schedule.cron \notin {NoCron, Never}}
      BY DEF ScheduledOf
    <3> HIDE DEF rows, Cron
    <3> QED BY <2>3, <2>4, <3>1
  <2>6. due \subseteq Names(rows)
    OBVIOUS
  <2>7. scheduler.jobs = [d \in due \ scheduler.refused |-> Device(LastRow(rows, d))]
    <3> HIDE DEF rows, due
    <3>1. \A d \in due \ scheduler.refused : devices[d] = Device(LastRow(rows, d))
      BY <2>3, <2>6
    <3>2. scheduler.jobs = [d \in due \ scheduler.refused |-> devices[d]]
      BY <2>1, <2>5 DEF JobsOf
    <3> QED BY <3>1, <3>2
  <2> QED BY <2>2, <2>7 DEF JobsAreWholeSource
<1> QED BY <1>1, AnswersInductive, PTL

=============================================================================
