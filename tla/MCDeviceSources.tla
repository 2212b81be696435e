-------------------------- MODULE MCDeviceSources --------------------------
(* Instances of DeviceSources for TLC. *)
EXTENDS DeviceSources, TLC

Row(d, a) == [name |-> d, group |-> "core", addr |-> a, enabled |-> TRUE]
Content(rows) == [found |-> TRUE, rows |-> rows]
Missing == [found |-> FALSE, rows |-> <<>>]

Core == [NoOptions EXCEPT !.password = "s", !.profile = "p"]
App == [protocol |-> "ssh", timeout |-> "30", cron |-> Unset, zone |-> Unset]
Plain == [app |-> App, groups |-> [g \in {"core"} |-> Core], nodes |-> [d \in {} |-> NoOptions]]

\* Devices come, go, move, are disabled, and a row is wrong.
Histories ==
    {<<Content(<<Row("d1", 1), Row("d2", 1)>>), Content(<<Row("d1", 2)>>)>>,
     <<Content(<<Row("d1", 1), [Row("d2", 1) EXCEPT !.enabled = FALSE]>>),
       Content(<<Row("d3", 1), [Row("d1", 1) EXCEPT !.group = "unknown"]>>),
       Content(<<Row("d1", 2), Row("d2", 1)>>)>>,
     <<Missing, Content(<<Row("d1", 1), Row("d1", 2)>>), Missing>>}

\* The options of a group and of a node, each with and without.
Jumps == {NoJump, [NoJump EXCEPT !.hostname = "h", !.port = "2022"],
          [k \in JumpKeys |-> IF k \in {"key", "port"} THEN Unset ELSE "g"],
          [k \in JumpKeys |-> IF k = "password" THEN Unset ELSE "h"]}
Levels == [protocol : {Unset, "ssh", "telnet"}, timeout : {Unset, "60"},
           cron : {Unset}, zone : {Unset}, password : {Unset, "s"}, key : {Unset, "k"}, profile : {Unset, "p"},
           port : {0, 2222}, jump : Jumps]
Groups == {g \in Levels : g.jump.hostname # "h"}
\* A level where at most two options differ from Core, or from nothing.
Near(levels, base, n) ==
    {l \in levels : Cardinality({f \in DOMAIN base : l[f] # base[f]}) <= n}
Configurations ==
    {[app |-> [App EXCEPT !.protocol = p], groups |-> [x \in {"core"} |-> g],
      nodes |-> [d \in {"d1"} |-> n]] :
        p \in {"ssh", "telnet"}, g \in Near(Groups, Core, 2), n \in Near(Levels, NoOptions, 2)}

\* The schedules of the three levels.
Crons == {Unset, NoCron, Never, "hourly"}
Schedules(level) == {[level EXCEPT !.cron = c, !.zone = z] : c \in Crons, z \in {Unset, "UTC"}}
ScheduleSettings ==
    {[app |-> a, groups |-> [x \in {"core"} |-> g], nodes |-> [d \in {"d1"} |-> n]] :
        a \in Schedules(App), g \in Schedules(Core), n \in Schedules(NoOptions)}
Single == <<Content(<<Row("d1", 1)>>)>>

SourceCases ==
    [kind : Kinds, settings : {Plain}, versions : Histories]
    \cup [kind : {"file"}, settings : Configurations \cup ScheduleSettings,
          versions : {Single}]

\* The calls of the handlers are interchangeable.
Symmetry == Permutations(Calls)

ReloadCases == [kind : {"http"}, settings : {Plain}, versions : Histories]
=============================================================================
