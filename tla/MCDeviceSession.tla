-------------------------- MODULE MCDeviceSession --------------------------
(* Instances of DeviceSession for TLC. *)
EXTENDS DeviceSession

Plain(p) == [phase |-> p, command |-> TRUE, then |-> "none", wait |-> TRUE,
             meta |-> FALSE, show |-> FALSE]

Case(f, p, j, s) == [faults |-> f, proto |-> p, viaJump |-> j, script |-> s]

Short == <<Plain("pre"), Plain("backup")>>

\* An interactive step first and a command that is not awaited last; metadata
\* and a step with wrong inputs; a step with contradicting options.
Others ==
    {<<[Plain("pre") EXCEPT !.then = "ok"], Plain("backup"),
       [Plain("post") EXCEPT !.wait = FALSE]>>,
     <<[Plain("backup") EXCEPT !.meta = TRUE], Plain("backup"),
       [Plain("post") EXCEPT !.then = "bad"]>>,
     <<Plain("backup"), [Plain("post") EXCEPT !.meta = TRUE, !.show = TRUE]>>}

SessionCases ==
    {Case({"pause"}, "ssh", FALSE, Short),
     Case({"pause"}, "ssh", FALSE, <<[Plain("pre") EXCEPT !.wait = FALSE], Plain("backup")>>)}
    \cup {Case({"cut"}, p, FALSE, s) : p \in {"ssh", "telnet"}, s \in Others}
    \cup {Case({"stall", "cut"}, "telnet", FALSE, Short),
          Case({"stall"}, "ssh", FALSE, <<Plain("backup"), Plain("post")>>)}
    \cup {Case({"lost", "cancel", "banners"}, "telnet", FALSE, s) : s \in Others \cup {Short}}
    \cup {Case({"lost", "cancel", "cut"}, "ssh", TRUE, s) : s \in Others \cup {Short}}
    \cup {Case({"hang", "cancel"}, "ssh", j, Short) : j \in BOOLEAN}
    \cup {Case(f, "telnet", FALSE, Short) :
              f \in {{"hang", "cancel"}, {"pause", "stall", "banner"}}}

\* The device ends the session; a pager's marker is followed by a newline.
CutCases == {Case({"cut"}, "ssh", FALSE, Short)}
PagerCases == {Case({"newline"}, "ssh", FALSE, Short)}
=============================================================================
