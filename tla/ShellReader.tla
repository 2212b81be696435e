---------------------------- MODULE ShellReader ----------------------------
(***************************************************************************)
(* How the SSH and Telnet services find the end of a command's output on   *)
(* an interactive shell (_read_until_patterns and _read_trailing_output,   *)
(* the same code in ssh_service.py and telnet_service.py), with the device *)
(* at the other end.                                                       *)
(*                                                                         *)
(* Output is a sequence of lines in flight; a read returns any number of   *)
(* them as one chunk.  Of a line only what the code tests matters: whether *)
(* it matches a prompt or a pager pattern.  Time is what the reader can    *)
(* tell: the device is silent for the confirmation window (0.2 s), or for  *)
(* the whole inactivity window.  The longer windows for outputs of 256 KiB *)
(* change the lengths only.                                                *)
(***************************************************************************)
EXTENDS Integers, Sequences

CONSTANT MaxLines   \* lines a device prints in answer to one command, and lines of its
                    \* banner that look like a prompt

\* pause, stall: the device is silent for the short or the long window although
\* it has more to say.  cut: it ends the stream.  lost: a read or a connect
\* raises.  newline: a pager line ends with a newline.  banner, banners: one line or
\* several lines of the banner look like a prompt.  The others concern
\* DeviceSession: a peer that does not close, the shutdown of the application.
FaultKinds == {"pause", "stall", "cut", "lost", "newline", "banner", "banners", "hang",
               "cancel"}

ASSUME MaxLinesAssumption == MaxLines \in Nat

VARIABLES
    faults, \* what may go wrong in this behaviour
    shell,  \* the device: [state, cmd, lines, paged]
    typed,  \* what was written to it and it has not taken yet
    stream, \* lines on the way to the reader
    sent,   \* observer: what was printed in answer to each command
    rd      \* the read: [pc, buf, rules, got, drained]

deviceVars == <<faults, shell, typed, stream, sent>>

\* A line that is part of an answer; one that looks like a prompt; the real
\* prompt; the echo of a command; a pager's marker, alone or followed by a
\* newline; a question for input; the end of the stream.
LineKinds == {"line", "mark", "prompt", "echo", "pager", "pagerLine", "ask",
              "askUser", "askPassword", "eof"}
Item(k, c) == [kind |-> k, cmd |-> c]
\* What is typed: a command, a newline, the answer to a pager, other input.
Input(k, c) == [kind |-> k, cmd |-> c]

ShellStates == {"off", "greeting", "user", "password", "waiting", "asking", "answering",
                "paging", "gone"}
OffShell == [state |-> "off", cmd |-> 0, lines |-> 0, paged |-> FALSE]
\* drained: chunks that were discarded before the next command.
NoRead == [pc |-> "off", buf |-> <<>>, rules |-> FALSE, got |-> "none", drained |-> 0]

ReaderTypeOK ==
    /\ faults \subseteq FaultKinds
    /\ shell \in [state : ShellStates, cmd : Nat, lines : 0 .. MaxLines, paged : BOOLEAN]
    /\ typed \in Seq([kind : {"command", "enter", "key", "text", "user", "password"},
                      cmd : Nat])
    /\ stream \in Seq([kind : LineKinds, cmd : Nat])
    /\ DOMAIN sent \subseteq Nat
    /\ rd.pc \in {"off", "login", "reading", "confirming", "done"}
    /\ rd.buf \in Seq([kind : LineKinds \ {"eof"}, cmd : Nat])
    /\ rd.rules \in BOOLEAN
    /\ rd.got \in {"none", "text", "timeout", "lost"}
    /\ rd.drained \in Nat

-----------------------------------------------------------------------------
(***************************************************************************)
(* The device.                                                             *)
(***************************************************************************)
Say(s) == stream' = stream \o s

\* At its prompt the device takes a line; a stray pager key is ignored.
DeviceTakes ==
    /\ shell.state \in {"waiting", "asking"} /\ typed # <<>>
    /\ LET in == Head(typed)
       IN  CASE in.kind = "command" /\ shell.state = "waiting" ->
                    /\ shell' = [OffShell EXCEPT !.state = "answering", !.cmd = in.cmd]
                    /\ Say(<<Item("echo", in.cmd)>>)
             [] in.kind = "key" -> UNCHANGED <<shell, stream>>
             [] OTHER -> /\ shell' = [OffShell EXCEPT !.state = "waiting"]
                         /\ Say(<<Item("prompt", 0)>>)
    /\ typed' = Tail(typed)
    /\ UNCHANGED <<faults, sent, rd>>

\* A pager goes on at any key.
PagerTakes ==
    /\ shell.state = "paging" /\ typed # <<>>
    /\ shell' = [shell EXCEPT !.state = "answering", !.paged = TRUE]
    /\ typed' = Tail(typed)
    /\ UNCHANGED <<faults, stream, sent, rd>>

\* A Telnet device greets with a banner, line by line.  Its lines that look like a
\* prompt are the ones that matter; then it asks for the user name.
DeviceGreets ==
    /\ shell.state = "greeting"
    /\ \/ /\ shell.lines < MaxLines
          /\ "banners" \in faults \/ ("banner" \in faults /\ shell.lines = 0)
          /\ Say(<<Item("mark", 0)>>)
          /\ shell' = [shell EXCEPT !.lines = @ + 1]
       \/ /\ Say(<<Item("askUser", 0)>>)
          /\ shell' = [OffShell EXCEPT !.state = "user"]
    /\ UNCHANGED <<faults, typed, sent, rd>>

\* The login dialogue of a Telnet device, which may refuse the password.
LoginTakes ==
    /\ shell.state \in {"user", "password"} /\ typed # <<>>
    /\ LET in == Head(typed)
       IN  CASE shell.state = "user" /\ in.kind # "enter" ->
                    /\ shell' = [shell EXCEPT !.state = "password"]
                    /\ Say(<<Item("askPassword", 0)>>)
             [] OTHER ->
                    \/ /\ shell.state = "password" /\ in.kind = "password"
                       /\ shell' = [shell EXCEPT !.state = "waiting"]
                       /\ Say(<<Item("prompt", 0)>>)
                    \/ /\ shell' = [shell EXCEPT !.state = "user"]
                       /\ Say(<<Item("askUser", 0)>>)
    /\ typed' = Tail(typed)
    /\ UNCHANGED <<faults, sent, rd>>

\* It prints a line, stops at a pager or a question, or prints its prompt.
DeviceAnswers ==
    /\ shell.state = "answering"
    /\ \/ /\ shell.lines < MaxLines
          /\ \E k \in {"line", "mark"} :
                /\ Say(<<Item(k, shell.cmd)>>)
                /\ sent' = [sent EXCEPT ![shell.cmd] = Append(@, Item(k, shell.cmd))]
          /\ shell' = [shell EXCEPT !.lines = @ + 1, !.paged = FALSE]
       \/ /\ shell.lines > 0 /\ ~shell.paged
          /\ Say(<<Item(IF "newline" \in faults THEN "pagerLine" ELSE "pager", shell.cmd)>>)
          /\ shell' = [shell EXCEPT !.state = "paging"]
          /\ UNCHANGED sent
       \/ /\ shell.lines = 0
          /\ Say(<<Item("ask", shell.cmd)>>)
          /\ shell' = [shell EXCEPT !.state = "asking"]
          /\ sent' = [sent EXCEPT ![shell.cmd] = Append(@, Item("ask", shell.cmd))]
       \/ /\ Say(<<Item("prompt", 0)>>)
          /\ shell' = [OffShell EXCEPT !.state = "waiting"]
          /\ sent' = [sent EXCEPT ![shell.cmd] = Append(@, Item("prompt", 0))]
    /\ UNCHANGED <<faults, typed, rd>>

\* It ends the session, whatever it is doing.
DeviceCuts ==
    /\ "cut" \in faults
    /\ shell.state \notin {"off", "gone"}
    /\ shell' = [OffShell EXCEPT !.state = "gone"]
    /\ Say(<<Item("eof", 0)>>)
    /\ typed' = <<>>
    /\ UNCHANGED <<faults, sent, rd>>

Device == DeviceTakes \/ PagerTakes \/ DeviceGreets \/ LoginTakes \/ DeviceAnswers

DeviceSilent == typed = <<>> /\ shell.state \notin {"greeting", "answering"}
IdleWindow == stream = <<>> /\ (DeviceSilent \/ faults \cap {"pause", "stall"} # {})
InactivityWindow == stream = <<>> /\ (DeviceSilent \/ "stall" \in faults)

-----------------------------------------------------------------------------
(***************************************************************************)
(* The reader.                                                             *)
(***************************************************************************)
AtEof == stream # <<>> /\ Head(stream).kind = "eof"
\* The sizes of a chunk that stream.read may return.
ChunkSizes == {k \in 1 .. Len(stream) : \A i \in 1 .. k : stream[i].kind # "eof"}
Chunk(k) == SubSeq(stream, 1, k)
Rest(k) == SubSeq(stream, k + 1, Len(stream))

PromptLike == {"prompt", "mark"}
Pagers == {"pager", "pagerLine"}
\* The last line of a buffer that is not blank.
LastKind(buf) == IF buf = <<>> THEN "none" ELSE buf[Len(buf)].kind

\* A call of _read_until_patterns, with or without pagination rules.
Reading(rules) == [NoRead EXCEPT !.pc = "reading", !.rules = rules]
Return(got) == rd' = [rd EXCEPT !.pc = "done", !.got = got]

\* The last line matches a prompt pattern.
AtPrompt == rd.pc = "reading" /\ LastKind(rd.buf) \in PromptLike
\* It matches a pagination rule (prompts are tested first).
AtPager == rd.pc = "reading" /\ rd.rules /\ LastKind(rd.buf) \in Pagers
\* Neither: the loop reads the next chunk.
AwaitsOutput == rd.pc = "reading" /\ ~AtPrompt /\ ~AtPager

\* Mutation of ConfirmPrompt: no confirmation, a line that looks like a prompt
\* ends the output.
ConfirmPromptAtOnce == AtPrompt /\ Return("text") /\ UNCHANGED deviceVars

\* The prompt is confirmed by silence (or by the end of the stream).
ConfirmPrompt ==
    /\ AtPrompt
    /\ IdleWindow \/ AtEof
    /\ Return("text")
    /\ UNCHANGED deviceVars

\* Mutation of ConfirmMore: what comes during the confirmation is dropped.
ConfirmMoreDrops ==
    /\ AtPrompt \/ rd.pc = "confirming"
    /\ \E k \in ChunkSizes :
          /\ rd' = [rd EXCEPT !.pc = "confirming"]
          /\ stream' = Rest(k)
    /\ UNCHANGED <<faults, shell, typed, sent>>

\* More output during the confirmation: the line was no prompt.
ConfirmMore ==
    /\ AtPrompt \/ rd.pc = "confirming"
    /\ \E k \in ChunkSizes :
          /\ rd' = [rd EXCEPT !.pc = "confirming", !.buf = @ \o Chunk(k)]
          /\ stream' = Rest(k)
    /\ UNCHANGED <<faults, shell, typed, sent>>

\* The confirmation ends after a silence, at the end of the stream or after its
\* longest duration; the last line is looked at again.
ConfirmEnds ==
    /\ rd.pc = "confirming"
    /\ rd' = [rd EXCEPT !.pc = "reading"]
    /\ UNCHANGED deviceVars

\* A pager is answered and its line removed from the buffer: everything after
\* the last newline, so a marker that is followed by one stays.
AnswerPager ==
    /\ AtPager
    /\ Len(typed) < 2       \* bound: what the device has not taken yet
    /\ typed' = Append(typed, Input("key", 0))
    /\ rd' = IF LastKind(rd.buf) = "pager"
             THEN [rd EXCEPT !.buf = SubSeq(@, 1, Len(@) - 1)] ELSE rd
    /\ UNCHANGED <<faults, shell, stream, sent>>

ReadChunk ==
    /\ AwaitsOutput
    /\ \E k \in ChunkSizes :
          /\ rd' = [rd EXCEPT !.buf = @ \o Chunk(k)]
          /\ stream' = Rest(k)
    /\ UNCHANGED <<faults, shell, typed, sent>>

\* The end of the stream ends the output like a prompt.
ReadEof == AwaitsOutput /\ AtEof /\ Return("text") /\ UNCHANGED deviceVars

\* asyncio.TimeoutError after a whole window without output.
ReadTimeout ==
    /\ AwaitsOutput /\ InactivityWindow
    /\ Return("timeout")
    /\ UNCHANGED deviceVars

\* The connection is lost and the read raises.
ReadLost ==
    /\ "lost" \in faults /\ rd.pc \in {"reading", "confirming"} /\ ~AtPager
    /\ Return("lost")
    /\ UNCHANGED deviceVars

Reader == ConfirmPrompt \/ ConfirmMore \/ ConfirmEnds \/ AnswerPager \/ ReadChunk
          \/ ReadEof \/ ReadTimeout

-----------------------------------------------------------------------------
(***************************************************************************)
(* _sanitize_command_output.                                               *)
(***************************************************************************)
\* The sequence without its last items of kinds K.
Trimmed(s, K) ==
    LET kept == {i \in 1 .. Len(s) : s[i].kind \notin K}
    IN  SubSeq(s, 1, IF kept = {} THEN 0 ELSE CHOOSE i \in kept : \A j \in kept : j <= i)

EchoLines == 8
\* Everything up to the first echo of the command among the first lines goes.
AfterEcho(s, c) ==
    LET echoes == {i \in 1 .. Len(s) : i <= EchoLines /\ s[i] = Item("echo", c)}
    IN  IF echoes = {} THEN s
        ELSE SubSeq(s, (CHOOSE i \in echoes : \A j \in echoes : i <= j) + 1, Len(s))

\* Mutation of Sanitized: stale lines before the echo are kept.
SanitizedKeepsStale(s, c) == Trimmed(Trimmed(s, PromptLike), {"echo"})

\* Then trailing prompts (and lines that look like one), then trailing echoes.
Sanitized(s, c) == Trimmed(Trimmed(AfterEcho(s, c), PromptLike), {"echo"})
=============================================================================
