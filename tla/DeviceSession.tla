--------------------------- MODULE DeviceSession ---------------------------
(***************************************************************************)
(* get_config of the SSH and the Telnet service: the attempts, and in each *)
(* the connection (through a jumphost or not), the Telnet login, the first *)
(* prompt, the vendor's commands in their phases, and the clean-up.  The   *)
(* two services share this code but for the login and how they close.      *)
(***************************************************************************)
EXTENDS ShellReader, FiniteSets

CONSTANTS
    Retries,    \* the device's retry setting
    DrainChunks, \* chunks that are discarded before a command at most
    Cases       \* the fetches: [faults, proto, viaJump, script]

\* A script is the vendor's commands, a sequence of Step.
\* command: not empty.  then: the interactive inputs (a list of the right
\* length or not).  wait, meta, show: the options of the same names.
Step == [phase : {"pre", "backup", "post"}, command : BOOLEAN,
         then : {"none", "ok", "bad"}, wait : BOOLEAN, meta : BOOLEAN, show : BOOLEAN]

ASSUME RetriesAssumption == Retries \in Nat
ASSUME DrainAssumption == DrainChunks \in Nat \ {0}
\* The phases run in their order.
PhaseOrder(s) == \A i, j \in DOMAIN s :
    i < j => \/ s[i].phase = s[j].phase \/ s[i].phase = "pre" \/ s[j].phase = "post"
ASSUME CasesAssumption == \A c \in Cases :
    /\ c = [faults |-> c.faults, proto |-> c.proto, viaJump |-> c.viaJump,
            script |-> c.script]
    /\ c.faults \subseteq FaultKinds
    /\ c.proto \in {"ssh", "telnet"} /\ c.viaJump \in BOOLEAN
    /\ c.proto = "telnet" => ~c.viaJump
    /\ c.script \in Seq(Step) /\ PhaseOrder(c.script)

VARIABLES
    proto,    \* "ssh" or "telnet"
    viaJump,  \* the SSH connection goes through a jumphost
    script,   \* the vendor's commands
    pc,       \* where the coroutine is
    attempt,  \* the attempt, from 1
    step,     \* the command of the script, from 1
    given,    \* the credentials the login has sent
    retried,  \* a second newline was sent for the first prompt
    conn,     \* the connection to the device
    tunnel,   \* the connection to the jumphost
    captured, \* what was captured of each command
    err       \* the exception that is pending, or "none"

settings == <<proto, viaJump, script>>
conns == <<conn, tunnel>>
vars == <<settings, pc, attempt, step, given, retried, conns, captured, err,
          deviceVars, rd>>

Steps == 1 .. Len(script)
NoCapture == [i \in Steps |-> <<>>]
NothingSent == [i \in Steps |-> <<>>]

TypeOK ==
    /\ ReaderTypeOK
    /\ [faults |-> faults, proto |-> proto, viaJump |-> viaJump, script |-> script]
            \in Cases
    /\ pc \in {"tunnel", "connect", "login", "shell", "prompt", "step", "command",
               "closeShell", "waitConn", "closeTunnel", "waitTunnel", "end", "sleep",
               "done"}
    /\ attempt \in 1 .. Retries + 1
    /\ step \in 1 .. Len(script) + 1
    /\ given \subseteq {"user", "password"} /\ retried \in BOOLEAN
    /\ conn \in {"closed", "open", "closing"} /\ tunnel \in {"closed", "open", "closing"}
    /\ DOMAIN captured = Steps
    /\ \A i \in Steps : captured[i] \in Seq([kind : LineKinds, cmd : Nat])
    /\ err \in {"none", "timeout", "error", "cancelled"}

Init ==
    /\ \E c \in Cases : /\ faults = c.faults /\ proto = c.proto
                        /\ viaJump = c.viaJump /\ script = c.script
    /\ pc = IF viaJump THEN "tunnel" ELSE "connect"
    /\ attempt = 1 /\ step = 1 /\ given = {} /\ retried = FALSE
    /\ conn = "closed" /\ tunnel = "closed"
    /\ captured = NoCapture
    /\ err = "none"
    /\ shell = OffShell /\ typed = <<>> /\ stream = <<>> /\ sent = NothingSent
    /\ rd = NoRead

Type(s) == typed' = typed \o s
Quiet == UNCHANGED <<settings, attempt, conns>>
\* The credentials and the retried prompt of an attempt.
login == <<given, retried>>

\* Mutation of CleanUp: only what belongs to the device is closed.
CleanUpForgetsTunnel == IF conn = "open" THEN "closeShell" ELSE "end"

\* Where the finally clauses start.
CleanUp == IF conn = "open" THEN "closeShell" ELSE "closeTunnel"
Fail(e) == err' = e /\ pc' = CleanUp /\ rd' = NoRead

-----------------------------------------------------------------------------
(***************************************************************************)
(* Connecting and logging in.                                              *)
(***************************************************************************)
OpenTunnel ==
    /\ pc = "tunnel"
    /\ tunnel' = "open" /\ pc' = "connect"
    /\ UNCHANGED <<settings, attempt, step, login, conn, captured, err, deviceVars, rd>>

\* A Telnet device greets, an SSH device waits for the shell.
OpenConn ==
    /\ pc = "connect"
    /\ conn' = "open"
    /\ IF proto = "ssh"
       THEN pc' = "shell" /\ UNCHANGED <<shell, typed, stream, rd>>
       ELSE /\ pc' = "login"
            /\ shell' = [OffShell EXCEPT !.state = "greeting"]
            /\ stream' = <<>> /\ typed' = <<Input("enter", 0)>>
            /\ rd' = [NoRead EXCEPT !.pc = "login"]
    /\ UNCHANGED <<settings, attempt, step, login, tunnel, captured, err, faults, sent>>

\* The jumphost, the device or its shell cannot be reached, refuses or is late.
ConnectFails ==
    /\ "lost" \in faults
    /\ pc \in {"tunnel", "connect"} \/ (pc = "shell" /\ proto = "ssh")
    /\ \E e \in {"timeout", "error"} : Fail(e)
    /\ Quiet /\ UNCHANGED <<step, login, captured, deviceVars>>

\* The login reads until the last line is one it knows.
Asked(k) == pc = "login" /\ rd.pc = "login" /\ LastKind(rd.buf) \in k
AskedUser == Asked({"askUser"}) /\ "user" \notin given
AskedPassword == Asked({"askPassword"}) /\ "password" \notin given

LoggedIn ==
    /\ pc' = "shell" /\ rd' = NoRead
    /\ Quiet /\ UNCHANGED <<step, login, captured, err, deviceVars>>

\* A line that looks like a prompt ends the login, without a confirmation.
LoginPrompt == Asked(PromptLike) /\ LoggedIn

\* The user name and the password are sent once each.
GiveCredential(k) ==
    /\ given' = given \cup {k}
    /\ typed' = Append(typed, Input(k, 0))
    /\ rd' = [rd EXCEPT !.buf = <<>>]
    /\ Quiet
    /\ UNCHANGED <<pc, step, retried, captured, err, faults, shell, stream, sent>>

LoginUser == AskedUser /\ GiveCredential("user")
LoginPassword == AskedPassword /\ GiveCredential("password")

LoginWaits == pc = "login" /\ rd.pc = "login"
              /\ ~Asked(PromptLike) /\ ~AskedUser /\ ~AskedPassword

LoginReads ==
    /\ LoginWaits
    /\ \E k \in ChunkSizes :
          /\ rd' = [rd EXCEPT !.buf = @ \o Chunk(k)]
          /\ stream' = Rest(k)
    /\ Quiet
    /\ UNCHANGED <<pc, step, login, captured, err, faults, shell, typed, sent>>

\* The end of the stream ends the login as a prompt does.
LoginEof == LoginWaits /\ AtEof /\ LoggedIn

LoginTimeout ==
    /\ LoginWaits /\ InactivityWindow
    /\ Fail("timeout")
    /\ Quiet /\ UNCHANGED <<step, login, captured, deviceVars>>

LoginLost ==
    /\ LoginWaits /\ "lost" \in faults
    /\ Fail("error")
    /\ Quiet /\ UNCHANGED <<step, login, captured, deviceVars>>

Login == LoginPrompt \/ LoginUser \/ LoginPassword \/ LoginReads \/ LoginEof
         \/ LoginTimeout

-----------------------------------------------------------------------------
(***************************************************************************)
(* The shell: the first prompt and the commands.                           *)
(***************************************************************************)
\* What is typed at a device that ended the session goes nowhere.
Typing(s) == typed' = IF shell.state = "gone" THEN typed ELSE typed \o s

\* The shell starts, a newline is sent and the prompt awaited, without paging.
StartShell ==
    /\ pc = "shell"
    /\ IF proto = "ssh"
       THEN /\ shell' = [OffShell EXCEPT !.state = "waiting"]
            /\ stream' = <<Item("prompt", 0)>>
            /\ typed' = <<Input("enter", 0)>>
       ELSE Typing(<<Input("enter", 0)>>) /\ UNCHANGED <<shell, stream>>
    /\ rd' = Reading(FALSE)
    /\ pc' = "prompt"
    /\ Quiet /\ UNCHANGED <<step, login, captured, err, faults, sent>>

FirstPrompt ==
    /\ pc = "prompt" /\ rd.pc = "done" /\ rd.got = "text"
    /\ pc' = "step" /\ rd' = NoRead
    /\ Quiet /\ UNCHANGED <<step, login, captured, err, deviceVars>>

\* One more newline after a timeout.
SecondNewline ==
    /\ pc = "prompt" /\ rd.pc = "done" /\ rd.got = "timeout" /\ ~retried
    /\ retried' = TRUE
    /\ Typing(<<Input("enter", 0)>>)
    /\ rd' = Reading(FALSE)
    /\ Quiet
    /\ UNCHANGED <<pc, step, given, captured, err, faults, shell, stream, sent>>

\* Mutation of NoFirstPrompt: the commands are typed without a prompt.
NoFirstPromptGoesOn ==
    /\ pc = "prompt" /\ rd.pc = "done"
    /\ rd.got = "lost" \/ (rd.got = "timeout" /\ retried)
    /\ pc' = "step" /\ rd' = NoRead
    /\ Quiet /\ UNCHANGED <<step, login, captured, err, deviceVars>>

NoFirstPrompt ==
    /\ pc = "prompt" /\ rd.pc = "done"
    /\ rd.got = "lost" \/ (rd.got = "timeout" /\ retried)
    /\ Fail(IF rd.got = "lost" THEN "error" ELSE "timeout")
    /\ Quiet /\ UNCHANGED <<step, login, captured, deviceVars>>

AtStep == pc = "step" /\ step <= Len(script) /\ rd.pc = "off"
Valid(st) == ~(st.meta /\ st.show) /\ st.command
Current == script[step]
NextStep == step' = step + 1 /\ pc' = "step" /\ rd' = NoRead /\ UNCHANGED err

\* Options that contradict each other, or no command: an error in any phase.
InvalidStep ==
    /\ AtStep /\ ~Valid(Current)
    /\ Fail("error")
    /\ Quiet /\ UNCHANGED <<step, login, captured, deviceVars>>

\* An exception of a step ends the attempt, after the backup it is ignored.
StepFails ==
    /\ IF Current.phase = "post" THEN NextStep ELSE Fail("error") /\ UNCHANGED step
    /\ Quiet /\ UNCHANGED <<login, captured>>

\* Await the prompt with the vendor's paging, or do not.
AwaitOrGoOn ==
    /\ IF Current.wait
       THEN rd' = Reading(TRUE) /\ pc' = "command" /\ UNCHANGED <<step, err>>
       ELSE NextStep
    /\ Quiet /\ UNCHANGED <<login, captured, faults, shell, stream, sent>>

\* A command with interactive inputs: nothing is drained before it.
ThenStep ==
    /\ AtStep /\ Valid(Current) /\ Current.then = "ok"
    /\ Typing(<<Input("command", step), Input("text", step)>>)
    /\ AwaitOrGoOn

\* The inputs are looked at when the command is already typed.
ThenStepBad ==
    /\ AtStep /\ Valid(Current) /\ Current.then = "bad"
    /\ Typing(<<Input("command", step)>>)
    /\ StepFails
    /\ UNCHANGED <<faults, shell, stream, sent>>

PlainStep == AtStep /\ Valid(Current) /\ Current.then = "none"

\* What is left of earlier output is discarded, so many chunks of it at most.
Drain ==
    /\ PlainStep /\ rd.drained < DrainChunks
    /\ \E k \in ChunkSizes : stream' = Rest(k)
    /\ rd' = [rd EXCEPT !.drained = @ + 1]
    /\ Quiet
    /\ UNCHANGED <<pc, step, login, captured, err, faults, shell, typed, sent>>

\* After 20 ms of silence the command is typed, or when so many chunks have come.
TypeCommand ==
    /\ PlainStep
    /\ stream = <<>> \/ AtEof \/ rd.drained = DrainChunks
    /\ Typing(<<Input("command", step)>>)
    /\ AwaitOrGoOn

\* The output without echo and prompt, of a plain command of the backup phase.
Captures ==
    IF Current.phase = "backup" /\ Current.then = "none"
    THEN [captured EXCEPT ![step] = Sanitized(rd.buf, step)] ELSE captured

CommandEnds ==
    /\ pc = "command" /\ rd.pc = "done" /\ rd.got = "text"
    /\ captured' = Captures
    /\ NextStep
    /\ Quiet /\ UNCHANGED <<login, deviceVars>>

CommandFails ==
    /\ pc = "command" /\ rd.pc = "done" /\ rd.got # "text"
    /\ StepFails
    /\ UNCHANGED deviceVars

\* All phases have run; an empty configuration is an error.
Kept == {i \in Steps : ~script[i].meta /\ captured[i] # <<>>}
ScriptEnds ==
    /\ pc = "step" /\ step > Len(script)
    /\ err' = IF Kept = {} THEN "error" ELSE "none"
    /\ pc' = CleanUp
    /\ Quiet /\ UNCHANGED <<step, login, captured, deviceVars, rd>>

Commands ==
    \/ StartShell \/ FirstPrompt \/ SecondNewline \/ NoFirstPrompt
    \/ InvalidStep \/ ThenStep \/ ThenStepBad \/ Drain \/ TypeCommand
    \/ CommandEnds \/ CommandFails \/ ScriptEnds

-----------------------------------------------------------------------------
(***************************************************************************)
(* The finally clauses, and the next attempt.                              *)
(***************************************************************************)
\* The shell and then the connection are closed.  What was captured before an
\* exception is lost.
CloseConn ==
    /\ pc = "closeShell"
    /\ conn' = "closing"
    /\ IF err = "none" THEN UNCHANGED <<captured, sent>>
       ELSE captured' = NoCapture /\ sent' = NothingSent
    /\ shell' = [OffShell EXCEPT !.state = IF shell.state = "gone" THEN "gone" ELSE "off"]
    /\ typed' = <<>> /\ stream' = <<>>
    /\ pc' = "waitConn"
    /\ rd' = NoRead
    /\ UNCHANGED <<settings, attempt, step, login, tunnel, err, faults>>


\* The SSH peer closes; a Telnet peer is waited for 1.5 seconds only.
ConnClosed ==
    /\ pc = "waitConn"
    /\ proto = "telnet" \/ "hang" \notin faults
    /\ conn' = "closed" /\ pc' = "closeTunnel"
    /\ UNCHANGED <<settings, attempt, step, login, tunnel, captured, err, deviceVars, rd>>

\* The jumphost after the device.
CloseTunnel ==
    /\ pc = "closeTunnel"
    /\ IF tunnel = "open" THEN tunnel' = "closing" /\ pc' = "waitTunnel"
       ELSE pc' = "end" /\ UNCHANGED tunnel
    /\ UNCHANGED <<settings, attempt, step, login, conn, captured, err, deviceVars, rd>>

TunnelClosed ==
    /\ pc = "waitTunnel" /\ "hang" \notin faults
    /\ tunnel' = "closed" /\ pc' = "end"
    /\ UNCHANGED <<settings, attempt, step, login, conn, captured, err, deviceVars, rd>>

\* Mutation of EndAttempt: one attempt too many.
EndAttemptOneMore ==
    /\ pc = "end"
    /\ pc' = IF err \in {"none", "cancelled"} \/ attempt > Retries + 1
             THEN "done" ELSE "sleep"
    /\ Quiet /\ UNCHANGED <<step, login, captured, err, deviceVars, rd>>

\* A quarter of a second before the next attempt, if there is one.
EndAttempt ==
    /\ pc = "end"
    /\ pc' = IF err \in {"none", "cancelled"} \/ attempt = Retries + 1
             THEN "done" ELSE "sleep"
    /\ Quiet /\ UNCHANGED <<step, login, captured, err, deviceVars, rd>>

\* Mutation of NextAttempt: the commands go on where the last attempt failed.
NextAttemptGoesOn ==
    /\ pc = "sleep"
    /\ attempt' = attempt + 1 /\ err' = "none"
    /\ given' = {} /\ retried' = FALSE
    /\ shell' = OffShell
    /\ pc' = IF viaJump THEN "tunnel" ELSE "connect"
    /\ UNCHANGED <<settings, step, conns, captured, faults, typed, stream, sent, rd>>

NextAttempt ==
    /\ pc = "sleep"
    /\ attempt' = attempt + 1 /\ step' = 1 /\ err' = "none"
    /\ given' = {} /\ retried' = FALSE
    /\ shell' = OffShell
    /\ pc' = IF viaJump THEN "tunnel" ELSE "connect"
    /\ UNCHANGED <<settings, conns, captured, faults, typed, stream, sent, rd>>

CleaningUp == CloseConn \/ ConnClosed \/ CloseTunnel \/ TunnelClosed
              \/ EndAttempt \/ NextAttempt

\* The worker is cancelled at an await.  The finally clauses run; the exception
\* is no Exception, so one that arrives while the device's connection closes
\* skips the closing of the jumphost's.
Cancel ==
    /\ "cancel" \in faults /\ err # "cancelled"
    /\ pc \notin {"closeTunnel", "end", "done"}
    /\ IF pc \in {"sleep", "waitConn", "waitTunnel"}
       THEN err' = "cancelled" /\ pc' = "done" /\ UNCHANGED rd
       ELSE Fail("cancelled")
    /\ Quiet /\ UNCHANGED <<step, login, captured, deviceVars>>

-----------------------------------------------------------------------------
Untouched == UNCHANGED <<settings, pc, attempt, step, login, conns, captured, err>>
Streaming == (Device \/ Reader) /\ Untouched
Progress == Streaming \/ OpenTunnel \/ OpenConn \/ Login \/ Commands \/ CleaningUp
Fault == \/ (DeviceCuts \/ ReadLost) /\ Untouched
         \/ ConnectFails \/ LoginLost \/ Cancel

Next == Progress \/ Fault

Spec == Init /\ [][Next]_vars
\* The event loop runs every callback that is ready and every timer that is due,
\* and a device either answers or is silent until the timer fires.
FairSpec == Spec /\ WF_vars(Progress)

-----------------------------------------------------------------------------
(***************************************************************************)
(* Properties.                                                             *)
(***************************************************************************)
\* What the device printed in answer to a command, without its prompt.
Answer(i) == Trimmed(sent[i], {"prompt"})

\* What is captured of a command is what the device printed in answer to it and
\* nothing of another command, however the output is cut into chunks and whatever
\* looks like a prompt inside it.  It is complete unless the answer itself ends in
\* lines that look like a prompt: exactly these are lost.  Exempted are a device that
\* pauses and scripts that do not await a prompt.
CapturedIsOwnAnswer ==
    /\ faults \cap {"pause", "stall"} = {}
    /\ \A i \in Steps : script[i].wait
    => \A i \in Steps : captured[i] # <<>> =>
           captured[i] = IF LastKind(Answer(i)) = "mark"
                         THEN Trimmed(Answer(i), PromptLike) ELSE Answer(i)

\* However the fetch ends, with whatever exception, the connections it opened
\* are closed; but for a cancellation that arrives while one closes.
NothingLeaks ==
    pc = "done" => conn # "open" /\ (tunnel = "open" => conn = "closing")

\* A configuration is delivered only when the device has printed its prompt
\* after each captured command: _read_until_patterns says "Read stream until one
\* of the patterns appears or timeout is reached".
Whole(i) == sent[i] # <<>> /\ sent[i][Len(sent[i])].kind = "prompt"
ResultIsWhole ==
    pc = "done" /\ err = "none" => \A i \in Steps : captured[i] # <<>> => Whole(i)

\* No command is typed at a Telnet device that is still in its login dialogue: the
\* first prompt is awaited "to ensure the shell is ready before sending commands".
ShellIsReady ==
    shell.state \in {"greeting", "user", "password"} =>
        \A i \in 1 .. Len(typed) : typed[i].kind # "command"

\* The login ends at the first line that looks like a prompt, without a confirmation;
\* what keeps the commands back is the first prompt, which is confirmed.  It does so
\* if one line of the banner looks like a prompt, or if the device does not pause; of
\* several such lines with pauses, a later one is confirmed as the first prompt.
CommandsOnlyInShell ==
    \/ "banners" \notin faults
    \/ faults \cap {"pause", "stall"} = {}
    => ShellIsReady

\* The fetch ends, unless an SSH peer does not close its connection.
Stuck == proto = "ssh" /\ pc \in {"waitConn", "waitTunnel"} /\ "hang" \in faults
FetchEnds == <>(pc = "done" \/ Stuck)

\* The result is only what a single whole session delivered (ConfigFetch).
Required == Cardinality({i \in Steps : script[i].phase # "post"})
Fetch == INSTANCE ConfigFetch WITH
    MaxTries <- Retries + 1,
    required <- Required,
    tries <- attempt,
    session <- IF conn = "closed" \/ (pc = "done" /\ err = "cancelled")
               THEN "closed" ELSE "open",
    ran <- IF step - 1 < Required THEN step - 1 ELSE Required,
    result <- IF pc # "done" THEN "none"
              ELSE IF err = "none" THEN "config"
              ELSE IF err = "cancelled" THEN "cancelled" ELSE "failed"
ImplementsConfigFetch == Fetch!Spec
=============================================================================
