------------------------ MODULE DeviceSession_proofs ------------------------
(***************************************************************************)
(* Proofs about DeviceSession for any number of retries, any script and    *)
(* any combination of faults: nothing leaks, and a fetch is a ConfigFetch. *)
(***************************************************************************)
EXTENDS DeviceSession, Positions, FiniteSetTheorems, TLAPS

\* Where the connection to the device is open, where none exists yet, and where
\* the finally clauses run or have run.
Connected == {"login", "shell", "prompt", "step", "command", "closeShell"}
Connecting == {"tunnel", "connect"}
Closing == {"closeShell", "waitConn", "closeTunnel", "waitTunnel", "end", "sleep",
            "done"}

Types ==
    /\ script \in Seq(Step)
    /\ pc \in Connecting \cup Connected \cup Closing
    /\ attempt \in 1 .. Retries + 1
    /\ step \in 1 .. Len(script) + 1
    /\ err \in {"none", "timeout", "error", "cancelled"}
    /\ conn \in {"closed", "open", "closing"} /\ tunnel \in {"closed", "open", "closing"}

\* The connection is as the point of the coroutine says; only a cancellation ends
\* the fetch while it closes.
ConnInv ==
    /\ conn = "open" <=> pc \in Connected
    /\ conn = "closing" => pc = "waitConn" \/ (pc = "done" /\ err = "cancelled")
    /\ pc = "waitConn" => conn = "closing"

\* So is the tunnel.
TunnelInv ==
    tunnel = "open" => /\ pc \notin {"tunnel", "waitTunnel", "end", "sleep"}
                       /\ pc = "done" => conn = "closing"

\* A fetch starts at the first command, leaves the shell without an error only
\* when the script has ended, and is tried again only after an error.
ScriptInv ==
    /\ pc \in Connecting \cup {"login", "shell", "prompt"} => step = 1
    /\ pc \in Connecting \cup (Connected \ {"closeShell"}) => err = "none"
    /\ pc = "command" => step <= Len(script)
    /\ pc \in Closing /\ err = "none" => step = Len(script) + 1
    /\ pc = "sleep" => err \in {"timeout", "error"} /\ attempt < Retries + 1
    /\ pc = "done" => err \in {"none", "cancelled"} \/ attempt = Retries + 1

IInv == Types /\ ConnInv /\ TunnelInv /\ ScriptInv

-----------------------------------------------------------------------------
\* The invariant holds initially.
LEMMA InitInv == Init => IInv
<1> SUFFICES ASSUME Init PROVE IInv
  OBVIOUS
<1>1. PICK c \in Cases : /\ faults = c.faults /\ proto = c.proto
                         /\ viaJump = c.viaJump /\ script = c.script
  BY DEF Init
<1>2. script \in Seq(Step) /\ Len(script) \in Nat
  BY <1>1, CasesAssumption
<1>3. 1 \in 1 .. Retries + 1
  BY RetriesAssumption
<1> QED BY <1>2, <1>3 DEF Init, IInv, Types, ConnInv, TunnelInv, ScriptInv,
               Connected, Connecting, Closing
\* What an exception, or the end of the script, leads to.
LEMMA CleanUpPoint ==
    IInv => /\ CleanUp \in {"closeShell", "closeTunnel"}
            /\ CleanUp = "closeShell" <=> conn = "open"
BY DEF CleanUp

\* Every step keeps the invariant.
LEMMA NextInv == IInv /\ [Next]_vars => IInv'
<1> SUFFICES ASSUME IInv, [Next]_vars PROVE IInv'
  OBVIOUS
<1> USE DEF Connected, Connecting, Closing
<1>0. Len(script) \in Nat /\ Retries \in Nat
  BY RetriesAssumption DEF IInv, Types
<1>1. CASE UNCHANGED vars
  BY <1>1 DEF vars, settings, conns, IInv, Types, ConnInv, TunnelInv, ScriptInv
<1>2. CASE Untouched
  BY <1>2 DEF Untouched, settings, conns, IInv, Types, ConnInv, TunnelInv, ScriptInv
<1>3. CASE OpenTunnel \/ OpenConn
  BY <1>3, <1>0 DEF OpenTunnel, OpenConn, settings, conns, IInv, Types, ConnInv,
                    TunnelInv, ScriptInv
<1>4. CASE ConnectFails
  BY <1>4, <1>0, CleanUpPoint DEF ConnectFails, Fail, Quiet, settings, conns,
                    IInv, Types, ConnInv, TunnelInv, ScriptInv
<1>5. CASE Login \/ LoginLost
  <2>1. CASE LoginPrompt \/ LoginEof
    BY <2>1, <1>0 DEF LoginPrompt, LoginEof, LoginWaits, Asked, LoggedIn, Quiet,
                      settings, conns, IInv, Types, ConnInv, TunnelInv, ScriptInv
  <2>2. CASE LoginUser \/ LoginPassword \/ LoginReads
    BY <2>2, <1>0 DEF LoginUser, LoginPassword, GiveCredential, LoginReads, Quiet,
                      settings, conns, IInv, Types, ConnInv, TunnelInv, ScriptInv
  <2>3. CASE LoginTimeout \/ LoginLost
    BY <2>3, <1>0, CleanUpPoint DEF LoginTimeout, LoginLost, LoginWaits, Fail, Quiet,
                      settings, conns, IInv, Types, ConnInv, TunnelInv, ScriptInv
  <2> QED BY <1>5, <2>1, <2>2, <2>3 DEF Login
<1>6. CASE Commands
  <2>1. CASE StartShell \/ FirstPrompt \/ SecondNewline
    BY <2>1, <1>0 DEF StartShell, FirstPrompt, SecondNewline, Quiet,
                      settings, conns, IInv, Types, ConnInv, TunnelInv, ScriptInv
  <2>2. CASE NoFirstPrompt \/ InvalidStep
    BY <2>2, <1>0, CleanUpPoint DEF NoFirstPrompt, InvalidStep, AtStep, Fail, Quiet,
                      settings, conns, IInv, Types, ConnInv, TunnelInv, ScriptInv
  <2>3. CASE ThenStep \/ TypeCommand
    <3>1. /\ pc = "step" /\ step <= Len(script)
          /\ AwaitOrGoOn
      BY <2>3 DEF ThenStep, TypeCommand, PlainStep, AtStep
    <3>2. /\ pc' \in {"step", "command"} /\ step' \in {step, step + 1} /\ err' = err
          /\ pc' = "command" => step' = step
          /\ UNCHANGED <<proto, viaJump, script, attempt, conn, tunnel>>
      BY <3>1 DEF AwaitOrGoOn, NextStep, Quiet, settings, conns
    <3> QED BY <3>1, <3>2, <1>0 DEF IInv, Types, ConnInv, TunnelInv, ScriptInv
  <2>4. CASE ThenStepBad \/ CommandFails
    BY <2>4, <1>0, CleanUpPoint DEF ThenStepBad, CommandFails, AtStep, StepFails,
                      NextStep, Fail, Quiet, settings, conns, IInv, Types, ConnInv,
                      TunnelInv, ScriptInv
  <2>5. CASE Drain
    BY <2>5, <1>0 DEF Drain, Quiet, settings, conns, IInv, Types, ConnInv, TunnelInv,
                      ScriptInv
  <2>6. CASE CommandEnds
    BY <2>6, <1>0 DEF CommandEnds, NextStep, Quiet, settings, conns, IInv, Types,
                      ConnInv, TunnelInv, ScriptInv
  <2>7. CASE ScriptEnds
    BY <2>7, <1>0, CleanUpPoint DEF ScriptEnds, Quiet, settings, conns, IInv, Types,
                      ConnInv, TunnelInv, ScriptInv
  <2> QED BY <1>6, <2>1, <2>2, <2>3, <2>4, <2>5, <2>6, <2>7 DEF Commands
<1>7. CASE CloseConn \/ ConnClosed \/ CloseTunnel \/ TunnelClosed
  BY <1>7, <1>0 DEF CloseConn, ConnClosed, CloseTunnel, TunnelClosed, settings, conns,
                    IInv, Types, ConnInv, TunnelInv, ScriptInv
<1>8. CASE EndAttempt
  BY <1>8, <1>0 DEF EndAttempt, Quiet, settings, conns, IInv, Types, ConnInv,
                    TunnelInv, ScriptInv
<1>9. CASE NextAttempt
  BY <1>9, <1>0 DEF NextAttempt, settings, conns, IInv, Types, ConnInv, TunnelInv,
                    ScriptInv
<1>10. CASE Cancel
  BY <1>10, <1>0, CleanUpPoint DEF Cancel, Fail, Quiet, settings, conns, IInv, Types,
                    ConnInv, TunnelInv, ScriptInv
<1> QED BY <1>1, <1>2, <1>3, <1>4, <1>5, <1>6, <1>7, <1>8, <1>9, <1>10
        DEF Next, Progress, Fault, Streaming, CleaningUp

\* The invariant holds in every reachable state: attempts are bounded, and where
\* the coroutine is says which connections exist and what has been run.
THEOREM Inductive == Spec => []IInv
<1>1. Init => IInv
  BY InitInv
<1>2. IInv /\ [Next]_vars => IInv'
  BY NextInv
<1> QED BY <1>1, <1>2, PTL DEF Spec

\* A fetch that has ended left no connection open, whatever failed in it.
THEOREM NoLeak == Spec => []NothingLeaks
<1>1. IInv => NothingLeaks
  BY DEF IInv, ConnInv, TunnelInv, NothingLeaks, Connected
<1> QED BY <1>1, Inductive, PTL

-----------------------------------------------------------------------------
(***************************************************************************)
(* The refinement.                                                         *)
(***************************************************************************)
\* The abstract session, the abstract number of commands, and the abstract result.
Session == IF conn = "closed" \/ (pc = "done" /\ err = "cancelled")
           THEN "closed" ELSE "open"
Ran == IF step - 1 < Required THEN step - 1 ELSE Required
Result == IF pc # "done" THEN "none"
          ELSE IF err = "none" THEN "config"
          ELSE IF err = "cancelled" THEN "cancelled" ELSE "failed"

\* There are no more required commands than commands.
LEMMA RequiredBound == IInv => Required \in Nat /\ Required <= Len(script)
<1> SUFFICES ASSUME IInv PROVE Required \in Nat /\ Required <= Len(script)
  OBVIOUS
<1> DEFINE R == {i \in Steps : script[i].phase # "post"}
<1>1. Len(script) \in Nat
  BY DEF IInv, Types
<1>2. IsFiniteSet(Steps) /\ Cardinality(Steps) = Len(script)
  <2>1. /\ IsFiniteSet(1 .. Len(script))
        /\ Cardinality(1 .. Len(script)) =
               IF 1 > Len(script) THEN 0 ELSE Len(script) - 1 + 1
    BY <1>1, FS_Interval, 1 \in Int, Len(script) \in Int
  <2>2. (IF 1 > Len(script) THEN 0 ELSE Len(script) - 1 + 1) = Len(script)
    BY <1>1
  <2> QED BY <2>1, <2>2 DEF Steps
<1>3. R \subseteq Steps
  OBVIOUS
<1>4. IsFiniteSet(R) /\ Cardinality(R) <= Cardinality(Steps)
  BY <1>2, <1>3, FS_Subset
<1>5. Cardinality(R) \in Nat
  BY <1>4, FS_CardinalityType
<1> QED BY <1>2, <1>4, <1>5 DEF Required

\* The script of a fetch does not change.
LEMMA SameScript == [Next]_vars => script' = script /\ Required' = Required
<1> SUFFICES ASSUME [Next]_vars PROVE script' = script /\ Required' = Required
  OBVIOUS
<1>1. script' = script
  <2>1. CASE Login \/ LoginLost \/ ConnectFails
    BY <2>1 DEF Login, LoginPrompt, LoginUser, LoginPassword, LoginReads, LoginEof,
                LoginTimeout, LoginLost, LoggedIn, GiveCredential, ConnectFails, Quiet,
                settings
  <2>2. CASE Commands
    BY <2>2 DEF Commands, StartShell, FirstPrompt, SecondNewline, NoFirstPrompt,
                InvalidStep, ThenStep, ThenStepBad, StepFails, AwaitOrGoOn, Drain,
                TypeCommand, CommandEnds, CommandFails, ScriptEnds, Quiet, settings
  <2>3. CASE CleaningUp \/ OpenTunnel \/ OpenConn \/ Cancel
    BY <2>3 DEF CleaningUp, CloseConn, ConnClosed, CloseTunnel, TunnelClosed,
                EndAttempt, NextAttempt, OpenTunnel, OpenConn, Cancel, Quiet, settings
  <2>4. CASE Untouched \/ UNCHANGED vars
    BY <2>4 DEF Untouched, vars, settings
  <2> QED BY <2>1, <2>2, <2>3, <2>4 DEF Next, Progress, Fault, Streaming
<1> QED BY <1>1 DEF Required, Steps

\* What the abstract variables do not see.
LEMMA Unseen ==
    ASSUME script' = script, Required' = Required, attempt' = attempt,
           Session' = Session, Ran' = Ran, Result' = Result
    PROVE  UNCHANGED Fetch!vars
BY DEF Fetch!vars, Session, Ran, Result

\* They do not see a step inside a session that ends neither a command nor the fetch.
LEMMA UnseenStep ==
    ASSUME script' = script, Required' = Required, attempt' = attempt, step' = step,
           pc # "done", pc' # "done", conn' = "closed" <=> conn = "closed"
    PROVE  UNCHANGED Fetch!vars
<1>1. Session' = Session /\ Ran' = Ran /\ Result' = Result
  BY DEF Session, Ran, Result
<1> QED BY <1>1, Unseen

\* The next command is a required one that has run, or one that is not required.
LEMMA NextCommand ==
    ASSUME IInv, script' = script, Required' = Required, attempt' = attempt,
           step' = step + 1, conn = "open", conn' = conn,
           pc # "done", pc' # "done"
    PROVE  [Fetch!Next]_Fetch!vars
<1>1. Required \in Nat /\ step \in Nat \ {0}
  BY RequiredBound DEF IInv, Types
<1>2. Session = "open" /\ Session' = "open" /\ Result = "none" /\ Result' = "none"
  BY DEF Session, Result
<1>3. CASE step - 1 < Required
  <2>1. Ran < Required /\ Ran' = Ran + 1
    BY <1>1, <1>3 DEF Ran
  <2>2. Fetch!Command
    BY <1>2, <2>1 DEF Fetch!Command, Session, Ran, Result
  <2> QED BY <2>2 DEF Fetch!Next
<1>4. CASE ~(step - 1 < Required)
  <2>1. Ran' = Ran
    BY <1>1, <1>4 DEF Ran
  <2> QED BY <1>2, <2>1, Unseen
<1> QED BY <1>3, <1>4

\* An exception in the middle of an attempt is seen when the session closes.
LEMMA FailUnseen ==
    ASSUME IInv, NEW e, Fail(e), script' = script, Required' = Required,
           attempt' = attempt, step' = step, conn' = conn, pc # "done"
    PROVE  UNCHANGED Fetch!vars
BY CleanUpPoint, UnseenStep DEF Fail

\* Initial states map to initial states.
LEMMA FetchInit == Init => Fetch!Init
<1> SUFFICES ASSUME Init PROVE Fetch!Init
  OBVIOUS
<1>1. Required \in Nat
  BY InitInv, RequiredBound
<1> QED BY <1>1 DEF Init, Fetch!Init

\* Every step maps to a step or a stutter.
LEMMA FetchStep == IInv /\ IInv' /\ [Next]_vars => [Fetch!Next]_Fetch!vars
<1> SUFFICES ASSUME IInv, IInv', [Next]_vars PROVE [Fetch!Next]_Fetch!vars
  OBVIOUS
<1> USE DEF Connected, Connecting, Closing
<1>0. script' = script /\ Required' = Required
  BY SameScript
<1>1. Required \in Nat /\ Required <= Len(script) /\ Len(script) \in Nat /\ Retries \in Nat
  BY RequiredBound, RetriesAssumption DEF IInv, Types
<1>2. CASE Untouched \/ UNCHANGED vars
  <2>1. Session' = Session /\ Ran' = Ran /\ Result' = Result /\ attempt' = attempt
    BY <1>0, <1>2 DEF Untouched, vars, conns, Session, Ran, Result
  <2> QED BY <2>1, <1>0, Unseen
<1>3. CASE OpenTunnel
  BY <1>3, <1>0, UnseenStep DEF OpenTunnel
<1>4. CASE OpenConn
  <2>1. /\ pc = "connect" /\ pc' \in {"shell", "login"} /\ conn' = "open"
        /\ step' = step /\ attempt' = attempt
    BY <1>4 DEF OpenConn
  <2>2. conn = "closed" /\ step = 1
    BY <2>1 DEF IInv, Types, ConnInv, ScriptInv
  <2>3. Ran' = 0
    BY <2>1, <2>2, <1>0, <1>1 DEF Ran
  <2>4. Session = "closed" /\ Session' = "open" /\ Result = "none" /\ Result' = "none"
    BY <2>1, <2>2 DEF Session, Result
  <2>5. Fetch!Open
    BY <1>0, <2>1, <2>3, <2>4 DEF Fetch!Open, Session, Ran, Result
  <2> QED BY <2>5 DEF Fetch!Next
<1>5. CASE ConnectFails
  BY <1>5, <1>0, FailUnseen DEF ConnectFails, Quiet, conns
<1>6. CASE LoginPrompt \/ LoginEof \/ LoginUser \/ LoginPassword \/ LoginReads
  BY <1>6, <1>0, UnseenStep DEF LoginPrompt, LoginEof, LoginWaits, LoginUser, AskedUser,
     LoginPassword, AskedPassword, LoginReads, Asked, LoggedIn, GiveCredential, Quiet, conns
<1>7. CASE LoginTimeout \/ LoginLost
  BY <1>7, <1>0, FailUnseen DEF LoginTimeout, LoginLost, LoginWaits, Quiet, conns
<1>8. CASE StartShell \/ FirstPrompt \/ SecondNewline \/ Drain
  BY <1>8, <1>0, UnseenStep DEF StartShell, FirstPrompt, SecondNewline, Drain,
     PlainStep, AtStep, Quiet, conns
<1>9. CASE NoFirstPrompt \/ InvalidStep
  BY <1>9, <1>0, FailUnseen DEF NoFirstPrompt, InvalidStep, AtStep, Quiet, conns
<1>10. CASE ThenStep \/ TypeCommand
  <2>1. pc = "step" /\ AwaitOrGoOn
    BY <1>10 DEF ThenStep, TypeCommand, PlainStep, AtStep
  <2>2. /\ pc' \in {"step", "command"} /\ step' \in {step, step + 1}
        /\ attempt' = attempt /\ conn' = conn
    BY <2>1 DEF AwaitOrGoOn, NextStep, Quiet, conns
  <2>3. conn = "open"
    BY <2>1 DEF IInv, ConnInv
  <2> QED BY <2>1, <2>2, <2>3, <1>0, NextCommand, UnseenStep
<1>11. CASE ThenStepBad \/ CommandFails
  <2>1. pc \in {"step", "command"} /\ StepFails
    BY <1>11 DEF ThenStepBad, CommandFails, AtStep
  <2>2. /\ attempt' = attempt /\ conn' = conn
        /\ (pc' = "step" /\ step' = step + 1) \/ (Fail("error") /\ step' = step)
    BY <2>1 DEF StepFails, NextStep, Quiet, conns
  <2>3. conn = "open"
    BY <2>1 DEF IInv, ConnInv
  <2> QED BY <2>1, <2>2, <2>3, <1>0, NextCommand, FailUnseen
<1>12. CASE CommandEnds
  <2>1. /\ pc = "command" /\ pc' = "step" /\ step' = step + 1
        /\ attempt' = attempt /\ conn' = conn
    BY <1>12 DEF CommandEnds, NextStep, Quiet, conns
  <2>2. conn = "open"
    BY <2>1 DEF IInv, ConnInv
  <2> QED BY <2>1, <2>2, <1>0, NextCommand
<1>13. CASE ScriptEnds
  BY <1>13, <1>0, CleanUpPoint, UnseenStep DEF ScriptEnds, Quiet, conns
<1>14. CASE CloseConn \/ CloseTunnel \/ TunnelClosed
  <2>1. /\ pc \in {"closeShell", "closeTunnel", "waitTunnel"} /\ pc' # "done"
        /\ attempt' = attempt /\ step' = step
        /\ conn' = conn \/ (pc = "closeShell" /\ conn' = "closing")
    BY <1>14 DEF CloseConn, CloseTunnel, TunnelClosed
  <2>2. conn' = "closed" <=> conn = "closed"
    BY <2>1 DEF IInv, ConnInv
  <2> QED BY <2>1, <2>2, <1>0, UnseenStep
<1>15. CASE ConnClosed
  <2>1. /\ pc = "waitConn" /\ pc' = "closeTunnel" /\ conn' = "closed"
        /\ attempt' = attempt /\ step' = step
    BY <1>15 DEF ConnClosed
  <2>2. conn = "closing"
    BY <2>1 DEF IInv, ConnInv
  <2>3. Session = "open" /\ Session' = "closed" /\ Ran' = Ran /\ Result' = Result
    BY <2>1, <2>2, <1>0 DEF Session, Ran, Result
  <2>4. Fetch!Close
    BY <2>1, <2>3, <1>0 DEF Fetch!Close, Session, Ran, Result
  <2> QED BY <2>4 DEF Fetch!Next
<1>16. CASE EndAttempt
  <2>1. /\ pc = "end" /\ attempt' = attempt /\ step' = step /\ conn' = conn /\ err' = err
        /\ pc' = IF err \in {"none", "cancelled"} \/ attempt = Retries + 1
                 THEN "done" ELSE "sleep"
    BY <1>16 DEF EndAttempt, Quiet, conns
  <2>2. conn = "closed"
    BY <2>1 DEF IInv, Types, ConnInv
  <2>3. CASE pc' = "sleep"
    BY <2>1, <2>3, <1>0, UnseenStep
  <2>4. CASE pc' = "done"
    <3>1. Session = "closed" /\ Session' = "closed" /\ Ran' = Ran /\ Result = "none"
      BY <2>1, <2>2, <2>4, <1>0 DEF Session, Ran, Result
    <3>2. CASE err = "none"
      <4>1. step = Len(script) + 1
        BY <2>1, <3>2 DEF IInv, ScriptInv
      <4>2. Ran = Required
        BY <4>1, <1>1 DEF Ran
      <4>3. Result' = "config"
        BY <2>1, <2>4, <3>2 DEF Result
      <4>4. Fetch!Deliver
        BY <2>1, <3>1, <4>2, <4>3, <1>0 DEF Fetch!Deliver, Session, Ran, Result
      <4> QED BY <4>4 DEF Fetch!Next
    <3>3. CASE err = "cancelled"
      <4>1. Result' = "cancelled"
        BY <2>1, <2>4, <3>3 DEF Result
      <4>2. Fetch!Cancelled
        BY <2>1, <3>1, <4>1, <1>0 DEF Fetch!Cancelled, Session, Ran, Result
      <4> QED BY <4>2 DEF Fetch!Next
    <3>4. CASE err \notin {"none", "cancelled"}
      <4>1. Result' = "failed" /\ attempt = Retries + 1
        BY <2>1, <2>4, <3>4 DEF Result
      <4>2. Fetch!Deliver
        BY <2>1, <3>1, <4>1, <1>0 DEF Fetch!Deliver, Session, Ran, Result
      <4> QED BY <4>2 DEF Fetch!Next
    <3> QED BY <3>2, <3>3, <3>4
  <2> QED BY <2>1, <2>3, <2>4
<1>17. CASE NextAttempt
  <2>1. /\ pc = "sleep" /\ pc' \in {"tunnel", "connect"} /\ attempt' = attempt + 1
        /\ step' = 1 /\ conn' = conn
    BY <1>17 DEF NextAttempt, conns
  <2>2. conn = "closed" /\ attempt < Retries + 1
    BY <2>1 DEF IInv, Types, ConnInv, ScriptInv
  <2>3. /\ Session = "closed" /\ Session' = "closed"
        /\ Result = "none" /\ Result' = "none"
    BY <2>1, <2>2 DEF Session, Result
  <2>4. Ran' = 0
    BY <2>1, <1>0, <1>1 DEF Ran
  <2>5. Fetch!Retry
    BY <2>1, <2>2, <2>3, <2>4, <1>0 DEF Fetch!Retry, Session, Ran, Result
  <2> QED BY <2>5 DEF Fetch!Next
<1>18. CASE Cancel
  <2>1. attempt' = attempt /\ step' = step /\ conn' = conn /\ pc # "done"
    BY <1>18 DEF Cancel, Quiet, conns
  <2>2. CASE Fail("cancelled")
    BY <2>1, <2>2, <1>0, FailUnseen
  <2>3. CASE pc' = "done" /\ err' = "cancelled"
    <3>1. Session' = "closed" /\ Ran' = Ran /\ Result = "none" /\ Result' = "cancelled"
      BY <2>1, <2>3, <1>0 DEF Session, Ran, Result
    <3>2. Fetch!Cancelled
      BY <2>1, <3>1, <1>0 DEF Fetch!Cancelled, Session, Ran, Result
    <3> QED BY <3>2 DEF Fetch!Next
  <2> QED BY <1>18, <2>2, <2>3 DEF Cancel
<1> QED BY <1>2, <1>3, <1>4, <1>5, <1>6, <1>7, <1>8, <1>9, <1>10, <1>11, <1>12, <1>13,
           <1>14, <1>15, <1>16, <1>17, <1>18
        DEF Next, Progress, Fault, Streaming, Login, Commands, CleaningUp

\* What a caller gets is only what one whole session delivered, after no more than
\* Retries + 1 sessions, each closed before the next: the fetch is a ConfigFetch.
THEOREM Refinement == Spec => ImplementsConfigFetch
<1>1. Init => Fetch!Init
  BY FetchInit
<1>2. IInv /\ IInv' /\ [Next]_vars => [Fetch!Next]_Fetch!vars
  BY FetchStep
<1> QED BY <1>1, <1>2, Inductive, PTL DEF Spec, ImplementsConfigFetch, Fetch!Spec

-----------------------------------------------------------------------------
(***************************************************************************)
(* The types of what the device and the session say to each other.         *)
(***************************************************************************)
Items == [kind : LineKinds, cmd : Nat]
Output == [kind : LineKinds \ {"eof"}, cmd : Nat]
Inputs == [kind : {"command", "enter", "key", "text", "user", "password"}, cmd : Nat]
Shells == [state : ShellStates, cmd : Nat, lines : 0 .. MaxLines, paged : BOOLEAN]
Reads == [pc : {"off", "login", "reading", "confirming", "done"}, buf : Seq(Output),
          rules : BOOLEAN, got : {"none", "text", "timeout", "lost"}, drained : Nat]

DeviceTypes ==
    /\ shell \in Shells
    /\ typed \in Seq(Inputs) /\ stream \in Seq(Items)
    /\ DOMAIN sent \subseteq Nat
SessionTypes ==
    /\ [faults |-> faults, proto |-> proto, viaJump |-> viaJump, script |-> script] \in Cases
    /\ given \subseteq {"user", "password"} /\ retried \in BOOLEAN
    /\ captured \in [Steps -> Seq(Items)]
DataInv == DeviceTypes /\ SessionTypes /\ rd \in Reads

\* What is cut from the end of a sequence leaves a sequence.
LEMMA TrimmedType ==
    ASSUME NEW S, NEW s \in Seq(S), NEW K
    PROVE  Trimmed(s, K) \in Seq(S)
<1> DEFINE kept == {i \in 1 .. Len(s) : s[i].kind \notin K}
           last == CHOOSE i \in kept : \A j \in kept : j <= i
<1>1. Len(s) \in Nat /\ kept \in SUBSET (1 .. Len(s))
  OBVIOUS
<1>2. CASE kept = {}
  BY <1>2 DEF Trimmed
<1>3. CASE kept # {}
  <2>1. \E i \in kept : \A j \in kept : j <= i
    <3> HIDE DEF kept
    <3> QED BY <1>1, <1>3, FirstAndLast
  <2>2. last \in kept
    BY <2>1
  <2>3. Trimmed(s, K) = SubSeq(s, 1, last)
    BY <1>3 DEF Trimmed
  <2> HIDE DEF last
  <2>4. last \in 1 .. Len(s)
    BY <1>1, <2>2
  <2>5. SubSeq(s, 1, last) \in Seq(S)
    BY <2>4
  <2> QED BY <2>3, <2>5
<1> QED BY <1>2, <1>3

\* What is cut from its start too.
LEMMA AfterEchoType ==
    ASSUME NEW S, NEW s \in Seq(S), NEW c
    PROVE  AfterEcho(s, c) \in Seq(S)
<1> DEFINE echoes == {i \in 1 .. Len(s) : i <= EchoLines /\ s[i] = Item("echo", c)}
           first == CHOOSE i \in echoes : \A j \in echoes : i <= j
<1>1. Len(s) \in Nat /\ echoes \in SUBSET (1 .. Len(s))
  OBVIOUS
<1>2. CASE echoes = {}
  BY <1>2 DEF AfterEcho
<1>3. CASE echoes # {}
  <2>1. \E i \in echoes : \A j \in echoes : i <= j
    <3> HIDE DEF echoes
    <3> QED BY <1>1, <1>3, FirstAndLast
  <2>2. first \in echoes
    BY <2>1
  <2>3. AfterEcho(s, c) = SubSeq(s, first + 1, Len(s))
    BY <1>3 DEF AfterEcho
  <2> HIDE DEF first
  <2>4. first \in 1 .. Len(s)
    BY <1>1, <2>2
  <2>5. SubSeq(s, first + 1, Len(s)) \in Seq(S)
    BY <2>4
  <2> QED BY <2>3, <2>5
<1> QED BY <1>2, <1>3

\* So what is captured of a read is a sequence of lines.
LEMMA SanitizedType ==
    ASSUME NEW s \in Seq(Output), NEW c
    PROVE  Sanitized(s, c) \in Seq(Items)
<1>1. AfterEcho(s, c) \in Seq(Output)
  BY AfterEchoType
<1>2. Trimmed(AfterEcho(s, c), PromptLike) \in Seq(Output)
  BY <1>1, TrimmedType
<1>3. Sanitized(s, c) \in Seq(Output)
  BY <1>2, TrimmedType DEF Sanitized
<1>4. Output \subseteq Items
  BY DEF Output, Items
<1> QED BY <1>3, <1>4

\* A chunk has no end of stream in it, and leaves the rest.
LEMMA ChunkTypes ==
    ASSUME stream \in Seq(Items), NEW k \in ChunkSizes
    PROVE  Chunk(k) \in Seq(Output) /\ Rest(k) \in Seq(Items)
<1>1. k \in 1 .. Len(stream) /\ Len(stream) \in Nat
  BY DEF ChunkSizes
<1>2. Rest(k) \in Seq(Items)
  BY <1>1 DEF Rest
<1>3. Chunk(k) \in Seq(Items) /\ Len(Chunk(k)) = k
      /\ \A i \in 1 .. k : Chunk(k)[i] = stream[i]
  BY <1>1 DEF Chunk
<1>4. \A i \in 1 .. k : stream[i] \in Items /\ stream[i].kind # "eof"
  BY <1>1 DEF ChunkSizes
<1>5. \A i \in 1 .. k : Chunk(k)[i] \in Output
  BY <1>3, <1>4 DEF Items, Output
<1>6. Chunk(k) \in Seq(Output)
  BY <1>3, <1>5
<1> QED BY <1>2, <1>6

\* The items of the model are of their types.
LEMMA ItemTypes ==
    /\ \A c \in Nat : \A k \in LineKinds : Item(k, c) \in Items
    /\ \A c \in Nat : \A k \in {"command", "enter", "key", "text", "user", "password"} :
          Input(k, c) \in Inputs
    /\ NoRead \in Reads /\ \A r \in BOOLEAN : Reading(r) \in Reads
    /\ \A st \in ShellStates : [OffShell EXCEPT !.state = st] \in Shells
    /\ OffShell \in Shells
<1>1. 0 \in 0 .. MaxLines /\ <<>> \in Seq(Output)
  BY MaxLinesAssumption
<1> QED BY <1>1 DEF Item, Items, Input, Inputs, NoRead, Reading, Reads, OffShell, Shells,
           ShellStates


\* What the device does keeps the types.
LEMMA DeviceData ==
    ASSUME DataInv, Device \/ DeviceCuts, Untouched
    PROVE  DataInv'
<1>1. MaxLines \in Nat /\ shell.cmd \in Nat /\ shell.lines \in 0 .. MaxLines
  BY MaxLinesAssumption DEF DataInv, DeviceTypes, Shells
<1>2. ASSUME NEW k \in LineKinds, NEW c \in Nat
      PROVE  stream \o <<Item(k, c)>> \in Seq(Items)
  <2>1. Item(k, c) \in Items
    BY ItemTypes
  <2>2. <<Item(k, c)>> \in Seq(Items)
    BY <2>1
  <2> QED BY <2>2 DEF DataInv, DeviceTypes
<1>3. typed # <<>> => Head(typed) \in Inputs /\ Tail(typed) \in Seq(Inputs)
  BY DEF DataInv, DeviceTypes
<1>4. UNCHANGED faults /\ rd' = rd
  BY DEF Device, DeviceTakes, PagerTakes, DeviceGreets, LoginTakes, DeviceAnswers, DeviceCuts
<1>5. SessionTypes' /\ rd' \in Reads
  BY <1>4 DEF DataInv, SessionTypes, Untouched, settings, login, Steps
<1>6. ASSUME shell' = [OffShell EXCEPT !.state = "waiting"] \/ shell' = shell
      PROVE  shell' \in Shells
  BY <1>6, ItemTypes DEF DataInv, DeviceTypes, ShellStates
<1>7. CASE DeviceTakes
  <2>1. Head(typed) \in Inputs /\ typed' \in Seq(Inputs) /\ sent' = sent
    BY <1>3, <1>7 DEF DeviceTakes
  <2> DEFINE in == Head(typed)
  <2>2. CASE in.kind = "command" /\ shell.state = "waiting"
    <3>1. /\ shell' = [OffShell EXCEPT !.state = "answering", !.cmd = in.cmd]
          /\ stream' = stream \o <<Item("echo", in.cmd)>>
      BY <1>7, <2>2 DEF DeviceTakes, Say
    <3>2. in.cmd \in Nat
      BY <2>1 DEF Inputs
    <3> HIDE DEF in
    <3>3. shell' = [state |-> "answering", cmd |-> in.cmd, lines |-> 0, paged |-> FALSE]
      BY <3>1 DEF OffShell
    <3>4. stream' \in Seq(Items)
      BY <1>2, <3>1, <3>2 DEF LineKinds
    <3> QED BY <1>1, <1>5, <2>1, <3>2, <3>3, <3>4, 0 \in 0 .. MaxLines
            DEF DataInv, DeviceTypes, Shells, ShellStates
  <2>3. CASE ~(in.kind = "command" /\ shell.state = "waiting")
    <3>1. \/ UNCHANGED <<shell, stream>>
          \/ /\ shell' = [OffShell EXCEPT !.state = "waiting"]
             /\ stream' = stream \o <<Item("prompt", 0)>>
      BY <1>7, <2>3 DEF DeviceTakes, Say
    <3>2. stream' \in Seq(Items)
      BY <1>2, <3>1 DEF LineKinds, DataInv, DeviceTypes
    <3> QED BY <1>5, <1>6, <2>1, <3>1, <3>2 DEF DataInv, DeviceTypes
  <2> QED BY <2>2, <2>3
<1>8. CASE PagerTakes
  <2>1. /\ shell' = [shell EXCEPT !.state = "answering", !.paged = TRUE]
        /\ typed' \in Seq(Inputs) /\ UNCHANGED <<stream, sent>>
    BY <1>3, <1>8 DEF PagerTakes
  <2>2. shell' \in Shells
    BY <2>1 DEF DataInv, DeviceTypes, Shells, ShellStates
  <2> QED BY <1>5, <2>1, <2>2 DEF DataInv, DeviceTypes
<1>9. CASE LoginTakes
  <2>1. typed' \in Seq(Inputs) /\ sent' = sent
    BY <1>3, <1>9 DEF LoginTakes
  <2>2. \E st \in {"user", "password", "waiting"} : shell' = [shell EXCEPT !.state = st]
    BY <1>9 DEF LoginTakes
  <2>3. \E k \in {"askUser", "askPassword", "prompt"} : stream' = stream \o <<Item(k, 0)>>
    BY <1>9 DEF LoginTakes, Say
  <2>4. stream' \in Seq(Items)
    BY <1>2, <2>3 DEF LineKinds
  <2>5. shell' \in Shells
    BY <2>2 DEF DataInv, DeviceTypes, Shells, ShellStates
  <2> QED BY <1>5, <2>1, <2>4, <2>5 DEF DataInv, DeviceTypes
<1>10. CASE DeviceAnswers
  <2>1. typed' = typed /\ shell.state = "answering"
    BY <1>10 DEF DeviceAnswers
  <2>2. DOMAIN sent' \subseteq Nat
    BY <1>10 DEF DeviceAnswers, DataInv, DeviceTypes
  <2>3. \E k \in LineKinds : \E c \in Nat : stream' = stream \o <<Item(k, c)>>
    BY <1>1, <1>10 DEF DeviceAnswers, Say, LineKinds
  <2>4. stream' \in Seq(Items)
    BY <1>2, <2>3
  <2>5. shell' \in Shells
    <3>1. CASE /\ shell.lines < MaxLines
               /\ shell' = [shell EXCEPT !.lines = @ + 1, !.paged = FALSE]
      <4>1. shell.lines + 1 \in 0 .. MaxLines
        BY <1>1, <3>1
      <4> QED BY <3>1, <4>1 DEF DataInv, DeviceTypes, Shells
    <3>2. CASE \/ shell' = [shell EXCEPT !.state = "paging"]
               \/ shell' = [shell EXCEPT !.state = "asking"]
      BY <3>2 DEF DataInv, DeviceTypes, Shells, ShellStates
    <3> QED BY <1>6, <1>10, <3>1, <3>2 DEF DeviceAnswers
  <2> QED BY <1>5, <2>1, <2>2, <2>4, <2>5 DEF DataInv, DeviceTypes
<1>11. CASE DeviceCuts
  <2>1. /\ shell' = [OffShell EXCEPT !.state = "gone"] /\ typed' = <<>> /\ sent' = sent
        /\ stream' = stream \o <<Item("eof", 0)>>
    BY <1>11 DEF DeviceCuts, Say
  <2>2. stream' \in Seq(Items)
    BY <1>2, <2>1 DEF LineKinds
  <2>3. shell' \in Shells
    BY <2>1, ItemTypes DEF ShellStates
  <2>4. typed' \in Seq(Inputs)
    BY <2>1
  <2> QED BY <1>5, <2>1, <2>2, <2>3, <2>4 DEF DataInv, DeviceTypes
<1>12. CASE DeviceGreets
  <2>1. typed' = typed /\ sent' = sent
    BY <1>12 DEF DeviceGreets
  <2>2. \E k \in {"mark", "askUser"} : stream' = stream \o <<Item(k, 0)>>
    BY <1>12 DEF DeviceGreets, Say
  <2>3. stream' \in Seq(Items)
    BY <1>2, <2>2 DEF LineKinds
  <2>4. shell' \in Shells
    <3>1. CASE shell.lines < MaxLines /\ shell' = [shell EXCEPT !.lines = @ + 1]
      <4>1. shell.lines + 1 \in 0 .. MaxLines
        BY <1>1, <3>1
      <4> QED BY <3>1, <4>1 DEF DataInv, DeviceTypes, Shells
    <3>2. CASE shell' = [OffShell EXCEPT !.state = "user"]
      BY <3>2, ItemTypes DEF ShellStates
    <3> QED BY <1>12, <3>1, <3>2 DEF DeviceGreets
  <2> QED BY <1>5, <2>1, <2>3, <2>4 DEF DataInv, DeviceTypes
<1> QED BY <1>7, <1>8, <1>9, <1>10, <1>11, <1>12 DEF Device

\* What the reader does keeps them.
LEMMA ReaderData ==
    ASSUME DataInv, Reader \/ ReadLost, Untouched
    PROVE  DataInv'
<1>1. UNCHANGED <<faults, shell, sent>>
  BY DEF Reader, ReadLost, ConfirmPrompt, ConfirmMore, ConfirmEnds, AnswerPager, ReadChunk,
         ReadEof, ReadTimeout, deviceVars
<1>2. SessionTypes'
  BY <1>1 DEF DataInv, SessionTypes, Untouched, settings, login, Steps
<1>3. rd \in Reads /\ stream \in Seq(Items) /\ typed \in Seq(Inputs)
  BY DEF DataInv, DeviceTypes
<1>4. CASE ConfirmPrompt \/ ConfirmEnds \/ ReadEof \/ ReadTimeout \/ ReadLost
  <2>1. UNCHANGED deviceVars
    BY <1>4 DEF ConfirmPrompt, ConfirmEnds, ReadEof, ReadTimeout, ReadLost
  <2>2. \/ \E got \in {"text", "timeout", "lost"} : Return(got)
        \/ rd' = [rd EXCEPT !.pc = "reading"]
    BY <1>4 DEF ConfirmPrompt, ConfirmEnds, ReadEof, ReadTimeout, ReadLost
  <2>3. rd' \in Reads
    BY <1>3, <2>2 DEF Return, Reads
  <2> QED BY <1>2, <2>1, <2>3 DEF DataInv, DeviceTypes, deviceVars
<1>5. CASE ConfirmMore \/ ReadChunk
  <2>1. PICK k \in ChunkSizes : /\ stream' = Rest(k)
                                /\ \/ rd' = [rd EXCEPT !.pc = "confirming", !.buf = @ \o Chunk(k)]
                                   \/ rd' = [rd EXCEPT !.buf = @ \o Chunk(k)]
    BY <1>5 DEF ConfirmMore, ReadChunk
  <2>2. Chunk(k) \in Seq(Output) /\ stream' \in Seq(Items)
    BY <1>3, <2>1, ChunkTypes
  <2>3. rd.buf \o Chunk(k) \in Seq(Output)
    BY <1>3, <2>2 DEF Reads
  <2>4. rd' \in Reads
    BY <1>3, <2>1, <2>3 DEF Reads
  <2>5. UNCHANGED <<faults, shell, typed, sent>>
    BY <1>5 DEF ConfirmMore, ReadChunk
  <2> QED BY <1>2, <2>2, <2>4, <2>5 DEF DataInv, DeviceTypes
<1>6. CASE AnswerPager
  <2>1. /\ typed' = Append(typed, Input("key", 0)) /\ stream' = stream
        /\ rd' = IF LastKind(rd.buf) = "pager"
                 THEN [rd EXCEPT !.buf = SubSeq(@, 1, Len(@) - 1)] ELSE rd
    BY <1>6 DEF AnswerPager
  <2>2. typed' \in Seq(Inputs)
    BY <1>3, <2>1, ItemTypes
  <2>3. rd.buf \in Seq(Output) /\ Len(rd.buf) \in Nat
    BY <1>3 DEF Reads
  <2>4. LastKind(rd.buf) = "pager" => rd.buf # <<>>
    BY DEF LastKind
  <2>5. LastKind(rd.buf) = "pager" => SubSeq(rd.buf, 1, Len(rd.buf) - 1) \in Seq(Output)
    BY <2>3, <2>4
  <2>6. rd' \in Reads
    BY <1>3, <2>1, <2>5 DEF Reads
  <2> QED BY <1>1, <1>2, <2>1, <2>2, <2>6 DEF DataInv, DeviceTypes
<1> QED BY <1>4, <1>5, <1>6 DEF Reader


\* Nothing is typed at a device that is gone, or the inputs are appended.
LEMMA TypingTypes ==
    ASSUME typed \in Seq(Inputs), NEW s \in Seq(Inputs), Typing(s)
    PROVE  typed' \in Seq(Inputs)
BY DEF Typing

\* A session's steps between the device's and the reader's leave the fetch's settings.
LEMMA SettingsKept ==
    ASSUME \/ OpenTunnel \/ OpenConn \/ Login \/ Commands \/ CleaningUp
           \/ ConnectFails \/ LoginLost \/ Cancel
    PROVE  UNCHANGED <<faults, settings>>
<1>1. CASE Login \/ LoginLost \/ ConnectFails \/ OpenTunnel \/ OpenConn \/ Cancel
  BY <1>1 DEF Login, LoginPrompt, LoginUser, LoginPassword, LoginReads, LoginEof,
     LoginTimeout, LoginLost, LoggedIn, GiveCredential, ConnectFails, OpenTunnel, OpenConn,
     Cancel, Quiet, deviceVars
<1>2. CASE Commands
  BY <1>2 DEF Commands, StartShell, FirstPrompt, SecondNewline, NoFirstPrompt, InvalidStep,
     ThenStep, ThenStepBad, StepFails, AwaitOrGoOn, Drain, TypeCommand, CommandEnds,
     CommandFails, ScriptEnds, Quiet, deviceVars
<1>3. CASE CleaningUp
  BY <1>3 DEF CleaningUp, CloseConn, ConnClosed, CloseTunnel, TunnelClosed, EndAttempt,
     NextAttempt, Quiet, deviceVars
<1> QED BY <1>1, <1>2, <1>3

\* What the session does keeps the types.
LEMMA SessionData ==
    ASSUME IInv, DataInv,
           \/ OpenTunnel \/ OpenConn \/ Login \/ Commands \/ CleaningUp
           \/ ConnectFails \/ LoginLost \/ Cancel
    PROVE  DataInv'
<1>1. /\ [faults |-> faults, proto |-> proto, viaJump |-> viaJump, script |-> script]' \in Cases
      /\ Steps' = Steps
  BY SettingsKept DEF DataInv, SessionTypes, settings, Steps
<1>2. step \in Nat
  BY DEF IInv, Types
<1>3. \A k \in {"command", "enter", "key", "text", "user", "password"} :
          /\ \A c \in Nat : <<Input(k, c)>> \in Seq(Inputs)
          /\ <<Input("command", step), Input("text", step)>> \in Seq(Inputs)
  <2>1. \A k \in {"command", "enter", "key", "text", "user", "password"} :
            \A c \in Nat : Input(k, c) \in Inputs
    BY ItemTypes
  <2>2. Input("command", step) \in Inputs /\ Input("text", step) \in Inputs
    BY <1>2, <2>1
  <2> QED BY <2>1, <2>2
<1>4. CASE /\ UNCHANGED <<login, captured, shell, typed, stream, sent>>
           /\ rd' \in {rd, NoRead}
  <2>1. rd' \in Reads
    BY <1>4, ItemTypes DEF DataInv
  <2> QED BY <1>1, <1>4, <2>1 DEF DataInv, DeviceTypes, SessionTypes, login
<1>5. CASE OpenTunnel \/ ConnectFails \/ LoginLost \/ Cancel
  BY <1>4, <1>5 DEF OpenTunnel, ConnectFails, LoginLost, Cancel, Fail, deviceVars
<1>6. CASE CleaningUp
  <2>1. CASE ConnClosed \/ CloseTunnel \/ TunnelClosed \/ EndAttempt
    BY <1>4, <2>1 DEF ConnClosed, CloseTunnel, TunnelClosed, EndAttempt, deviceVars
  <2>2. CASE NextAttempt
    <3>1. UNCHANGED <<captured, typed, stream, sent, rd>> /\ shell' = OffShell
          /\ given' = {} /\ retried' = FALSE
      BY <2>2 DEF NextAttempt
    <3> QED BY <1>1, <3>1, ItemTypes DEF DataInv, DeviceTypes, SessionTypes
  <2>3. CASE CloseConn
    <3>1. /\ shell' \in Shells /\ typed' \in Seq(Inputs) /\ stream' \in Seq(Items)
          /\ rd' \in Reads
      BY <2>3, ItemTypes DEF CloseConn, ShellStates
    <3>2. NoCapture \in [Steps -> Seq(Items)] /\ DOMAIN NothingSent \subseteq Nat
      BY DEF NoCapture, NothingSent, Steps
    <3>3. captured' \in [Steps -> Seq(Items)] /\ DOMAIN sent' \subseteq Nat
      BY <2>3, <3>2 DEF CloseConn, DataInv, DeviceTypes, SessionTypes
    <3> QED BY <1>1, <2>3, <3>1, <3>3 DEF CloseConn, login, DataInv, DeviceTypes, SessionTypes
  <2> QED BY <1>6, <2>1, <2>2, <2>3 DEF CleaningUp
<1>7. CASE OpenConn
  <2>2. [NoRead EXCEPT !.pc = "login"] \in Reads
    BY ItemTypes DEF NoRead, Reads
  <2>3. /\ shell' \in Shells /\ typed' \in Seq(Inputs) /\ stream' \in Seq(Items)
        /\ rd' \in Reads /\ sent' = sent
    <3>1. typed' \in {typed, <<Input("enter", 0)>>} /\ stream' \in {stream, <<>>} /\ sent' = sent
          /\ rd' \in {rd, [NoRead EXCEPT !.pc = "login"]}
      BY <1>7 DEF OpenConn
    <3>2. shell' \in {shell, [OffShell EXCEPT !.state = "greeting"]}
      BY <1>7 DEF OpenConn
    <3>3. [OffShell EXCEPT !.state = "greeting"] \in Shells
      BY ItemTypes DEF ShellStates
    <3>4. <<>> \in Seq(Items)
      OBVIOUS
    <3>5. PICK x \in Inputs : x = Input("enter", 0)
      BY ItemTypes
    <3>6. <<x>> \in Seq(Inputs)
      OBVIOUS
    <3> QED BY <2>2, <3>1, <3>2, <3>3, <3>4, <3>5, <3>6 DEF DataInv, DeviceTypes
  <2> QED BY <1>1, <1>7, <2>3 DEF OpenConn, login, DataInv, DeviceTypes, SessionTypes
<1>8. CASE Login
  <2>1. CASE LoginPrompt \/ LoginEof \/ LoginTimeout
    BY <1>4, <2>1 DEF LoginPrompt, LoginEof, LoginTimeout, LoggedIn, Fail, deviceVars
  <2>2. CASE LoginUser \/ LoginPassword
    <3>1. PICK k \in {"user", "password"} : GiveCredential(k)
      BY <2>2 DEF LoginUser, LoginPassword
    <3>2. typed' = Append(typed, Input(k, 0)) /\ Input(k, 0) \in Inputs
      BY <3>1, ItemTypes DEF GiveCredential
    <3>3. typed' \in Seq(Inputs)
      BY <3>2 DEF DataInv, DeviceTypes
    <3>4. rd' \in Reads
      <4>1. rd' = [rd EXCEPT !.buf = <<>>] /\ <<>> \in Seq(Output)
        BY <3>1 DEF GiveCredential
      <4> QED BY <4>1 DEF DataInv, Reads
    <3> QED BY <1>1, <3>1, <3>3, <3>4 DEF GiveCredential, DataInv, DeviceTypes, SessionTypes
  <2>3. CASE LoginReads
    <3>1. PICK k \in ChunkSizes : /\ rd' = [rd EXCEPT !.buf = @ \o Chunk(k)]
                                  /\ stream' = Rest(k)
      BY <2>3 DEF LoginReads
    <3>2. Chunk(k) \in Seq(Output) /\ stream' \in Seq(Items)
      BY <3>1, ChunkTypes DEF DataInv, DeviceTypes
    <3>3. rd.buf \o Chunk(k) \in Seq(Output)
      BY <3>2 DEF DataInv, Reads
    <3>4. rd' \in Reads
      BY <3>1, <3>3 DEF DataInv, Reads
    <3> QED BY <1>1, <2>3, <3>2, <3>4 DEF LoginReads, login, DataInv, DeviceTypes, SessionTypes
  <2> QED BY <1>8, <2>1, <2>2, <2>3 DEF Login
<1>9. CASE Commands
  <2>1. CASE FirstPrompt \/ NoFirstPrompt \/ InvalidStep \/ CommandFails \/ ScriptEnds
    BY <1>4, <2>1 DEF FirstPrompt, NoFirstPrompt, InvalidStep, CommandFails, ScriptEnds,
                      StepFails, NextStep, Fail, deviceVars
  <2>2. CASE StartShell
    <3>1. Item("prompt", 0) \in Items
      BY ItemTypes DEF LineKinds
    <3>2. typed' \in Seq(Inputs)
      BY <1>3, <2>2, TypingTypes DEF StartShell, DataInv, DeviceTypes
    <3>3. rd' \in Reads /\ sent' = sent
      BY <2>2, ItemTypes DEF StartShell
    <3>4. stream' \in Seq(Items)
      <4>1. <<Item("prompt", 0)>> \in Seq(Items)
        BY <3>1
      <4> QED BY <2>2, <4>1 DEF StartShell, DataInv, DeviceTypes
    <3>5. shell' \in Shells
      <4>1. [OffShell EXCEPT !.state = "waiting"] \in Shells
        BY ItemTypes DEF ShellStates
      <4> QED BY <2>2, <4>1 DEF StartShell, DataInv, DeviceTypes
    <3> QED BY <1>1, <2>2, <3>2, <3>3, <3>4, <3>5 DEF StartShell, login, DataInv, DeviceTypes, SessionTypes
  <2>3. CASE SecondNewline
    <3>1. typed' \in Seq(Inputs) /\ rd' \in Reads
      BY <1>3, <2>3, TypingTypes, ItemTypes DEF SecondNewline, DataInv, DeviceTypes
    <3> QED BY <1>1, <2>3, <3>1 DEF SecondNewline, DataInv, DeviceTypes, SessionTypes
  <2>4. CASE ThenStep \/ TypeCommand
    <3>1. typed' \in Seq(Inputs)
      BY <1>2, <1>3, <2>4, TypingTypes DEF ThenStep, TypeCommand, DataInv, DeviceTypes
    <3>2. rd' \in Reads /\ UNCHANGED <<login, captured, shell, stream, sent>>
      BY <2>4, ItemTypes DEF ThenStep, TypeCommand, AwaitOrGoOn, NextStep
    <3> QED BY <1>1, <3>1, <3>2 DEF login, DataInv, DeviceTypes, SessionTypes
  <2>5. CASE ThenStepBad
    <3>1. typed' \in Seq(Inputs)
      BY <1>2, <1>3, <2>5, TypingTypes DEF ThenStepBad, DataInv, DeviceTypes
    <3>2. rd' \in Reads /\ UNCHANGED <<login, captured, shell, stream, sent>>
      BY <2>5, ItemTypes DEF ThenStepBad, StepFails, NextStep, Fail
    <3> QED BY <1>1, <3>1, <3>2 DEF login, DataInv, DeviceTypes, SessionTypes
  <2>6. CASE Drain
    <3>1. stream' \in Seq(Items)
      BY <2>6, ChunkTypes DEF Drain, DataInv, DeviceTypes
    <3>2. rd' \in Reads
      BY <2>6 DEF Drain, DataInv, Reads
    <3> QED BY <1>1, <2>6, <3>1, <3>2 DEF Drain, login, DataInv, DeviceTypes, SessionTypes
  <2>7. CASE CommandEnds
    <3>1. rd.buf \in Seq(Output)
      BY DEF DataInv, Reads
    <3>2. Sanitized(rd.buf, step) \in Seq(Items)
      <4>1. PICK s, c : s = rd.buf /\ c = step
        OBVIOUS
      <4>2. Sanitized(s, c) \in Seq(Items)
        BY <3>1, <4>1, SanitizedType
      <4> QED BY <4>1, <4>2
    <3>3. captured' \in [Steps -> Seq(Items)]
      BY <2>7, <3>2 DEF CommandEnds, Captures, DataInv, SessionTypes
    <3>4. UNCHANGED <<login, shell, typed, stream, sent>> /\ rd' \in Reads
      BY <2>7, ItemTypes DEF CommandEnds, NextStep, deviceVars
    <3> QED BY <1>1, <3>3, <3>4 DEF login, DataInv, DeviceTypes, SessionTypes
  <2> QED BY <1>9, <2>1, <2>2, <2>3, <2>4, <2>5, <2>6, <2>7 DEF Commands
<1> QED BY <1>5, <1>6, <1>7, <1>8, <1>9

\* Initially nothing is typed, printed or read.
LEMMA DataInit == Init => DataInv
<1> SUFFICES ASSUME Init PROVE DataInv
  OBVIOUS
<1>1. PICK c \in Cases : /\ faults = c.faults /\ proto = c.proto
                         /\ viaJump = c.viaJump /\ script = c.script
  BY DEF Init
<1>2. [faults |-> faults, proto |-> proto, viaJump |-> viaJump, script |-> script] \in Cases
  BY <1>1, CasesAssumption
<1>3. NoCapture \in [Steps -> Seq(Items)] /\ DOMAIN NothingSent \subseteq Nat
  BY DEF NoCapture, NothingSent, Steps
<1>4. shell \in Shells /\ rd \in Reads
  BY ItemTypes DEF Init
<1>5. typed \in Seq(Inputs) /\ stream \in Seq(Items)
  BY DEF Init
<1> QED BY <1>2, <1>3, <1>4, <1>5 DEF Init, DataInv, DeviceTypes, SessionTypes

\* Every step keeps the types.
LEMMA DataStep == IInv /\ DataInv /\ [Next]_vars => DataInv'
<1> SUFFICES ASSUME IInv, DataInv, [Next]_vars PROVE DataInv'
  OBVIOUS
<1>1. CASE (Device \/ DeviceCuts) /\ Untouched
  BY <1>1, DeviceData
<1>2. CASE (Reader \/ ReadLost) /\ Untouched
  BY <1>2, ReaderData
<1>3. CASE \/ OpenTunnel \/ OpenConn \/ Login \/ Commands \/ CleaningUp
           \/ ConnectFails \/ LoginLost \/ Cancel
  BY <1>3, SessionData
<1>4. CASE UNCHANGED vars
  BY <1>4 DEF vars, deviceVars, settings, conns, DataInv, DeviceTypes, SessionTypes, Steps
<1> QED BY <1>1, <1>2, <1>3, <1>4 DEF Next, Progress, Fault, Streaming

\* The types of the reads, of what is typed and printed and of what is captured hold
\* in every reachable state.
THEOREM DataInductive == Spec => []DataInv
<1>1. Init => DataInv
  BY DataInit
<1>2. IInv /\ DataInv /\ [Next]_vars => DataInv'
  BY DataStep
<1> QED BY <1>1, <1>2, Inductive, PTL DEF Spec

\* The types of a session, for any script and any device.
THEOREM TypeCorrect == Spec => []TypeOK
<1>1. IInv /\ DataInv => TypeOK
  <2> SUFFICES ASSUME IInv, DataInv PROVE TypeOK
    OBVIOUS
  <2>1. faults \subseteq FaultKinds
    <3>1. PICK c \in Cases : c = [faults |-> faults, proto |-> proto, viaJump |-> viaJump,
                                 script |-> script]
      BY DEF DataInv, SessionTypes
    <3>2. c.faults \subseteq FaultKinds /\ c.faults = faults
      BY <3>1, CasesAssumption
    <3> QED BY <3>2
  <2>2. ReaderTypeOK
    BY <2>1 DEF DataInv, DeviceTypes, Reads, ReaderTypeOK, Shells, Inputs, Items, Output
  <2>3. \A i \in Steps : captured[i] \in Seq([kind : LineKinds, cmd : Nat])
    BY DEF DataInv, SessionTypes, Items
  <2>4. DOMAIN captured = Steps
    BY DEF DataInv, SessionTypes
  <2> QED BY <2>2, <2>3, <2>4 DEF IInv, Types, Connecting, Connected, Closing, DataInv,
             SessionTypes, TypeOK
<1> QED BY <1>1, Inductive, DataInductive, PTL

-----------------------------------------------------------------------------
(***************************************************************************)
(* The Telnet login: what a device that has not let the session in hears.  *)
(***************************************************************************)
KindsOf(s) == {s[i].kind : i \in 1 .. Len(s)}
Asks == {"askUser", "askPassword"}
HasMark(s) == "mark" \in KindsOf(s)
HasAsk(s) == KindsOf(s) \cap Asks # {}
\* The lines that look like a prompt come first; there is one at most.
MarksFirst(s) == \A i, j \in 1 .. Len(s) : i < j /\ s[j].kind = "mark" => s[i].kind = "mark"
OneMark(s) == \A i, j \in 1 .. Len(s) : s[i].kind = "mark" /\ s[j].kind = "mark" => i = j

LoginStates == {"greeting", "user", "password"}
\* The condition of CommandsOnlyInShell.
Steady == "banners" \notin faults \/ faults \cap {"pause", "stall"} = {}

\* While the session logs in, the lines of the banner that look like a prompt come
\* before everything else, and before any credential is sent.
LoginDialogue ==
    /\ rd.pc = "login" /\ KindsOf(rd.buf) \subseteq Asks \cup {"mark"}
    /\ MarksFirst(stream) /\ (HasAsk(rd.buf) => ~HasMark(stream))
    /\ given # {} => ~HasMark(rd.buf) /\ ~HasMark(stream)
    /\ given = {} => shell.state \in {"greeting", "user"} /\ KindsOf(typed) \subseteq {"enter"}
    /\ shell.state = "greeting" => given = {} /\ ~HasAsk(rd.buf) /\ ~HasAsk(stream)

\* Of a banner with one such line, it is there once, or still to come.
OnlyLine ==
    /\ OneMark(stream) /\ (HasMark(rd.buf) => ~HasMark(stream))
    /\ shell.state = "greeting" /\ shell.lines = 0 => ~HasMark(rd.buf) /\ ~HasMark(stream)

\* A login that ended at such a line leaves a device that asks for the user name
\* again and again and never prints a prompt.  If that was the only line, no other
\* follows; if the device does not pause, a question is the last thing it has said.
LoginCutShort ==
    /\ shell.state \in {"greeting", "user"} /\ KindsOf(typed) \subseteq {"enter"}
    /\ "banners" \notin faults => /\ ~HasMark(stream) /\ ~HasMark(rd.buf)
                                  /\ shell.state = "greeting" => shell.lines # 0
    /\ shell.state = "user" /\ stream = <<>> => LastKind(rd.buf) \in Asks \cup {"none"}

LoginInv ==
    Steady /\ shell.state \in LoginStates =>
        /\ pc \in {"login", "shell", "prompt", "closeShell"}
        /\ "command" \notin KindsOf(typed)
        /\ KindsOf(stream) \subseteq Asks \cup {"mark"}
        /\ shell.state # "greeting" /\ stream # <<>> => LastKind(stream) \in Asks
        /\ pc = "login" => LoginDialogue
        /\ pc = "login" /\ "banners" \notin faults => OnlyLine
        /\ pc \in {"shell", "prompt"} => LoginCutShort
        /\ pc = "shell" => rd.pc = "off"
        /\ pc = "prompt" => /\ rd.pc \in {"reading", "confirming", "done"} /\ rd.got # "text"
                            /\ KindsOf(rd.buf) \subseteq Asks \cup {"mark"}

\* The kinds in sequences that are joined, cut and read.
LEMMA KindsJoined ==
    ASSUME NEW S, NEW s \in Seq(S), NEW t \in Seq(S)
    PROVE  KindsOf(s \o t) = KindsOf(s) \cup KindsOf(t)
<1>1. Len(s \o t) = Len(s) + Len(t) /\ Len(s) \in Nat /\ Len(t) \in Nat
  OBVIOUS
<1>2. \A i \in 1 .. Len(s) : (s \o t)[i] = s[i]
  OBVIOUS
<1>3. \A i \in 1 .. Len(t) : (s \o t)[Len(s) + i] = t[i]
  OBVIOUS
<1>4. KindsOf(s \o t) \subseteq KindsOf(s) \cup KindsOf(t)
  <2> SUFFICES ASSUME NEW i \in 1 .. Len(s \o t)
               PROVE  (s \o t)[i].kind \in KindsOf(s) \cup KindsOf(t)
    BY DEF KindsOf
  <2>1. CASE i \in 1 .. Len(s)
    BY <1>2, <2>1 DEF KindsOf
  <2>2. CASE i \notin 1 .. Len(s)
    <3>1. i - Len(s) \in 1 .. Len(t) /\ i = Len(s) + (i - Len(s))
      BY <1>1, <2>2
    <3>2. (s \o t)[i] = t[i - Len(s)]
      BY <1>3, <3>1
    <3> QED BY <3>1, <3>2 DEF KindsOf
  <2> QED BY <2>1, <2>2
<1>5. KindsOf(s) \cup KindsOf(t) \subseteq KindsOf(s \o t)
  <2>1. \A i \in 1 .. Len(s) : i \in 1 .. Len(s \o t)
    BY <1>1
  <2>2. \A i \in 1 .. Len(t) : Len(s) + i \in 1 .. Len(s \o t)
    BY <1>1
  <2> QED BY <1>2, <1>3, <2>1, <2>2 DEF KindsOf
<1> QED BY <1>4, <1>5

LEMMA KindsAppended ==
    ASSUME NEW S, NEW s \in Seq(S), NEW x \in S
    PROVE  KindsOf(s \o <<x>>) = KindsOf(s) \cup {x.kind}
<1>1. /\ Len(Append(s, x)) = Len(s) + 1 /\ Append(s, x)[Len(s) + 1] = x
      /\ \A i \in 1 .. Len(s) : Append(s, x)[i] = s[i]
  OBVIOUS
<1>2. Len(s) \in Nat /\ 1 .. Len(s) + 1 = (1 .. Len(s)) \cup {Len(s) + 1}
  OBVIOUS
<1>3. KindsOf(Append(s, x)) = KindsOf(s) \cup {x.kind}
  BY <1>1, <1>2 DEF KindsOf
<1>4. Append(s, x) = s \o <<x>>
  OBVIOUS
<1> QED BY <1>3, <1>4

LEMMA KindsCut ==
    ASSUME NEW S, NEW s \in Seq(S)
    PROVE  /\ \A k \in 1 .. Len(s) : /\ KindsOf(SubSeq(s, 1, k)) \subseteq KindsOf(s)
                                     /\ KindsOf(SubSeq(s, k + 1, Len(s))) \subseteq KindsOf(s)
           /\ s # <<>> => /\ KindsOf(Tail(s)) \subseteq KindsOf(s)
                          /\ Head(s).kind \in KindsOf(s)
           /\ LastKind(s) \in KindsOf(s) \cup {"none"}
<1>1. Len(s) \in Nat
  OBVIOUS
<1>2. ASSUME NEW k \in 1 .. Len(s)
      PROVE  /\ KindsOf(SubSeq(s, 1, k)) \subseteq KindsOf(s)
             /\ KindsOf(SubSeq(s, k + 1, Len(s))) \subseteq KindsOf(s)
  <2>1. Len(SubSeq(s, 1, k)) = k /\ \A i \in 1 .. k : SubSeq(s, 1, k)[i] = s[i]
    BY <1>1
  <2>2. /\ Len(SubSeq(s, k + 1, Len(s))) = Len(s) - k
        /\ \A i \in 1 .. Len(s) - k : SubSeq(s, k + 1, Len(s))[i] = s[i + k]
    BY <1>1
  <2>3. \A i \in 1 .. k : i \in 1 .. Len(s)
    BY <1>1
  <2>4. \A i \in 1 .. Len(s) - k : i + k \in 1 .. Len(s)
    BY <1>1
  <2> QED BY <2>1, <2>2, <2>3, <2>4 DEF KindsOf
<1>3. ASSUME s # <<>>
      PROVE  /\ KindsOf(Tail(s)) \subseteq KindsOf(s)
             /\ Head(s).kind \in KindsOf(s)
             /\ s[Len(s)].kind \in KindsOf(s)
  <2>1. 1 \in 1 .. Len(s) /\ Head(s) = s[1] /\ Len(s) \in 1 .. Len(s)
    BY <1>3
  <2>2. Len(Tail(s)) = Len(s) - 1 /\ \A i \in 1 .. Len(s) - 1 : Tail(s)[i] = s[i + 1]
    BY <1>3
  <2>3. \A i \in 1 .. Len(s) - 1 : i + 1 \in 1 .. Len(s)
    BY <1>1
  <2> QED BY <2>1, <2>2, <2>3 DEF KindsOf
<1> QED BY <1>2, <1>3 DEF LastKind

\* The last line of a sequence that goes on.
LEMMA LastJoined ==
    ASSUME NEW S, NEW s \in Seq(S), NEW t \in Seq(S), t # <<>>
    PROVE  LastKind(s \o t) = LastKind(t)
<1>1. Len(t) \in Nat \ {0} /\ Len(s) \in Nat /\ Len(s \o t) = Len(s) + Len(t)
  OBVIOUS
<1>2. (s \o t)[Len(s) + Len(t)] = t[Len(t)]
  BY <1>1
<1>3. s \o t # <<>>
  BY <1>1
<1> QED BY <1>1, <1>2, <1>3 DEF LastKind

\* A chunk and the rest after it: what is last, and what comes first.
LEMMA ReadKinds ==
    ASSUME stream \in Seq(Items), NEW k \in ChunkSizes
    PROVE  /\ KindsOf(Chunk(k)) \subseteq KindsOf(stream)
           /\ KindsOf(Rest(k)) \subseteq KindsOf(stream)
           /\ stream # <<>> /\ Chunk(k) # <<>> /\ Chunk(k) \in Seq(Items)
           /\ Rest(k) # <<>> => LastKind(Rest(k)) = LastKind(stream)
           /\ Rest(k) = <<>> => LastKind(Chunk(k)) = LastKind(stream)
           /\ MarksFirst(stream) => /\ MarksFirst(Rest(k))
                                    /\ HasAsk(Chunk(k)) => ~HasMark(Rest(k))
           /\ OneMark(stream) => /\ OneMark(Rest(k))
                                 /\ HasMark(Chunk(k)) => ~HasMark(Rest(k))
<1>1. PICK s \in Seq(Items), n \in Nat : s = stream /\ n = Len(s)
  OBVIOUS
<1>2. k \in 1 .. n
  BY <1>1 DEF ChunkSizes
<1>3. PICK c, r : c = SubSeq(s, 1, k) /\ r = SubSeq(s, k + 1, n)
  OBVIOUS
<1>4. Chunk(k) = c /\ Rest(k) = r
  BY <1>1, <1>3 DEF Chunk, Rest
<1>5. c \in Seq(Items) /\ Len(c) = k /\ \A i \in 1 .. k : i \in 1 .. n /\ c[i] = s[i]
  BY <1>1, <1>2, <1>3
<1>6. r \in Seq(Items) /\ Len(r) = n - k /\ \A i \in 1 .. n - k : i + k \in 1 .. n /\ r[i] = s[i + k]
  BY <1>1, <1>2, <1>3
<1>7. KindsOf(c) \subseteq KindsOf(s) /\ KindsOf(r) \subseteq KindsOf(s)
  BY <1>1, <1>5, <1>6 DEF KindsOf
<1>8. s # <<>> /\ c # <<>>
  BY <1>1, <1>2, <1>5
<1>9. r # <<>> => LastKind(r) = LastKind(s)
  <2> SUFFICES ASSUME r # <<>> PROVE r[Len(r)].kind = s[Len(s)].kind
    BY <1>8 DEF LastKind
  <2>1. n - k \in 1 .. n - k
    BY <1>2, <1>6
  <2>2. r[n - k] = s[(n - k) + k] /\ (n - k) + k = n
    BY <1>2, <1>6, <2>1
  <2> QED BY <1>1, <1>6, <2>2
<1>10. r = <<>> => LastKind(c) = LastKind(s)
  <2> SUFFICES ASSUME r = <<>> PROVE c[Len(c)].kind = s[Len(s)].kind
    BY <1>8 DEF LastKind
  <2>1. n = k
    BY <1>2, <1>6
  <2> QED BY <1>1, <1>2, <1>5, <2>1
<1>11. ASSUME MarksFirst(s)
       PROVE  MarksFirst(r) /\ (HasAsk(c) => ~HasMark(r))
  <2>1. MarksFirst(r)
    <3> SUFFICES ASSUME NEW i \in 1 .. n - k, NEW j \in 1 .. n - k, i < j, r[j].kind = "mark"
                 PROVE  r[i].kind = "mark"
      BY <1>6 DEF MarksFirst
    <3>1. i + k \in 1 .. n /\ j + k \in 1 .. n /\ i + k < j + k
      BY <1>2, <1>6
    <3>2. s[j + k].kind = "mark"
      BY <1>6
    <3>3. s[i + k].kind = "mark"
      BY <1>1, <1>11, <3>1, <3>2 DEF MarksFirst
    <3> QED BY <1>6, <3>3
  <2>2. ASSUME HasAsk(c), HasMark(r) PROVE FALSE
    <3>1. PICK i \in 1 .. k : c[i].kind \in Asks
      BY <1>5, <2>2 DEF HasAsk, KindsOf
    <3>2. PICK j \in 1 .. n - k : r[j].kind = "mark"
      BY <1>6, <2>2 DEF HasMark, KindsOf
    <3>3. i \in 1 .. n /\ j + k \in 1 .. n /\ i < j + k
      BY <1>2, <1>6
    <3>4. s[j + k].kind = "mark" /\ s[i].kind \in Asks
      BY <1>5, <1>6, <3>1, <3>2
    <3>5. s[i].kind = "mark"
      BY <1>1, <1>11, <3>3, <3>4 DEF MarksFirst
    <3> QED BY <3>4, <3>5 DEF Asks
  <2> QED BY <2>1, <2>2
<1>12. ASSUME OneMark(s)
       PROVE  OneMark(r) /\ (HasMark(c) => ~HasMark(r))
  <2>1. OneMark(r)
    <3> SUFFICES ASSUME NEW i \in 1 .. n - k, NEW j \in 1 .. n - k,
                        r[i].kind = "mark", r[j].kind = "mark"
                 PROVE  i = j
      BY <1>6 DEF OneMark
    <3>1. i + k \in 1 .. n /\ j + k \in 1 .. n
      BY <1>6
    <3>2. s[i + k].kind = "mark" /\ s[j + k].kind = "mark"
      BY <1>6
    <3>3. i + k = j + k
      BY <1>1, <1>12, <3>1, <3>2 DEF OneMark
    <3> QED BY <1>2, <3>3
  <2>2. ASSUME HasMark(c), HasMark(r) PROVE FALSE
    <3>1. PICK i \in 1 .. k : c[i].kind = "mark"
      BY <1>5, <2>2 DEF HasMark, KindsOf
    <3>2. PICK j \in 1 .. n - k : r[j].kind = "mark"
      BY <1>6, <2>2 DEF HasMark, KindsOf
    <3>3. i \in 1 .. n /\ j + k \in 1 .. n /\ i < j + k
      BY <1>2, <1>6
    <3>4. s[j + k].kind = "mark" /\ s[i].kind = "mark"
      BY <1>5, <1>6, <3>1, <3>2
    <3>5. i = j + k
      BY <1>1, <1>12, <3>3, <3>4 DEF OneMark
    <3> QED BY <3>3, <3>5
  <2> QED BY <2>1, <2>2
<1> QED BY <1>1, <1>4, <1>5, <1>7, <1>8, <1>9, <1>10, <1>11, <1>12

\* Initially no device asks for anything.
LEMMA LoginInit == Init => LoginInv
BY DEF Init, LoginInv, LoginStates, OffShell

\* What is said is the last line, and keeps what holds of the lines before it.
LEMMA Said ==
    ASSUME NEW s \in Seq(Items), NEW k \in Asks \cup {"mark"}
    PROVE  LET t == s \o <<Item(k, 0)>>
           IN  /\ KindsOf(t) = KindsOf(s) \cup {k} /\ LastKind(t) = k
               /\ MarksFirst(s) /\ (k = "mark" => ~HasAsk(s)) /\ KindsOf(s) \subseteq Asks \cup {"mark"}
                     => MarksFirst(t)
               /\ OneMark(s) /\ (k = "mark" => ~HasMark(s)) => OneMark(t)
<1>1. PICK x \in Items : x = Item(k, 0) /\ x.kind = k
  <2>1. k \in LineKinds
    BY DEF Asks, LineKinds
  <2>2. Item(k, 0) \in Items
    BY <2>1, ItemTypes
  <2>3. Item(k, 0).kind = k
    BY DEF Item
  <2> QED BY <2>2, <2>3
<1>2. PICK t : t = s \o <<x>>
  OBVIOUS
<1>3. PICK n \in Nat : n = Len(s)
  OBVIOUS
<1>4. <<x>> \in Seq(Items) /\ Len(<<x>>) = 1 /\ <<x>> # <<>>
  OBVIOUS
<1>5. Len(t) = n + 1 /\ t[n + 1] = x /\ \A i \in 1 .. n : t[i] = s[i]
  BY <1>2, <1>3, <1>4
<1>6. KindsOf(t) = KindsOf(s) \cup {k}
  BY <1>1, <1>2, KindsAppended
<1>7. LastKind(t) = k
  <2>1. LastKind(<<x>>) = k
    BY <1>1 DEF LastKind
  <2> QED BY <1>2, <1>4, <2>1, LastJoined
<1>8. \A i \in 1 .. n + 1 : i \in 1 .. n \/ i = n + 1
  BY <1>3
<1>9. ASSUME MarksFirst(s), k = "mark" => ~HasAsk(s), KindsOf(s) \subseteq Asks \cup {"mark"}
      PROVE  MarksFirst(t)
  <2> SUFFICES ASSUME NEW i \in 1 .. n + 1, NEW j \in 1 .. n + 1, i < j, t[j].kind = "mark"
               PROVE  t[i].kind = "mark"
    BY <1>5 DEF MarksFirst
  <2>1. i \in 1 .. n
    BY <1>3
  <2>2. CASE j = n + 1
    <3>1. k = "mark"
      BY <1>1, <1>5, <2>2
    <3>2. s[i].kind \in KindsOf(s)
      BY <1>3, <2>1 DEF KindsOf
    <3>3. s[i].kind \notin Asks
      BY <1>9, <3>1, <3>2 DEF HasAsk
    <3> QED BY <1>5, <1>9, <2>1, <3>2, <3>3
  <2>3. CASE j \in 1 .. n
    <3>1. s[j].kind = "mark"
      BY <1>5, <2>3
    <3>2. s[i].kind = "mark"
      BY <1>3, <1>9, <2>1, <2>3, <3>1 DEF MarksFirst
    <3> QED BY <1>5, <2>1, <3>2
  <2> QED BY <1>8, <2>2, <2>3
<1>10. ASSUME OneMark(s), k = "mark" => ~HasMark(s) PROVE OneMark(t)
  <2> SUFFICES ASSUME NEW i \in 1 .. n + 1, NEW j \in 1 .. n + 1,
                      t[i].kind = "mark", t[j].kind = "mark"
               PROVE  i = j
    BY <1>5 DEF OneMark
  <2>1. \A m \in 1 .. n : t[m].kind = "mark" => s[m].kind = "mark" /\ HasMark(s)
    BY <1>3, <1>5 DEF HasMark, KindsOf
  <2>2. t[n + 1].kind = k
    BY <1>1, <1>5
  <2>3. CASE i \in 1 .. n /\ j \in 1 .. n
    BY <1>3, <1>10, <2>1, <2>3 DEF OneMark
  <2> QED BY <1>8, <1>10, <2>1, <2>2, <2>3
<1> QED BY <1>1, <1>2, <1>6, <1>7, <1>9, <1>10

\* What the device does keeps LoginInv.
LEMMA LoginDevice ==
    ASSUME DataInv, LoginInv, Device \/ DeviceCuts, Untouched
    PROVE  LoginInv'
<1>0. faults' = faults
  BY DEF Device, DeviceTakes, PagerTakes, DeviceGreets, LoginTakes, DeviceAnswers, DeviceCuts
<1> SUFFICES ASSUME Steady, shell'.state \in LoginStates PROVE LoginInv'
  BY <1>0 DEF LoginInv, Steady
<1>1. shell \in Shells /\ stream \in Seq(Items) /\ typed \in Seq(Inputs)
  BY DEF DataInv, DeviceTypes
<1>2. DeviceGreets \/ LoginTakes
  <2> USE DEF LoginStates
  <2>1. CASE DeviceTakes
    <3>1. \/ shell' = [OffShell EXCEPT !.state = "waiting"]
          \/ shell' = shell
          \/ \E c : shell' = [OffShell EXCEPT !.state = "answering", !.cmd = c]
      BY <2>1 DEF DeviceTakes
    <3>2. shell.state \in {"waiting", "asking"}
      BY <2>1 DEF DeviceTakes
    <3> QED BY <3>1, <3>2 DEF OffShell
  <2>2. CASE PagerTakes
    BY <1>1, <2>2 DEF PagerTakes, Shells
  <2>3. CASE DeviceAnswers
    <3>1. shell.state = "answering"
      BY <2>3 DEF DeviceAnswers
    <3>2. \/ shell' = [shell EXCEPT !.lines = @ + 1, !.paged = FALSE]
          \/ shell' = [shell EXCEPT !.state = "paging"]
          \/ shell' = [shell EXCEPT !.state = "asking"]
          \/ shell' = [OffShell EXCEPT !.state = "waiting"]
      BY <2>3 DEF DeviceAnswers
    <3> QED BY <1>1, <3>1, <3>2 DEF OffShell, Shells
  <2>4. CASE DeviceCuts
    BY <2>4 DEF DeviceCuts, OffShell
  <2> QED BY <2>1, <2>2, <2>3, <2>4 DEF Device
<1>3. /\ shell.state \in LoginStates /\ UNCHANGED <<pc, rd, given>>
      /\ typed' = typed \/ (typed # <<>> /\ typed' = Tail(typed))
  BY <1>2 DEF DeviceGreets, LoginTakes, Untouched, login, LoginStates
<1>4. PICK k \in Asks \cup {"mark"} :
          /\ stream' = stream \o <<Item(k, 0)>>
          /\ \/ /\ k = "mark" /\ shell.state = "greeting" /\ shell'.state = "greeting"
                /\ shell'.lines # 0 /\ ("banners" \notin faults => shell.lines = 0)
             \/ k \in Asks /\ shell'.state \in {"user", "password"}
          /\ KindsOf(typed) \subseteq {"enter"} /\ shell.state \in {"greeting", "user"}
                => shell'.state \in {"greeting", "user"}
  <2>1. CASE DeviceGreets
    <3>1. CASE /\ "banners" \in faults \/ ("banner" \in faults /\ shell.lines = 0)
               /\ stream' = stream \o <<Item("mark", 0)>>
               /\ shell' = [shell EXCEPT !.lines = @ + 1]
      <4>1. shell'.lines = shell.lines + 1 /\ shell.lines \in 0 .. MaxLines
            /\ shell'.state = shell.state
        BY <1>1, <3>1 DEF Shells
      <4>2. shell'.lines # 0
        BY <4>1, MaxLinesAssumption
      <4>3. shell.state = "greeting"
        BY <2>1 DEF DeviceGreets
      <4> QED BY <3>1, <4>1, <4>2, <4>3
    <3>2. CASE /\ stream' = stream \o <<Item("askUser", 0)>>
               /\ shell' = [OffShell EXCEPT !.state = "user"]
      BY <3>2 DEF OffShell, Asks
    <3> QED BY <2>1, <3>1, <3>2 DEF DeviceGreets, Say
  <2>2. CASE LoginTakes
    <3>1. \/ /\ shell.state = "user" /\ Head(typed).kind # "enter"
             /\ stream' = stream \o <<Item("askPassword", 0)>>
             /\ shell' = [shell EXCEPT !.state = "password"]
          \/ /\ shell' = [shell EXCEPT !.state = "waiting"]
          \/ /\ shell' = [shell EXCEPT !.state = "user"]
             /\ stream' = stream \o <<Item("askUser", 0)>>
      BY <2>2 DEF LoginTakes, Say
    <3>2. shell' # [shell EXCEPT !.state = "waiting"]
      BY <1>1 DEF Shells, LoginStates
    <3>3. KindsOf(typed) \subseteq {"enter"} => Head(typed).kind = "enter"
      BY <1>1, <2>2, KindsCut DEF LoginTakes
    <3> QED BY <1>1, <3>1, <3>2, <3>3 DEF Shells, Asks
  <2> QED BY <1>2, <2>1, <2>2
<1>5. /\ KindsOf(stream') = KindsOf(stream) \cup {k} /\ LastKind(stream') = k
      /\ MarksFirst(stream) /\ (k = "mark" => ~HasAsk(stream))
         /\ KindsOf(stream) \subseteq Asks \cup {"mark"} => MarksFirst(stream')
      /\ OneMark(stream) /\ (k = "mark" => ~HasMark(stream)) => OneMark(stream')
  BY <1>1, <1>4, Said
<1>6. KindsOf(typed') \subseteq KindsOf(typed)
  BY <1>1, <1>3, KindsCut
<1>7. /\ pc' \in {"login", "shell", "prompt", "closeShell"}
      /\ "command" \notin KindsOf(typed')
      /\ KindsOf(stream') \subseteq Asks \cup {"mark"}
      /\ KindsOf(stream) \subseteq Asks \cup {"mark"}
  BY <1>3, <1>5, <1>6 DEF LoginInv
<1>8. shell'.state # "greeting" => LastKind(stream') \in Asks
  BY <1>4, <1>5
<1>9. /\ HasMark(stream') => HasMark(stream) \/ k = "mark"
      /\ HasAsk(stream') => HasAsk(stream) \/ k \in Asks
  BY <1>5 DEF HasMark, HasAsk
<1>10. stream' # <<>>
  <2>1. KindsOf(<<>>) = {}
    BY DEF KindsOf
  <2> QED BY <1>5, <2>1
<1>11. pc' = "login" => LoginDialogue'
  <2> SUFFICES ASSUME pc = "login" PROVE LoginDialogue'
    BY <1>3
  <2>1. LoginDialogue
    BY <1>3 DEF LoginInv
  <2>2. k = "mark" => ~HasAsk(stream) /\ ~HasAsk(rd.buf) /\ given = {}
    BY <1>4, <2>1 DEF LoginDialogue, Asks
  <2>3. given = {} => shell'.state \in {"greeting", "user"} /\ KindsOf(typed') \subseteq {"enter"}
    BY <1>4, <1>6, <2>1 DEF LoginDialogue
  <2>4. MarksFirst(stream')
    BY <1>5, <1>7, <2>1, <2>2 DEF LoginDialogue
  <2>5. HasAsk(rd.buf) => ~HasMark(stream')
    BY <1>9, <2>1, <2>2 DEF LoginDialogue
  <2>6. given # {} => ~HasMark(rd.buf) /\ ~HasMark(stream')
    BY <1>9, <2>1, <2>2 DEF LoginDialogue
  <2>7. shell'.state = "greeting" => given = {} /\ ~HasAsk(rd.buf) /\ ~HasAsk(stream')
    <3>1. shell'.state = "greeting" => k = "mark" /\ k \notin Asks
      BY <1>4 DEF Asks
    <3> QED BY <1>9, <2>2, <3>1
  <2> QED BY <1>3, <2>1, <2>3, <2>4, <2>5, <2>6, <2>7 DEF LoginDialogue
<1>12. pc' = "login" /\ "banners" \notin faults => OnlyLine'
  <2> SUFFICES ASSUME pc = "login", "banners" \notin faults PROVE OnlyLine'
    BY <1>3
  <2>1. OnlyLine
    BY <1>3 DEF LoginInv
  <2>2. k = "mark" => ~HasMark(stream) /\ ~HasMark(rd.buf) /\ shell'.lines # 0
    BY <1>4, <2>1 DEF OnlyLine, Asks
  <2>3. shell'.state = "greeting" => k = "mark"
    BY <1>4
  <2> QED BY <1>3, <1>5, <1>9, <2>1, <2>2, <2>3 DEF OnlyLine
<1>13. pc' \in {"shell", "prompt"} => LoginCutShort'
  <2> SUFFICES ASSUME pc \in {"shell", "prompt"} PROVE LoginCutShort'
    BY <1>3
  <2>1. LoginCutShort
    BY <1>3 DEF LoginInv
  <2>2. "banners" \notin faults => k # "mark" /\ shell'.state # "greeting"
    BY <1>4, <2>1 DEF LoginCutShort, Asks
  <2>3. shell'.state \in {"greeting", "user"} /\ KindsOf(typed') \subseteq {"enter"}
    BY <1>4, <1>6, <2>1 DEF LoginCutShort
  <2> QED BY <1>0, <1>3, <1>9, <1>10, <2>1, <2>2, <2>3 DEF LoginCutShort
<1> QED BY <1>0, <1>3, <1>7, <1>8, <1>11, <1>12, <1>13 DEF LoginInv

\* What the reader does keeps it: a device that has not let the session in prints
\* nothing that ends a read and is confirmed.
LEMMA LoginReader ==
    ASSUME DataInv, LoginInv, Reader \/ ReadLost, Untouched
    PROVE  LoginInv'
<1>1. UNCHANGED <<pc, given, shell, faults>>
  BY DEF Untouched, login, Reader, ReadLost, ConfirmPrompt, ConfirmMore, ConfirmEnds,
         AnswerPager, ReadChunk, ReadEof, ReadTimeout, deviceVars
<1> SUFFICES ASSUME Steady, shell.state \in LoginStates PROVE LoginInv'
  BY <1>1 DEF LoginInv, Steady
<1>2. /\ stream \in Seq(Items) /\ typed \in Seq(Inputs)
      /\ rd \in Reads /\ rd.buf \in Seq(Output)
  BY DEF DataInv, DeviceTypes, Reads
<1>3. rd.pc \in {"reading", "confirming"}
  BY DEF Reader, ReadLost, ConfirmPrompt, ConfirmMore, ConfirmEnds, AnswerPager, ReadChunk,
         ReadEof, ReadTimeout, AtPrompt, AtPager, AwaitsOutput
<1>4. pc \in {"prompt", "closeShell"}
  BY <1>3 DEF LoginInv, LoginDialogue
<1>5. KindsOf(typed') \subseteq KindsOf(typed) \cup {"key"}
  <2>1. CASE AnswerPager
    <3>1. Input("key", 0) \in Inputs /\ Input("key", 0).kind = "key"
      BY ItemTypes DEF Input
    <3>2. typed' = Append(typed, Input("key", 0))
      BY <2>1 DEF AnswerPager
    <3>3. KindsOf(Append(typed, Input("key", 0))) = KindsOf(typed) \cup {Input("key", 0).kind}
      <4>1. PICK s, x : s = typed /\ x = Input("key", 0)
        OBVIOUS
      <4>2. s \in Seq(Inputs) /\ x \in Inputs
        BY <1>2, <3>1, <4>1
      <4>3. KindsOf(s \o <<x>>) = KindsOf(s) \cup {x.kind}
        BY <4>2, KindsAppended
      <4>4. Append(s, x) = s \o <<x>>
        BY <4>2
      <4> QED BY <4>1, <4>3, <4>4
    <3> QED BY <3>1, <3>2, <3>3
  <2>2. CASE typed' = typed
    BY <2>2
  <2> QED BY <2>1, <2>2 DEF Reader, ReadLost, ConfirmPrompt, ConfirmMore, ConfirmEnds,
             ReadChunk, ReadEof, ReadTimeout, deviceVars
\* A read takes a chunk, or nothing from the stream.
<1>6. \/ /\ ConfirmMore \/ ReadChunk
         /\ \E k \in ChunkSizes : stream' = Rest(k) /\ rd'.buf = rd.buf \o Chunk(k)
                                  /\ rd'.got = rd.got /\ rd'.pc \in {rd.pc, "confirming"}
      \/ ~ConfirmMore /\ ~ReadChunk /\ stream' = stream
  <2>1. CASE ConfirmMore \/ ReadChunk
    BY <1>2, <2>1 DEF ConfirmMore, ReadChunk, Reads
  <2>2. CASE ~ConfirmMore /\ ~ReadChunk
    BY <2>2 DEF Reader, ReadLost, ConfirmPrompt, ConfirmEnds, AnswerPager, ReadEof, ReadTimeout,
       deviceVars
  <2> QED BY <2>1, <2>2
<1>7. /\ KindsOf(stream') \subseteq KindsOf(stream)
      /\ stream' # <<>> => stream # <<>> /\ LastKind(stream') = LastKind(stream)
  BY <1>2, <1>6, ReadKinds
<1>8. CASE pc = "closeShell"
  BY <1>1, <1>5, <1>7, <1>8 DEF LoginInv
<1>9. CASE pc = "prompt"
  <2>1. /\ LoginCutShort /\ rd.got # "text" /\ KindsOf(rd.buf) \subseteq Asks \cup {"mark"}
        /\ KindsOf(stream) \subseteq Asks \cup {"mark"}
        /\ shell.state # "greeting" /\ stream # <<>> => LastKind(stream) \in Asks
    BY <1>9 DEF LoginInv
  <2>2. LastKind(rd.buf) \in KindsOf(rd.buf) \cup {"none"}
    BY <1>2, KindsCut
  <2>3. ~AtPager /\ ~AtEof
    <3>1. stream # <<>> => Head(stream).kind \in Asks \cup {"mark"}
      BY <1>2, <2>1, KindsCut
    <3> QED BY <2>1, <2>2, <3>1 DEF AtPager, AtEof, Pagers, Asks
  \* A line that looks like a prompt is not confirmed: there is none, or the device
  \* goes on after it.
  <2>4. ~ConfirmPrompt
    <3> SUFFICES ASSUME AtPrompt, IdleWindow PROVE FALSE
      BY <2>3 DEF ConfirmPrompt
    <3>1. LastKind(rd.buf) = "mark" /\ HasMark(rd.buf)
      BY <2>1, <2>2 DEF AtPrompt, PromptLike, Asks, HasMark
    <3>2. faults \cap {"pause", "stall"} = {}
      BY <2>1, <3>1 DEF LoginCutShort, Steady
    <3>3. shell.state = "user" /\ stream = <<>>
      BY <2>1, <3>2 DEF IdleWindow, DeviceSilent, LoginCutShort
    <3> QED BY <2>1, <3>1, <3>3 DEF LoginCutShort, Asks
  <2>5. \/ ConfirmMore \/ ReadChunk
        \/ typed' = typed /\ rd'.buf = rd.buf /\ rd'.got # "text"
           /\ rd'.pc \in {"reading", "confirming", "done"}
    <3>1. CASE ConfirmEnds
      BY <1>2, <2>1, <3>1 DEF ConfirmEnds, deviceVars, Reads
    <3>2. CASE ReadTimeout \/ ReadLost
      <4>1. PICK got \in {"timeout", "lost"} : Return(got)
        BY <3>2 DEF ReadTimeout, ReadLost
      <4>2. rd'.pc = "done" /\ rd'.got = got /\ rd'.buf = rd.buf
        BY <1>2, <4>1 DEF Return, Reads
      <4> QED BY <3>2, <4>2 DEF ReadTimeout, ReadLost, deviceVars
    <3> QED BY <2>3, <2>4, <3>1, <3>2 DEF Reader, AnswerPager, ReadEof
  <2>6. CASE ConfirmMore \/ ReadChunk
    <3>1. PICK k \in ChunkSizes : /\ stream' = Rest(k) /\ rd'.buf = rd.buf \o Chunk(k)
                                  /\ rd'.got = rd.got /\ rd'.pc \in {rd.pc, "confirming"}
      BY <1>6, <2>6
    <3>2. Chunk(k) \in Seq(Output) /\ Chunk(k) # <<>> /\ KindsOf(Chunk(k)) \subseteq KindsOf(stream)
      BY <1>2, ChunkTypes, ReadKinds
    <3>3. /\ KindsOf(rd'.buf) = KindsOf(rd.buf) \cup KindsOf(Chunk(k))
          /\ LastKind(rd'.buf) = LastKind(Chunk(k))
      BY <1>2, <3>1, <3>2, KindsJoined, LastJoined
    <3>4. stream # <<>> /\ (stream' = <<>> => LastKind(rd'.buf) = LastKind(stream))
      BY <1>2, <3>1, <3>3, ReadKinds
    <3>5. typed' = typed
      BY <2>6 DEF ConfirmMore, ReadChunk
    <3>6. LoginCutShort'
      <4>1. "banners" \notin faults => ~HasMark(stream') /\ ~HasMark(rd'.buf)
        BY <1>7, <2>1, <3>2, <3>3 DEF LoginCutShort, HasMark
      <4>2. shell.state = "user" /\ stream' = <<>> => LastKind(rd'.buf) \in Asks
        BY <2>1, <3>4
      <4> QED BY <1>1, <2>1, <3>5, <4>1, <4>2 DEF LoginCutShort
    <3> QED BY <1>1, <1>3, <1>5, <1>7, <1>9, <2>1, <3>1, <3>2, <3>3, <3>5, <3>6 DEF LoginInv
  <2>7. CASE ~ConfirmMore /\ ~ReadChunk
    <3>1. /\ typed' = typed /\ rd'.buf = rd.buf /\ rd'.got # "text" /\ stream' = stream
          /\ rd'.pc \in {"reading", "confirming", "done"}
      BY <1>6, <2>5, <2>7
    <3>2. LoginCutShort'
      BY <1>1, <2>1, <3>1 DEF LoginCutShort
    <3> QED BY <1>1, <1>9, <2>1, <3>1, <3>2 DEF LoginInv
  <2> QED BY <2>6, <2>7
<1> QED BY <1>4, <1>8, <1>9

\* A newline is typed at a device that asks.
LEMMA EnterTyped ==
    ASSUME typed \in Seq(Inputs), Typing(<<Input("enter", 0)>>),
           shell.state \in LoginStates
    PROVE  /\ KindsOf(typed') = KindsOf(typed) \cup {"enter"}
           /\ \A r \in BOOLEAN : /\ Reading(r).pc = "reading" /\ Reading(r).got = "none"
                                 /\ KindsOf(Reading(r).buf) = {}
                                 /\ LastKind(Reading(r).buf) = "none"
<1>1. typed' = typed \o <<Input("enter", 0)>>
  BY DEF Typing, LoginStates
<1>2. Input("enter", 0) \in Inputs /\ Input("enter", 0).kind = "enter"
  BY ItemTypes DEF Input
<1>3. KindsOf(typed \o <<Input("enter", 0)>>) = KindsOf(typed) \cup {"enter"}
  BY <1>2, KindsAppended
<1>4. \A r \in BOOLEAN : /\ Reading(r).pc = "reading" /\ Reading(r).got = "none"
                         /\ KindsOf(Reading(r).buf) = {} /\ LastKind(Reading(r).buf) = "none"
  BY DEF Reading, NoRead, KindsOf, LastKind
<1> QED BY <1>1, <1>2, <1>3, <1>4


\* No credential is sent before a connection is open.
NoCredentials == pc \in Connecting => given = {}
LEMMA CredentialsStep == NoCredentials /\ [Next]_vars => NoCredentials'
<1> SUFFICES ASSUME NoCredentials, [Next]_vars PROVE NoCredentials'
  OBVIOUS
<1> USE DEF Connecting, NoCredentials
<1>1. CASE Untouched \/ UNCHANGED vars
  BY <1>1 DEF Untouched, vars, login
<1>2. CASE Login \/ LoginLost \/ ConnectFails \/ OpenTunnel \/ OpenConn \/ Cancel
  BY <1>2 DEF Login, LoginPrompt, LoginUser, LoginPassword, LoginReads, LoginEof, AskedUser,
     AskedPassword, LoginTimeout, LoginLost, LoggedIn, GiveCredential, ConnectFails,
     OpenTunnel, OpenConn, Cancel, Quiet, login, Fail, CleanUp, LoginWaits, Asked
<1>3. CASE Commands
  BY <1>3 DEF Commands, StartShell, FirstPrompt, SecondNewline, NoFirstPrompt, InvalidStep,
     ThenStep, ThenStepBad, StepFails, AwaitOrGoOn, NextStep, Drain, TypeCommand, CommandEnds,
     CommandFails, ScriptEnds, PlainStep, AtStep, Quiet, login, Fail, CleanUp
<1>4. CASE CleaningUp
  BY <1>4 DEF CleaningUp, CloseConn, ConnClosed, CloseTunnel, TunnelClosed, EndAttempt,
     NextAttempt, Quiet, login
<1> QED BY <1>1, <1>2, <1>3, <1>4 DEF Next, Progress, Fault, Streaming

\* What the session does keeps it: it types commands only behind a prompt.
LEMMA LoginSession ==
    ASSUME IInv, DataInv, LoginInv, NoCredentials,
           \/ OpenTunnel \/ OpenConn \/ Login \/ Commands \/ CleaningUp
           \/ ConnectFails \/ LoginLost \/ Cancel
    PROVE  LoginInv'
<1>0. faults' = faults
  BY SettingsKept
<1> SUFFICES ASSUME Steady, shell'.state \in LoginStates PROVE LoginInv'
  BY <1>0 DEF LoginInv, Steady
<1> USE DEF LoginStates
<1>1. /\ shell \in Shells /\ stream \in Seq(Items) /\ typed \in Seq(Inputs)
      /\ rd \in Reads /\ rd.buf \in Seq(Output)
  BY DEF DataInv, DeviceTypes, Reads
<1>2. CASE OpenConn
  <2>1. /\ shell' = [OffShell EXCEPT !.state = "greeting"] /\ stream' = <<>>
        /\ typed' = <<Input("enter", 0)>> /\ rd' = [NoRead EXCEPT !.pc = "login"]
        /\ pc' = "login" /\ given' = given
    <3>1. proto # "ssh"
      BY <1>2 DEF OpenConn, LoginInv
    <3> QED BY <1>2, <3>1 DEF OpenConn, login
  <2>2. KindsOf(stream') = {} /\ MarksFirst(stream') /\ OneMark(stream')
    BY <2>1 DEF KindsOf, MarksFirst, OneMark
  <2>3. /\ KindsOf(typed') = {"enter"} /\ shell'.state = "greeting" /\ shell'.lines = 0
        /\ rd'.pc = "login" /\ KindsOf(rd'.buf) = {}
    BY <2>1 DEF Input, KindsOf, OffShell, NoRead
  <2>4. given' = {}
    BY <1>2, <2>1 DEF OpenConn, NoCredentials, Connecting
  <2>5. ~HasMark(stream') /\ ~HasAsk(stream') /\ ~HasMark(rd'.buf) /\ ~HasAsk(rd'.buf)
    BY <2>2, <2>3 DEF HasMark, HasAsk
  <2>6. LoginDialogue' /\ OnlyLine'
    BY <2>2, <2>3, <2>4, <2>5 DEF LoginDialogue, OnlyLine
  <2> QED BY <2>1, <2>2, <2>3, <2>6 DEF LoginInv
<1>3. CASE CleaningUp
  BY <1>3 DEF CleaningUp, CloseConn, ConnClosed, CloseTunnel, TunnelClosed, EndAttempt,
     NextAttempt, LoginInv, OffShell, deviceVars
<1>4. CASE OpenTunnel
  BY <1>4 DEF OpenTunnel, LoginInv, deviceVars
\* An exception ends in the closing of the shell.
<1>5. ASSUME NEW e, Fail(e), UNCHANGED <<shell, typed, stream>>,
             pc \in {"login", "shell", "prompt", "closeShell"}
      PROVE  LoginInv'
  <2>1. shell.state \in LoginStates /\ pc' = CleanUp
    BY <1>5 DEF Fail
  <2>2. CleanUp = "closeShell"
    BY <1>5, CleanUpPoint DEF IInv, ConnInv, Connected
  <2> QED BY <1>5, <2>1, <2>2 DEF LoginInv
<1>6. CASE ConnectFails \/ LoginLost \/ LoginTimeout
  <2>1. PICK e : Fail(e) /\ UNCHANGED <<shell, typed, stream>>
    BY <1>6 DEF ConnectFails, LoginLost, LoginTimeout, deviceVars
  <2> QED BY <1>5, <2>1 DEF LoginInv
<1>7. CASE Cancel
  <2>1. UNCHANGED <<shell, typed, stream>>
    BY <1>7 DEF Cancel, deviceVars
  <2>2. pc \in {"login", "shell", "prompt", "closeShell"}
    BY <2>1 DEF LoginInv
  <2> QED BY <1>5, <1>7, <2>1, <2>2 DEF Cancel
<1>8. CASE LoginPrompt \/ LoginEof
  <2>1. /\ pc = "login" /\ pc' = "shell" /\ rd' = NoRead
        /\ UNCHANGED <<shell, typed, stream>>
    BY <1>8 DEF LoginPrompt, LoginEof, LoginWaits, Asked, LoggedIn, deviceVars
  <2>2. LoginInv /\ LoginDialogue /\ shell.state \in LoginStates
        /\ ("banners" \notin faults => OnlyLine)
    BY <2>1 DEF LoginInv
  <2>3. ~AtEof
    <3>1. stream # <<>> => Head(stream).kind \in Asks \cup {"mark"}
      BY <1>1, <2>1, <2>2, KindsCut DEF LoginInv
    <3> QED BY <3>1 DEF AtEof, Asks
  <2>4. HasMark(rd.buf)
    <3>1. LastKind(rd.buf) \in PromptLike
      BY <1>8, <2>3 DEF LoginPrompt, LoginEof, Asked
    <3>2. LastKind(rd.buf) \in KindsOf(rd.buf) \cup {"none"}
      BY <1>1, KindsCut
    <3>3. KindsOf(rd.buf) \subseteq Asks \cup {"mark"}
      BY <2>2 DEF LoginDialogue
    <3> QED BY <3>1, <3>2, <3>3 DEF PromptLike, Asks, HasMark
  <2>5. rd'.pc = "off" /\ ~HasMark(rd'.buf) /\ LastKind(rd'.buf) = "none"
    BY <2>1 DEF NoRead, HasMark, KindsOf, LastKind
  <2>6. LoginCutShort'
    <3>1. given = {}
      BY <2>2, <2>4 DEF LoginDialogue
    <3>2. shell.state \in {"greeting", "user"} /\ KindsOf(typed) \subseteq {"enter"}
      BY <2>2, <3>1 DEF LoginDialogue
    <3>3. "banners" \notin faults => ~HasMark(stream) /\ (shell.state = "greeting" => shell.lines # 0)
      BY <2>2, <2>4 DEF OnlyLine
    <3> QED BY <1>0, <2>1, <2>5, <3>2, <3>3 DEF LoginCutShort
  <2> QED BY <2>1, <2>2, <2>5, <2>6 DEF LoginInv
<1>9. CASE LoginUser \/ LoginPassword
  <2>1. PICK k \in {"user", "password"} :
          /\ GiveCredential(k) /\ LastKind(rd.buf) \in Asks
    BY <1>9 DEF LoginUser, LoginPassword, AskedUser, AskedPassword, Asked, Asks
  <2>2. /\ pc = "login" /\ given' = given \cup {k} /\ typed' = Append(typed, Input(k, 0))
        /\ rd' = [rd EXCEPT !.buf = <<>>] /\ UNCHANGED <<pc, shell, stream>>
    BY <1>9, <2>1 DEF GiveCredential, LoginUser, LoginPassword, AskedUser, AskedPassword, Asked
  <2>3. LoginDialogue /\ shell.state \in LoginStates /\ ("banners" \notin faults => OnlyLine)
    BY <2>2 DEF LoginInv
  <2>4. HasAsk(rd.buf)
    <3>1. LastKind(rd.buf) \in KindsOf(rd.buf) \cup {"none"}
      BY <1>1, KindsCut
    <3> QED BY <2>1, <3>1 DEF Asks, HasAsk
  <2>5. rd'.pc = "login" /\ KindsOf(rd'.buf) = {} /\ ~HasMark(rd'.buf) /\ ~HasAsk(rd'.buf)
    BY <1>1, <2>2, <2>3 DEF Reads, LoginDialogue, KindsOf, HasMark, HasAsk
  <2>6. "command" \notin KindsOf(typed')
    <3>1. Input(k, 0) \in Inputs /\ Input(k, 0).kind = k
      BY ItemTypes DEF Input
    <3>2. KindsOf(Append(typed, Input(k, 0))) = KindsOf(typed) \cup {Input(k, 0).kind}
      <4>1. PICK s, x : s = typed /\ x = Input(k, 0)
        OBVIOUS
      <4>2. s \in Seq(Inputs) /\ x \in Inputs
        BY <1>1, <3>1, <4>1
      <4>3. KindsOf(s \o <<x>>) = KindsOf(s) \cup {x.kind}
        BY <4>2, KindsAppended
      <4>4. Append(s, x) = s \o <<x>>
        BY <4>2
      <4> QED BY <4>1, <4>3, <4>4
    <3> QED BY <2>2, <2>3, <3>1, <3>2 DEF LoginInv
  <2>7. given' # {} /\ ~HasMark(stream) /\ shell.state # "greeting"
    BY <2>2, <2>3, <2>4 DEF LoginDialogue
  <2>8. LoginDialogue'
    BY <2>2, <2>3, <2>5, <2>7 DEF LoginDialogue
  <2>9. "banners" \notin faults => OnlyLine'
    BY <2>2, <2>3, <2>5, <2>7 DEF OnlyLine
  <2> QED BY <1>0, <2>2, <2>3, <2>6, <2>8, <2>9 DEF LoginInv
<1>10. CASE LoginReads
  <2>1. PICK k \in ChunkSizes : rd' = [rd EXCEPT !.buf = @ \o Chunk(k)] /\ stream' = Rest(k)
    BY <1>10 DEF LoginReads
  <2>2. pc = "login" /\ UNCHANGED <<pc, given, shell, typed>>
    BY <1>10 DEF LoginReads, LoginWaits, login
  <2>3. LoginDialogue /\ shell.state \in LoginStates /\ ("banners" \notin faults => OnlyLine)
    BY <2>2 DEF LoginInv
  <2>4. /\ Chunk(k) \in Seq(Output) /\ KindsOf(Chunk(k)) \subseteq KindsOf(stream)
        /\ KindsOf(stream') \subseteq KindsOf(stream) /\ stream # <<>>
        /\ stream' # <<>> => LastKind(stream') = LastKind(stream)
        /\ MarksFirst(stream) => MarksFirst(stream') /\ (HasAsk(Chunk(k)) => ~HasMark(stream'))
        /\ OneMark(stream) => OneMark(stream') /\ (HasMark(Chunk(k)) => ~HasMark(stream'))
    BY <1>1, <2>1, ChunkTypes, ReadKinds
  <2>5. KindsOf(rd.buf \o Chunk(k)) = KindsOf(rd.buf) \cup KindsOf(Chunk(k))
    BY <1>1, <2>4, KindsJoined
  <2>6. rd'.pc = rd.pc /\ rd'.buf = rd.buf \o Chunk(k)
    BY <1>1, <2>1 DEF Reads
  <2>7. /\ HasMark(stream') => HasMark(stream)
        /\ HasAsk(stream') => HasAsk(stream)
        /\ HasMark(Chunk(k)) => HasMark(stream)
        /\ HasAsk(Chunk(k)) => HasAsk(stream)
        /\ HasMark(rd'.buf) => HasMark(rd.buf) \/ HasMark(Chunk(k))
        /\ HasAsk(rd'.buf) => HasAsk(rd.buf) \/ HasAsk(Chunk(k))
    BY <2>4, <2>5, <2>6 DEF HasMark, HasAsk
  <2>8. LoginDialogue'
    <3>1. KindsOf(rd'.buf) \subseteq Asks \cup {"mark"}
      BY <2>2, <2>3, <2>4, <2>5, <2>6 DEF LoginInv, LoginDialogue
    <3> QED BY <2>2, <2>3, <2>4, <2>6, <2>7, <3>1 DEF LoginDialogue
  <2>9. "banners" \notin faults => OnlyLine'
    BY <2>2, <2>3, <2>4, <2>7 DEF OnlyLine
  <2> QED BY <1>0, <2>2, <2>3, <2>4, <2>8, <2>9 DEF LoginInv
<1>11. CASE StartShell
  <2>1. proto # "ssh"
    BY <1>11 DEF StartShell, OffShell
  <2>2. /\ pc = "shell" /\ pc' = "prompt" /\ rd' = Reading(FALSE)
        /\ Typing(<<Input("enter", 0)>>) /\ UNCHANGED <<shell, stream>>
    BY <1>11, <2>1 DEF StartShell
  <2>3. LoginInv /\ shell.state \in LoginStates
    BY <2>2
  <2>4. /\ KindsOf(typed') = KindsOf(typed) \cup {"enter"} /\ LastKind(rd'.buf) = "none"
        /\ rd'.pc = "reading" /\ rd'.got = "none" /\ KindsOf(rd'.buf) = {}
    BY <1>1, <2>2, <2>3, EnterTyped
  <2>5. LoginCutShort'
    BY <1>0, <2>2, <2>3, <2>4 DEF LoginInv, LoginCutShort, HasMark
  <2> QED BY <1>0, <2>2, <2>3, <2>4, <2>5 DEF LoginInv
<1>12. CASE SecondNewline
  <2>1. /\ pc = "prompt" /\ pc' = "prompt" /\ rd' = Reading(FALSE)
        /\ Typing(<<Input("enter", 0)>>) /\ UNCHANGED <<shell, stream>>
    BY <1>12 DEF SecondNewline
  <2>2. LoginInv /\ shell.state \in LoginStates
    BY <2>1
  <2>3. /\ KindsOf(typed') = KindsOf(typed) \cup {"enter"} /\ LastKind(rd'.buf) = "none"
        /\ rd'.pc = "reading" /\ rd'.got = "none" /\ KindsOf(rd'.buf) = {}
    BY <1>1, <2>1, <2>2, EnterTyped
  <2>4. LoginCutShort'
    BY <1>0, <2>1, <2>2, <2>3 DEF LoginInv, LoginCutShort, HasMark
  <2> QED BY <1>0, <2>1, <2>2, <2>3, <2>4 DEF LoginInv
<1>13. CASE NoFirstPrompt
  <2>1. PICK e : Fail(e) /\ UNCHANGED <<shell, typed, stream>> /\ pc = "prompt"
    BY <1>13 DEF NoFirstPrompt, deviceVars
  <2> QED BY <1>5, <2>1
\* Behind the first prompt no device asks for credentials.
<1>14. CASE \/ FirstPrompt \/ InvalidStep \/ ThenStep \/ ThenStepBad \/ Drain
            \/ TypeCommand \/ CommandEnds \/ CommandFails \/ ScriptEnds
  <2>1. shell' = shell
    BY <1>14 DEF FirstPrompt, InvalidStep, ThenStep, ThenStepBad, Drain, TypeCommand,
       CommandEnds, CommandFails, ScriptEnds, AwaitOrGoOn, deviceVars
  <2>2. pc \in {"step", "command"} \/ (pc = "prompt" /\ rd.got = "text")
    BY <1>14 DEF FirstPrompt, InvalidStep, ThenStep, ThenStepBad, Drain, TypeCommand,
       CommandEnds, CommandFails, ScriptEnds, PlainStep, AtStep
  <2> QED BY <2>1, <2>2 DEF LoginInv
<1> QED BY <1>2, <1>3, <1>4, <1>6, <1>7, <1>8, <1>9, <1>10, <1>11, <1>12, <1>13, <1>14
        DEF Login, Commands

\* The invariant holds in every reachable state.
THEOREM LoginInductive == Spec => [](LoginInv /\ NoCredentials)
<1>1. Init => LoginInv /\ NoCredentials
  BY LoginInit DEF Init, NoCredentials
<1>2. IInv /\ DataInv /\ LoginInv /\ NoCredentials /\ [Next]_vars
        => (LoginInv /\ NoCredentials)'
  <2> SUFFICES ASSUME IInv, DataInv, LoginInv, NoCredentials, [Next]_vars
               PROVE  LoginInv' /\ NoCredentials'
    OBVIOUS
  <2>1. CASE (Device \/ DeviceCuts) /\ Untouched
    BY <2>1, LoginDevice, CredentialsStep
  <2>2. CASE (Reader \/ ReadLost) /\ Untouched
    BY <2>2, LoginReader, CredentialsStep
  <2>3. CASE \/ OpenTunnel \/ OpenConn \/ Login \/ Commands \/ CleaningUp
             \/ ConnectFails \/ LoginLost \/ Cancel
    BY <2>3, LoginSession, CredentialsStep
  <2>4. CASE UNCHANGED vars
    BY <2>4, CredentialsStep DEF vars, deviceVars, LoginInv, LoginDialogue, LoginCutShort,
       OnlyLine, Steady
  <2> QED BY <2>1, <2>2, <2>3, <2>4 DEF Next, Progress, Fault, Streaming
<1> QED BY <1>1, <1>2, Inductive, DataInductive, PTL DEF Spec

\* A device that is still in its login dialogue is never sent a command, if one line of
\* its banner looks like a prompt or if it does not pause (_login, the first prompt of
\* _collect_vendor_config).  Otherwise a second such line passes for the first prompt.
THEOREM NoCommandAtLogin == Spec => []CommandsOnlyInShell
<1>1. LoginInv => CommandsOnlyInShell
  BY DEF LoginInv, KindsOf, CommandsOnlyInShell, ShellIsReady, Steady, LoginStates
<1> QED BY <1>1, LoginInductive, PTL

=============================================================================
