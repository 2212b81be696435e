------------------------ MODULE DeviceAnswers_proofs ------------------------
(***************************************************************************)
(* What DeviceSession captures of a command is the device's own answer to  *)
(* it: the proof, for any script, any output and any way to cut it into    *)
(* chunks.                                                                 *)
(***************************************************************************)
EXTENDS DeviceSession_proofs, SequenceTheorems

(***************************************************************************)
(* Sequences that are read in chunks.                                      *)
(***************************************************************************)
\* A chunk that is read changes nothing of the whole output.
LEMMA Rejoined ==
    ASSUME NEW S, NEW b \in Seq(S), NEW s \in Seq(S), NEW k \in 1 .. Len(s)
    PROVE  (b \o SubSeq(s, 1, k)) \o SubSeq(s, k + 1, Len(s)) = b \o s
<1>1. Len(s) \in Nat /\ k \in 1 - 1 .. Len(s) /\ 1 \in 1 .. Len(s) + 1
      /\ Len(s) \in k .. Len(s)
  BY LenProperties
<1>2. SubSeq(s, 1, k) \o SubSeq(s, k + 1, Len(s)) = SubSeq(s, 1, Len(s))
  BY <1>1, ConcatAdjacentSubSeq
<1>3. SubSeq(s, 1, Len(s)) = s
  BY SubSeqFull
<1>4. SubSeq(s, 1, k) \in Seq(S) /\ SubSeq(s, k + 1, Len(s)) \in Seq(S)
  BY <1>1
<1>5. PICK u \in Seq(S), v \in Seq(S) : u = SubSeq(s, 1, k) /\ v = SubSeq(s, k + 1, Len(s))
  BY <1>4
<1>6. (b \o u) \o v = b \o (u \o v)
  OBVIOUS
<1> QED BY <1>2, <1>3, <1>5, <1>6

\* The kinds of a sequence are those of its parts.
LEMMA KindsSplit ==
    ASSUME NEW S, NEW b \in Seq(S), NEW s \in Seq(S)
    PROVE  /\ s = <<>> => LastKind(b \o s) = LastKind(b)
           /\ s # <<>> => LastKind(b \o s) = LastKind(s)
           /\ LastKind(b) \in KindsOf(b \o s) \cup {"none"}
<1>1. b \o <<>> = b
  BY ConcatEmptySeq
<1>2. ASSUME s # <<>> PROVE LastKind(b \o s) = LastKind(s)
  <2>1. Len(s) \in Nat \ {0} /\ Len(b) \in Nat
    BY <1>2, EmptySeq, LenProperties
  <2>2. Len(b \o s) = Len(b) + Len(s) /\ b \o s # <<>>
    BY <2>1, ConcatProperties, EmptySeq
  <2>3. (b \o s)[Len(b) + Len(s)] = s[Len(s)]
    <3>1. Len(b) + Len(s) \in 1 .. Len(b) + Len(s) /\ ~(Len(b) + Len(s) <= Len(b))
          /\ Len(b) + Len(s) - Len(b) = Len(s)
      BY <2>1
    <3> QED BY <3>1, ConcatProperties
  <2> QED BY <1>2, <2>2, <2>3 DEF LastKind
<1>3. LastKind(b) \in KindsOf(b) \cup {"none"}
  BY KindsCut
<1>4. KindsOf(b \o s) = KindsOf(b) \cup KindsOf(s)
  BY KindsJoined
<1> QED BY <1>1, <1>2, <1>3, <1>4

\* One more line.
LEMMA LastAppended ==
    ASSUME NEW S, NEW s \in Seq(S), NEW x \in S
    PROVE  LastKind(s \o <<x>>) = x.kind /\ s \o <<x>> # <<>>
<1>1. /\ Append(s, x) # <<>> /\ Len(Append(s, x)) = Len(s) + 1
      /\ Append(s, x)[Len(s) + 1] = x
  BY AppendProperties
<1>2. Append(s, x) = s \o <<x>>
  BY AppendIsConcat
<1> QED BY <1>1, <1>2 DEF LastKind

NoPager(s) == KindsOf(s) \cap Pagers = {}
\* A buffer that ends with the only pager of the output: without it, the output has
\* lost its pager.
LEMMA PagerRemoved ==
    ASSUME NEW S, NEW b \in Seq(S), NEW s \in Seq(S), NEW a \in Seq(S), NEW q \in Seq(S),
           NEW e \in Seq(S), NEW t \in Seq(S), Len(q) = 1, b \o s = a \o t, t = q \o e,
           LastKind(b) \in Pagers,
           NoPager(a), NoPager(e)
    PROVE  SubSeq(b, 1, Len(b) - 1) = a /\ s = e
<1>1. b # <<>> /\ b[Len(b)].kind \in Pagers
  BY DEF LastKind, Pagers
<1>2. Len(b) \in Nat \ {0} /\ Len(s) \in Nat /\ Len(a) \in Nat /\ Len(e) \in Nat
  BY <1>1, EmptySeq, LenProperties
<1>3. \A i \in 1 .. Len(a) : a[i].kind \notin Pagers
  BY DEF NoPager, KindsOf
<1>4. \A i \in 1 .. Len(e) : e[i].kind \notin Pagers
  BY DEF NoPager, KindsOf
<1>5. /\ Len(t) = 1 + Len(e)
      /\ \A i \in 1 .. Len(e) : t[1 + i] = e[i]
  <2>3. /\ q \o e \in Seq(S) /\ Len(q \o e) = Len(q) + Len(e)
        /\ \A i \in 1 .. Len(q) + Len(e) : (q \o e)[i] = IF i <= Len(q) THEN q[i] ELSE e[i - Len(q)]
    BY ConcatProperties
  <2>4. 1 \in 1 .. 1 + Len(e) /\ \A i \in 1 .. Len(e) : 1 + i \in 1 .. 1 + Len(e) /\ ~(1 + i <= 1)
                                                       /\ (1 + i) - 1 = i
    BY <1>2
  <2> QED BY <2>3, <2>4
<1>6. /\ Len(b) + Len(s) = Len(a) + Len(t)
      /\ \A i \in 1 .. Len(b) + Len(s) :
            (b \o s)[i] = IF i <= Len(b) THEN b[i] ELSE s[i - Len(b)]
      /\ \A i \in 1 .. Len(a) + Len(t) :
            (a \o t)[i] = IF i <= Len(a) THEN a[i] ELSE t[i - Len(a)]
      /\ b \o s = a \o t
  <2>1. Len(b \o s) = Len(b) + Len(s) /\ Len(a \o t) = Len(a) + Len(t)
    BY ConcatProperties
  <2> QED BY <1>5, <2>1, ConcatProperties
<1>7. Len(b) = Len(a) + 1
  <2>1. Len(b) \in 1 .. Len(b) + Len(s) /\ Len(b) \in 1 .. Len(a) + Len(t)
    BY <1>2, <1>5, <1>6
  <2>2. b[Len(b)] = IF Len(b) <= Len(a) THEN a[Len(b)] ELSE t[Len(b) - Len(a)]
    BY <1>6, <2>1
  <2>3. ~(Len(b) <= Len(a))
    BY <1>1, <1>2, <1>3, <2>2
  <2>4. ASSUME Len(b) - Len(a) # 1 PROVE FALSE
    <3>1. Len(b) - Len(a) - 1 \in 1 .. Len(e) /\ Len(b) - Len(a) = 1 + (Len(b) - Len(a) - 1)
      BY <1>2, <1>5, <2>1, <2>3, <2>4
    <3>2. b[Len(b)] = e[Len(b) - Len(a) - 1]
      BY <1>5, <2>2, <2>3, <3>1
    <3> QED BY <1>1, <1>4, <3>1, <3>2
  <2> QED BY <1>2, <2>4
<1>8. s = e
  <2>1. Len(s) = Len(e)
    BY <1>2, <1>5, <1>6, <1>7
  <2>2. ASSUME NEW i \in 1 .. Len(s) PROVE s[i] = e[i]
    <3>1. /\ Len(b) + i \in 1 .. Len(b) + Len(s) /\ ~(Len(b) + i <= Len(b))
          /\ Len(b) + i \in 1 .. Len(a) + Len(t) /\ ~(Len(b) + i <= Len(a))
          /\ (Len(b) + i) - Len(b) = i /\ (Len(b) + i) - Len(a) = 1 + i
      BY <1>2, <1>6, <1>7
    <3>2. (b \o s)[Len(b) + i] = s[i] /\ (a \o t)[Len(b) + i] = t[1 + i]
      BY <1>6, <3>1
    <3> QED BY <1>5, <1>6, <2>1, <3>2
  <2> QED BY <2>1, <2>2, SeqEqual
<1>9. SubSeq(b, 1, Len(b) - 1) = a
  <2> DEFINE f == SubSeq(b, 1, Len(b) - 1)
  <2>1. f \in Seq(S) /\ Len(f) = Len(a) /\ \A i \in 1 .. Len(a) : f[i] = b[i]
    BY <1>2, <1>7
  <2> HIDE DEF f
  <2>2. ASSUME NEW i \in 1 .. Len(a) PROVE f[i] = a[i]
    <3>1. i \in 1 .. Len(b) + Len(s) /\ i <= Len(b) /\ i \in 1 .. Len(a) + Len(t) /\ i <= Len(a)
      BY <1>2, <1>6, <1>7
    <3> QED BY <1>6, <2>1, <3>1
  <2>3. f = a
    BY <2>1, <2>2, SeqEqual
  <2> QED BY <2>3 DEF f
<1> QED BY <1>8, <1>9

-----------------------------------------------------------------------------
(***************************************************************************)
(* The invariant.                                                          *)
(***************************************************************************)
\* The condition of CapturedIsOwnAnswer.
Undisturbed == /\ faults \cap {"pause", "stall"} = {}
               /\ \A i \in Steps : script[i].wait
Eof == Item("eof", 0)
\* The lines a device prints in answer to a command.
Answers == [kind : {"line", "mark", "ask", "prompt"}, cmd : Nat]

\* The commands that have been typed in this attempt are those up to Begun.
Begun == IF pc \in {"command"} \cup Closing THEN step ELSE step - 1
\* The commands a device still has to do with.
CommandsOf(s) == {s[i].cmd : i \in {j \in 1 .. Len(s) : s[j].kind = "command"}}
Busy == {"answering", "paging", "asking"}
Live == CommandsOf(typed) \cup (IF shell.state \in Busy THEN {shell.cmd} ELSE {})

\* A stream that has come to its end.
Ended(s) == /\ s # <<>> /\ s[Len(s)] = Eof
            /\ \A i \in 1 .. Len(s) - 1 : s[i].kind # "eof"

\* A device is there while the session is connected, and its stream ends where it
\* ends the session.
EndInv ==
    /\ pc \in {"login", "prompt", "step", "command"} => shell.state # "off"
    /\ pc = "login" => proto # "ssh"
    /\ pc = "shell" => (shell.state = "off" <=> proto = "ssh")
    /\ pc \in Connecting => shell.state = "off"
    /\ pc \notin Connected => /\ shell.state \in {"off", "gone"}
                              /\ typed = <<>> /\ stream = <<>>
    /\ pc \in Connected => IF shell.state = "gone" THEN Ended(stream)
                           ELSE "eof" \notin KindsOf(stream)

\* A read runs while the session awaits a prompt; one that returns the output of a
\* command does not return in front of a pager.
ReadInv ==
    /\ pc \notin {"login", "prompt", "command"} => rd.pc = "off"
    /\ pc = "login" => rd.pc = "login"
    /\ pc \in {"prompt", "command"} => /\ rd.pc \in {"reading", "confirming", "done"}
                                       /\ rd.rules <=> pc = "command"
    /\ pc = "command" /\ rd.pc = "done" /\ rd.got = "text" => LastKind(rd.buf) \notin Pagers

\* Nothing is left of an attempt that failed; nothing was printed for a command that
\* has not begun, nor captured of one that has not ended.
RunInv ==
    /\ sent \in [Steps -> Seq(Answers)]
    /\ \A i \in Steps : /\ i > Begun => sent[i] = <<>>
                        /\ i >= step => captured[i] = <<>>
    /\ pc \in Closing \ {"closeShell", "done"} /\ err # "none"
          => captured = NoCapture /\ sent = NothingSent

\* The device has to do only with commands that have begun.
LiveInv == /\ \A c \in Live : c \in Steps /\ c <= Begun
           /\ shell.state = "gone" => CommandsOf(typed) = {}

\* The rest is about fetches without a pause and with a prompt after every command,
\* as long as no command after the backup has failed.
Clean == \A j \in 1 .. step - 1 : script[j].phase # "post"
\* What was captured is what was printed, and the device does not go on printing it.
OwnInv == \A i \in Steps : /\ i \in Live => captured[i] = <<>>
                           /\ captured[i] # <<>> => captured[i] = Trimmed(sent[i], PromptLike)

\* After a prompt the device is silent, or gone.
Settled == \/ shell.state = "waiting" /\ typed = <<>> /\ stream = <<>>
           \/ shell.state = "gone" /\ AtEof
Told == pc \in {"prompt", "command"} /\ rd.pc = "done" /\ rd.got = "text"
SettledInv == Clean /\ (pc = "step" \/ Told) => Settled

\* A device that asks or pages has said so last, unless its pager was answered.
Out == rd.buf \o stream
AttentionInv == pc = "command" /\ Clean =>
    /\ shell.state = "asking" => LastKind(Out) = "ask"
    /\ shell.state = "paging" => typed # <<>> \/ LastKind(Out) \in Pagers

\* What a plain command's output consists of: the echo, the answer, and what follows
\* it (a pager that is not answered, the end of the stream).
Answered(rest) == Out = <<Item("echo", step)>> \o sent[step] \o rest
Pages == {<<Item(k, step)>> : k \in Pagers}
PageEnds == {<<Item(k, step), Eof>> : k \in Pagers}
\* The command has not been taken, or was typed at a device that had gone.
Untaken == /\ rd.buf = <<>> /\ sent[step] = <<>>
           /\ \/ /\ shell.state = "waiting" /\ typed = <<Input("command", step)>>
                 /\ stream = <<>>
              \/ shell.state = "gone" /\ stream = <<Eof>>
\* The reader answers a pager whose line it cannot remove, for ever.
Paged == rd.pc = "reading" /\ LastKind(rd.buf) = "pagerLine"
\* The device answers it, or has done so.
AnswerOf ==
    \/ shell.state = "waiting" /\ typed = <<>> /\ Answered(<<>>)
    \/ shell.state = "answering" /\ shell.cmd = step /\ typed = <<>> /\ Answered(<<>>)
    \/ shell.state = "asking" /\ shell.cmd = step /\ typed = <<>> /\ Answered(<<>>)
    \/ /\ shell.state = "paging" /\ shell.cmd = step /\ typed = <<>>
       /\ \E rest \in Pages : Answered(rest)
    \/ /\ shell.state = "paging" /\ shell.cmd = step /\ typed = <<Input("key", 0)>>
       /\ Answered(<<>>)
    \/ shell.state = "gone" /\ \E rest \in {<<Eof>>} \cup PageEnds : Answered(rest)
AnswerInv == pc = "command" /\ Clean /\ Current.then = "none" =>
    Untaken \/ Paged \/ AnswerOf

CInv == /\ EndInv /\ ReadInv /\ RunInv /\ LiveInv
        /\ Undisturbed => OwnInv /\ SettledInv /\ AttentionInv /\ AnswerInv

-----------------------------------------------------------------------------
(***************************************************************************)
(* What is captured of a whole answer.                                     *)
(***************************************************************************)
\* Trimming adds nothing, and keeps a sequence that has nothing to trim.
LEMMA TrimmedKinds ==
    ASSUME NEW S, NEW s \in Seq(S), NEW K
    PROVE  /\ KindsOf(Trimmed(s, K)) \subseteq KindsOf(s)
           /\ KindsOf(s) \cap K = {} => Trimmed(s, K) = s
<1> DEFINE kept == {i \in 1 .. Len(s) : s[i].kind \notin K}
           last == CHOOSE i \in kept : \A j \in kept : j <= i
<1>1. Len(s) \in Nat /\ kept \in SUBSET (1 .. Len(s))
  OBVIOUS
<1>2. CASE kept = {}
  <2>1. Trimmed(s, K) = SubSeq(s, 1, 0)
    BY <1>2 DEF Trimmed
  <2>2. SubSeq(s, 1, 0) = <<>> /\ KindsOf(<<>>) = {}
    BY SubSeqEmpty DEF KindsOf
  <2>3. ASSUME KindsOf(s) \cap K = {} PROVE s = <<>>
    <3>1. \A i \in 1 .. Len(s) : s[i].kind \in KindsOf(s) /\ s[i].kind \in K
      BY <1>2 DEF KindsOf
    <3>2. 1 \notin 1 .. Len(s)
      BY <2>3, <3>1
    <3> QED BY <1>1, <3>2, EmptySeq
  <2> QED BY <2>1, <2>2, <2>3
<1>3. CASE kept # {}
  <2>1. \E i \in kept : \A j \in kept : j <= i
    <3> HIDE DEF kept
    <3> QED BY <1>1, <1>3, FirstAndLast
  <2>2. last \in kept /\ \A j \in kept : j <= last
    BY <2>1
  <2>3. Trimmed(s, K) = SubSeq(s, 1, last)
    BY <1>3 DEF Trimmed
  <2> HIDE DEF last
  <2>4. last \in 1 .. Len(s)
    BY <1>1, <2>2
  <2>5. KindsOf(SubSeq(s, 1, last)) \subseteq KindsOf(s)
    BY <2>4, KindsCut
  <2>6. ASSUME KindsOf(s) \cap K = {} PROVE SubSeq(s, 1, last) = s
    <3>1. \A i \in 1 .. Len(s) : s[i].kind \notin K
      BY <2>6 DEF KindsOf
    <3>2. Len(s) \in kept
      BY <1>1, <2>4, <3>1
    <3>3. last = Len(s)
      BY <1>1, <2>2, <2>4, <3>2
    <3> QED BY <3>3, SubSeqFull
  <2> QED BY <2>3, <2>5, <2>6
<1> QED BY <1>2, <1>3

\* The echo is cut off a whole answer, the prompt and what looks like one at its end.
LEMMA SanitizedAnswer ==
    ASSUME NEW c \in Nat, NEW s \in Seq(Answers)
    PROVE  Sanitized(<<Item("echo", c)>> \o s, c) = Trimmed(s, PromptLike)
<1> DEFINE b == <<Item("echo", c)>> \o s
           echoes == {i \in 1 .. Len(b) : i <= EchoLines /\ b[i] = Item("echo", c)}
           first == CHOOSE i \in echoes : \A j \in echoes : i <= j
<1>1. s \in Seq(Items) /\ Len(s) \in Nat
  <2>1. Answers \subseteq Items
    BY DEF Answers, Items, LineKinds
  <2> QED BY <2>1, SeqMonotonic, LenProperties
<1>2. /\ b \in Seq(Items) /\ Len(b) = 1 + Len(s) /\ b[1] = Item("echo", c)
      /\ \A i \in 1 .. Len(s) : b[1 + i] = s[i]
  <2>1. PICK e \in Items : e = Item("echo", c)
    BY ItemTypes DEF LineKinds
  <2>2. /\ <<e>> \o s \in Seq(Items) /\ Len(<<e>> \o s) = 1 + Len(s) /\ (<<e>> \o s)[1] = e
        /\ \A i \in 1 .. Len(s) : (<<e>> \o s)[1 + i] = s[i]
    BY <1>1
  <2> QED BY <2>1, <2>2
<1> HIDE DEF b
<1>3. \A i \in 1 .. Len(s) : s[i] # Item("echo", c)
  BY DEF Answers, Item
<1>4. echoes = {1}
  <2>1. 1 \in echoes
    BY <1>1, <1>2 DEF EchoLines
  <2>2. ASSUME NEW i \in echoes, i # 1 PROVE FALSE
    <3>1. i - 1 \in 1 .. Len(s) /\ i = 1 + (i - 1)
      BY <1>1, <1>2, <2>2
    <3> QED BY <1>2, <1>3, <3>1
  <2> QED BY <2>1, <2>2
<1>5. first = 1
  <2> HIDE DEF echoes
  <2>1. \E i \in echoes : \A j \in echoes : i <= j
    BY <1>4
  <2> QED BY <1>4, <2>1
<1>6. AfterEcho(b, c) = SubSeq(b, first + 1, Len(b))
  BY <1>4 DEF AfterEcho
<1>7. SubSeq(b, 2, Len(b)) = s
  <2> DEFINE f == SubSeq(b, 2, Len(b))
  <2>1. f \in Seq(Items) /\ Len(f) = Len(s) /\ \A i \in 1 .. Len(s) : f[i] = b[1 + i]
    BY <1>1, <1>2
  <2> HIDE DEF f
  <2>2. f = s
    BY <1>1, <1>2, <2>1, SeqEqual
  <2> QED BY <2>2 DEF f
<1>8. AfterEcho(b, c) = s
  <2> HIDE DEF first
  <2>1. AfterEcho(b, c) = SubSeq(b, 2, Len(b))
    BY <1>5, <1>6, 1 + 1 = 2
  <2> QED BY <1>7, <2>1
<1>9. PICK u \in Seq(Answers) : u = Trimmed(s, PromptLike)
  BY TrimmedType
<1>10. KindsOf(u) \cap {"echo"} = {}
  <2>1. \A i \in 1 .. Len(u) : u[i] \in Answers
    BY ElementOfSeq
  <2>2. \A x \in Answers : x.kind # "echo"
    BY DEF Answers
  <2> QED BY <2>1, <2>2 DEF KindsOf
<1>11. Trimmed(u, {"echo"}) = u
  BY <1>10, TrimmedKinds
<1> QED BY <1>8, <1>9, <1>11 DEF Sanitized, b

-----------------------------------------------------------------------------
(***************************************************************************)
(* What a step of the device and a step of the reader change.              *)
(***************************************************************************)
\* The commands in sequences that are cut and joined.
LEMMA CommandsCut ==
    ASSUME NEW s \in Seq(Inputs)
    PROVE  /\ CommandsOf(<<>>) = {}
           /\ s # <<>> => /\ CommandsOf(Tail(s)) \subseteq CommandsOf(s)
                          /\ Head(s).kind = "command" => Head(s).cmd \in CommandsOf(s)
<1>1. CommandsOf(<<>>) = {}
  BY DEF CommandsOf
<1>2. ASSUME s # <<>>
      PROVE  /\ CommandsOf(Tail(s)) \subseteq CommandsOf(s)
             /\ Head(s).kind = "command" => Head(s).cmd \in CommandsOf(s)
  <2>1. /\ Len(s) \in Nat \ {0} /\ Head(s) = s[1] /\ Len(Tail(s)) = Len(s) - 1
        /\ \A i \in 1 .. Len(s) - 1 : Tail(s)[i] = s[i + 1]
    BY <1>2
  <2>2. 1 \in 1 .. Len(s) /\ \A i \in 1 .. Len(s) - 1 : i + 1 \in 1 .. Len(s)
    BY <2>1
  <2> QED BY <2>1, <2>2 DEF CommandsOf
<1> QED BY <1>1, <1>2

LEMMA CommandsJoined ==
    ASSUME NEW s \in Seq(Inputs), NEW t \in Seq(Inputs)
    PROVE  CommandsOf(s \o t) = CommandsOf(s) \cup CommandsOf(t)
<1>1. Len(s) \in Nat /\ Len(t) \in Nat /\ Len(s \o t) = Len(s) + Len(t)
  BY ConcatProperties, LenProperties
<1>2. /\ \A i \in 1 .. Len(s) : i \in 1 .. Len(s \o t) /\ (s \o t)[i] = s[i]
      /\ \A i \in 1 .. Len(t) : Len(s) + i \in 1 .. Len(s \o t) /\ (s \o t)[Len(s) + i] = t[i]
  BY <1>1
<1>3. \A i \in 1 .. Len(s \o t) : \/ i \in 1 .. Len(s)
                                  \/ i - Len(s) \in 1 .. Len(t) /\ i = Len(s) + (i - Len(s))
  BY <1>1
<1>4. CommandsOf(s \o t) \subseteq CommandsOf(s) \cup CommandsOf(t)
  BY <1>2, <1>3 DEF CommandsOf
<1>5. CommandsOf(s) \cup CommandsOf(t) \subseteq CommandsOf(s \o t)
  BY <1>2 DEF CommandsOf
<1> QED BY <1>4, <1>5

\* One input.
LEMMA CommandsTyped ==
    ASSUME NEW k \in {"command", "enter", "key", "text", "user", "password"}, NEW c \in Nat
    PROVE  /\ <<Input(k, c)>> \in Seq(Inputs)
           /\ CommandsOf(<<Input(k, c)>>) = IF k = "command" THEN {c} ELSE {}
<1>1. PICK x \in Inputs : x = Input(k, c)
  BY ItemTypes
<1>2. x.kind = k /\ x.cmd = c
  BY <1>1 DEF Input
<1>3. Len(<<x>>) = 1 /\ <<x>>[1] = x /\ <<x>> \in Seq(Inputs)
  OBVIOUS
<1>4. CommandsOf(<<x>>) = IF k = "command" THEN {c} ELSE {}
  BY <1>2, <1>3 DEF CommandsOf
<1> QED BY <1>1, <1>3, <1>4

\* A step of the device: it takes an input, prints a line, answers the command it has
\* taken.
LEMMA DeviceStep ==
    ASSUME DataInv, Device
    PROVE  /\ shell.state \notin {"off", "gone"} /\ shell'.state \notin {"off", "gone"}
           /\ \/ stream' = stream
              \/ \E x \in Items : x.kind # "eof" /\ stream' = stream \o <<x>>
           /\ CommandsOf(typed') \subseteq CommandsOf(typed)
           /\ shell'.state \in Busy => \/ shell.state \in Busy /\ shell'.cmd = shell.cmd
                                       \/ shell'.cmd \in CommandsOf(typed)
           /\ \/ sent' = sent
              \/ /\ shell.state = "answering"
                 /\ \E x \in Answers : sent' = [sent EXCEPT ![shell.cmd] = Append(@, x)]
           /\ UNCHANGED <<faults, rd>>
<1> USE DEF Busy
<1>1. shell \in Shells /\ stream \in Seq(Items) /\ typed \in Seq(Inputs) /\ shell.cmd \in Nat
  BY DEF DataInv, DeviceTypes, Shells
<1>2. UNCHANGED <<faults, rd>>
  BY DEF Device, DeviceTakes, PagerTakes, DeviceGreets, LoginTakes, DeviceAnswers
<1>3. \A k \in LineKinds : \A c \in Nat : Item(k, c) \in Items /\ Item(k, c).kind = k
  BY ItemTypes DEF Item
<1>4. CASE DeviceTakes
  <2>1. /\ shell.state \in {"waiting", "asking"} /\ typed # <<>> /\ typed' = Tail(typed)
        /\ sent' = sent
    BY <1>4 DEF DeviceTakes
  <2>2. /\ CommandsOf(typed') \subseteq CommandsOf(typed)
        /\ Head(typed).kind = "command" => Head(typed).cmd \in CommandsOf(typed)
        /\ Head(typed).cmd \in Nat
    <3>1. Head(typed) \in Inputs
      BY <1>1, <2>1
    <3>2. CommandsOf(Tail(typed)) \subseteq CommandsOf(typed)
      BY <1>1, <2>1, CommandsCut
    <3>3. Head(typed).kind = "command" => Head(typed).cmd \in CommandsOf(typed)
      BY <1>1, <2>1, CommandsCut
    <3> QED BY <2>1, <3>1, <3>2, <3>3 DEF Inputs
  <2>3. \/ UNCHANGED <<shell, stream>>
        \/ /\ shell' = [OffShell EXCEPT !.state = "waiting"]
           /\ stream' = stream \o <<Item("prompt", 0)>>
        \/ /\ shell' = [OffShell EXCEPT !.state = "answering", !.cmd = Head(typed).cmd]
           /\ Head(typed).kind = "command" /\ stream' = stream \o <<Item("echo", Head(typed).cmd)>>
    BY <1>4 DEF DeviceTakes, Say
  <2> QED BY <1>2, <1>3, <2>1, <2>2, <2>3 DEF OffShell, LineKinds
<1>5. CASE PagerTakes
  <2>1. /\ shell.state = "paging" /\ typed # <<>> /\ typed' = Tail(typed)
        /\ shell' = [shell EXCEPT !.state = "answering", !.paged = TRUE]
        /\ UNCHANGED <<stream, sent>>
    BY <1>5 DEF PagerTakes
  <2>2. shell'.state = "answering" /\ shell'.cmd = shell.cmd
    BY <1>1, <2>1 DEF Shells
  <2>3. CommandsOf(Tail(typed)) \subseteq CommandsOf(typed)
    BY <1>1, <2>1, CommandsCut
  <2> QED BY <1>2, <2>1, <2>2, <2>3
<1>6. CASE LoginTakes
  <2>1. /\ shell.state \in {"user", "password"} /\ typed # <<>> /\ typed' = Tail(typed)
        /\ sent' = sent
    BY <1>6 DEF LoginTakes
  <2>2. \E st \in {"user", "password", "waiting"} : shell' = [shell EXCEPT !.state = st]
    BY <1>6 DEF LoginTakes
  <2>3. \E k \in {"askUser", "askPassword", "prompt"} : stream' = stream \o <<Item(k, 0)>>
    BY <1>6 DEF LoginTakes, Say
  <2>4. shell'.state \in {"user", "password", "waiting"}
    BY <1>1, <2>2 DEF Shells
  <2>5. \E x \in Items : x.kind # "eof" /\ stream' = stream \o <<x>>
    BY <1>3, <2>3 DEF LineKinds
  <2>6. CommandsOf(Tail(typed)) \subseteq CommandsOf(typed)
    BY <1>1, <2>1, CommandsCut
  <2> QED BY <1>2, <2>1, <2>4, <2>5, <2>6
<1>7. CASE DeviceAnswers
  <2>1. shell.state = "answering" /\ typed' = typed
    BY <1>7 DEF DeviceAnswers
  <2>2. \/ shell' = [shell EXCEPT !.lines = @ + 1, !.paged = FALSE]
        \/ shell' = [shell EXCEPT !.state = "paging"]
        \/ shell' = [shell EXCEPT !.state = "asking"]
        \/ shell' = [OffShell EXCEPT !.state = "waiting"]
    BY <1>7 DEF DeviceAnswers
  <2>3. /\ shell'.state \notin {"off", "gone"}
        /\ shell'.state \in Busy => shell'.cmd = shell.cmd
    BY <1>1, <2>1, <2>2 DEF Shells, OffShell
  <2>4. \E k \in {"line", "mark", "pager", "pagerLine", "ask", "prompt"} : \E c \in Nat :
            stream' = stream \o <<Item(k, c)>>
    BY <1>1, <1>7 DEF DeviceAnswers, Say
  <2>5. \E x \in Items : x.kind # "eof" /\ stream' = stream \o <<x>>
    BY <1>3, <2>4 DEF LineKinds
  <2>6. \A k \in {"line", "mark", "ask", "prompt"} : \A c \in Nat : Item(k, c) \in Answers
    BY DEF Item, Answers
  <2>7. \/ sent' = sent
        \/ \E x \in Answers : sent' = [sent EXCEPT ![shell.cmd] = Append(@, x)]
    BY <1>1, <1>7, <2>6 DEF DeviceAnswers
  <2> QED BY <1>2, <2>1, <2>3, <2>5, <2>7
<1>8. CASE DeviceGreets
  <2>1. shell.state = "greeting" /\ typed' = typed /\ sent' = sent
    BY <1>8 DEF DeviceGreets
  <2>2. \/ shell' = [shell EXCEPT !.lines = @ + 1]
        \/ shell' = [OffShell EXCEPT !.state = "user"]
    BY <1>8 DEF DeviceGreets
  <2>3. shell'.state \in {"greeting", "user"}
    BY <1>1, <2>1, <2>2 DEF Shells, OffShell
  <2>4. \E k \in {"mark", "askUser"} : stream' = stream \o <<Item(k, 0)>>
    BY <1>8 DEF DeviceGreets, Say
  <2>5. \E x \in Items : x.kind # "eof" /\ stream' = stream \o <<x>>
    BY <1>3, <2>4 DEF LineKinds
  <2> QED BY <1>2, <2>1, <2>3, <2>5
<1> QED BY <1>4, <1>5, <1>6, <1>7, <1>8 DEF Device

\* A step of the reader: it moves a chunk into its buffer, answers a pager, or decides.
LEMMA ReaderStep ==
    ASSUME DataInv, ReadInv, Reader \/ ReadLost
    PROVE  /\ pc \in {"prompt", "command"} /\ rd.pc \in {"reading", "confirming"}
           /\ UNCHANGED <<faults, shell, sent>>
           /\ rd'.rules = rd.rules /\ rd'.pc \in {"reading", "confirming", "done"}
           /\ \/ UNCHANGED <<typed, stream>> /\ rd'.buf = rd.buf
              \/ /\ typed' = typed
                 /\ \E k \in ChunkSizes : stream' = Rest(k) /\ rd'.buf = rd.buf \o Chunk(k)
              \/ AnswerPager
           /\ CommandsOf(typed') = CommandsOf(typed)
           /\ rd'.pc = "done" /\ rd'.got = "text" => ConfirmPrompt \/ ReadEof
<1>1. rd \in Reads /\ typed \in Seq(Inputs)
  BY DEF DataInv, DeviceTypes
<1>2. rd.pc \in {"reading", "confirming"}
  BY DEF Reader, ReadLost, ConfirmPrompt, ConfirmMore, ConfirmEnds, AnswerPager, ReadChunk,
         ReadEof, ReadTimeout, AtPrompt, AtPager, AwaitsOutput
<1>3. pc \in {"prompt", "command"}
  BY <1>2 DEF ReadInv
<1>4. UNCHANGED <<faults, shell, sent>>
  BY DEF Reader, ReadLost, ConfirmPrompt, ConfirmMore, ConfirmEnds, AnswerPager, ReadChunk,
         ReadEof, ReadTimeout, deviceVars
<1>5. CASE ConfirmPrompt \/ ReadEof
  BY <1>1, <1>2, <1>3, <1>4, <1>5 DEF ConfirmPrompt, ReadEof, Return, Reads, deviceVars
<1>6. CASE ReadTimeout \/ ReadLost \/ ConfirmEnds
  <2>1. \/ rd' = [rd EXCEPT !.pc = "done", !.got = "timeout"]
        \/ rd' = [rd EXCEPT !.pc = "done", !.got = "lost"]
        \/ rd' = [rd EXCEPT !.pc = "reading"]
    BY <1>6 DEF ReadTimeout, ReadLost, ConfirmEnds, Return
  <2>2. UNCHANGED <<typed, stream>>
    BY <1>6 DEF ReadTimeout, ReadLost, ConfirmEnds, deviceVars
  <2>3. /\ rd'.buf = rd.buf /\ rd'.rules = rd.rules
        /\ \/ rd'.pc = "done" /\ rd'.got \in {"timeout", "lost"}
           \/ rd'.pc = "reading"
    BY <1>1, <2>1 DEF Reads
  <2> QED BY <1>2, <1>3, <1>4, <2>2, <2>3
<1>7. CASE ConfirmMore \/ ReadChunk
  <2>1. PICK k \in ChunkSizes :
          /\ stream' = Rest(k)
          /\ \/ rd' = [rd EXCEPT !.pc = "confirming", !.buf = @ \o Chunk(k)]
             \/ rd' = [rd EXCEPT !.buf = @ \o Chunk(k)]
    BY <1>7 DEF ConfirmMore, ReadChunk
  <2>2. typed' = typed
    BY <1>7 DEF ConfirmMore, ReadChunk
  <2>3. /\ rd'.buf = rd.buf \o Chunk(k) /\ rd'.rules = rd.rules
        /\ rd'.pc \in {"confirming", rd.pc}
    BY <1>1, <2>1 DEF Reads
  <2> QED BY <1>2, <1>3, <1>4, <2>1, <2>2, <2>3
<1>8. CASE AnswerPager
  <2>1. typed' = Append(typed, Input("key", 0)) /\ rd.pc = "reading"
    BY <1>8 DEF AnswerPager, AtPager
  <2>2. CommandsOf(typed') = CommandsOf(typed)
    <3>1. PICK x \in Inputs : x = Input("key", 0) /\ CommandsOf(<<x>>) = {}
      BY ItemTypes, CommandsTyped
    <3>2. Append(typed, x) = typed \o <<x>> /\ <<x>> \in Seq(Inputs)
      BY <1>1, AppendIsConcat
    <3>3. CommandsOf(typed \o <<x>>) = CommandsOf(typed) \cup CommandsOf(<<x>>)
      BY <1>1, <3>2, CommandsJoined
    <3> QED BY <2>1, <3>1, <3>2, <3>3
  <2>3. rd'.rules = rd.rules /\ rd'.pc = rd.pc
    BY <1>1, <1>8 DEF AnswerPager, Reads
  <2> QED BY <1>2, <1>3, <1>4, <1>8, <2>1, <2>2, <2>3
<1> QED BY <1>5, <1>6, <1>7, <1>8 DEF Reader

-----------------------------------------------------------------------------
(***************************************************************************)
(* The end of the stream.                                                  *)
(***************************************************************************)
LEMMA EofKind == Eof.kind = "eof" /\ Eof \in Items
BY ItemTypes DEF Eof, Item, LineKinds

\* Only the end of the stream is added to a stream that has not ended, and it is never
\* read.
LEMMA EndAdded ==
    ASSUME NEW s \in Seq(Items), "eof" \notin KindsOf(s)
    PROVE  Ended(s \o <<Eof>>)
<1>1. PICK e \in Items : e = Eof
  BY EofKind
<1>2. /\ Append(s, e) # <<>> /\ Len(Append(s, e)) = Len(s) + 1
      /\ \A i \in 1 .. Len(s) : Append(s, e)[i] = s[i]
      /\ Append(s, e)[Len(s) + 1] = e
  BY AppendProperties
<1>3. Append(s, e) = s \o <<e>>
  BY AppendIsConcat
<1>4. Len(s) \in Nat /\ \A i \in 1 .. Len(s) : s[i].kind # "eof"
  BY LenProperties DEF KindsOf
<1> QED BY <1>1, <1>2, <1>3, <1>4 DEF Ended

LEMMA EndStays ==
    ASSUME NEW s \in Seq(Items), NEW k \in 1 .. Len(s),
           \A i \in 1 .. k : s[i].kind # "eof", Ended(s)
    PROVE  Ended(SubSeq(s, k + 1, Len(s)))
<1>1. Len(s) \in Nat /\ Eof.kind = "eof" /\ k # Len(s)
  BY EofKind, LenProperties DEF Ended
<1> DEFINE r == SubSeq(s, k + 1, Len(s))
<1>2. /\ r \in Seq(Items) /\ Len(r) = Len(s) - k
      /\ \A i \in 1 .. Len(s) - k : r[i] = s[i + k]
  BY <1>1
<1> HIDE DEF r
<1>3. r # <<>> /\ Len(r) \in 1 .. Len(s) - k /\ Len(r) + k = Len(s)
  BY <1>1, <1>2, EmptySeq
<1>4. \A i \in 1 .. Len(r) - 1 : i \in 1 .. Len(s) - k /\ i + k \in 1 .. Len(s) - 1
  BY <1>1, <1>2
<1>5. Ended(r)
  BY <1>2, <1>3, <1>4 DEF Ended
<1> QED BY <1>5 DEF r

\* Where it is next, nothing else is left.
LEMMA EndAlone ==
    ASSUME NEW s \in Seq(Items), Ended(s), Head(s).kind = "eof"
    PROVE  s = <<Eof>>
<1>1. Len(s) \in Nat \ {0} /\ Head(s) = s[1]
  BY EmptySeq DEF Ended
<1>2. Len(s) = 1
  <2>1. s[1].kind = "eof" /\ \A i \in 1 .. Len(s) - 1 : s[i].kind # "eof"
    BY <1>1 DEF Ended
  <2>2. 1 \notin 1 .. Len(s) - 1
    BY <2>1
  <2>3. PICK n \in Nat \ {0} : n = Len(s)
    BY <1>1
  <2>4. ~(1 <= n - 1)
    BY <2>2, <2>3
  <2> QED BY <2>3, <2>4
<1>3. s[1] = Eof
  BY <1>2 DEF Ended
<1>4. PICK e \in Items : e = Eof
  BY EofKind
<1>5. <<e>> \in Seq(Items) /\ Len(<<e>>) = 1 /\ <<e>>[1] = e
  OBVIOUS
<1>6. s = <<e>>
  BY <1>2, <1>3, <1>4, <1>5, SeqEqual
<1> QED BY <1>4, <1>6

\* What is left of a stream behind a chunk.
LEMMA RestEnds ==
    ASSUME stream \in Seq(Items), NEW k \in ChunkSizes
    PROVE  /\ Ended(stream) => Ended(Rest(k))
           /\ "eof" \notin KindsOf(stream) => "eof" \notin KindsOf(Rest(k))
<1>1. k \in 1 .. Len(stream) /\ \A i \in 1 .. k : stream[i].kind # "eof"
  BY DEF ChunkSizes
<1>2. PICK s \in Seq(Items) : s = stream
  OBVIOUS
<1>3. Ended(s) => Ended(SubSeq(s, k + 1, Len(s)))
  BY <1>1, <1>2, EndStays
<1>4. KindsOf(SubSeq(s, k + 1, Len(s))) \subseteq KindsOf(s)
  BY <1>1, <1>2, KindsCut
<1> QED BY <1>2, <1>3, <1>4 DEF Rest

\* What a line adds to one that has not ended.
LEMMA LineAdded ==
    ASSUME NEW s \in Seq(Items), NEW x \in Items, x.kind # "eof", "eof" \notin KindsOf(s)
    PROVE  "eof" \notin KindsOf(s \o <<x>>)
<1>1. KindsOf(s \o <<x>>) = KindsOf(s) \cup {x.kind}
  BY KindsAppended
<1> QED BY <1>1

\* The steps of the device and of the reader keep EndInv.
LEMMA EndDevice ==
    ASSUME DataInv, EndInv, Device \/ DeviceCuts, Untouched
    PROVE  EndInv' /\ pc \in Connected /\ shell.state \notin {"off", "gone"}
<1>1. shell.state \notin {"off", "gone"}
  BY DeviceStep DEF DeviceCuts
<1>2. pc \in Connected /\ "eof" \notin KindsOf(stream) /\ stream \in Seq(Items)
      /\ pc \notin Connecting
  BY <1>1 DEF EndInv, DataInv, DeviceTypes, Connected, Connecting
<1>3. pc' = pc /\ proto' = proto
  BY DEF Untouched, settings
<1>4. CASE Device
  <2>1. shell'.state \notin {"off", "gone"}
    BY <1>4, DeviceStep
  <2>2. "eof" \notin KindsOf(stream')
    <3>1. \/ stream' = stream
          \/ \E x \in Items : x.kind # "eof" /\ stream' = stream \o <<x>>
      BY <1>4, DeviceStep
    <3> QED BY <1>2, <3>1, LineAdded
  <2> QED BY <1>1, <1>2, <1>3, <2>1, <2>2 DEF EndInv
<1>5. CASE DeviceCuts
  <2>1. shell'.state = "gone" /\ stream' = stream \o <<Eof>>
    BY <1>5 DEF DeviceCuts, OffShell, Say, Eof
  <2>2. Ended(stream \o <<Eof>>)
    BY <1>2, EndAdded
  <2> QED BY <1>1, <1>2, <1>3, <2>1, <2>2 DEF EndInv
<1> QED BY <1>1, <1>2, <1>4, <1>5

LEMMA EndReader ==
    ASSUME DataInv, ReadInv, EndInv, Reader \/ ReadLost, Untouched
    PROVE  EndInv'
<1>1. pc' = pc /\ proto' = proto /\ shell' = shell /\ pc \in {"prompt", "command"}
  BY ReaderStep DEF Untouched, settings
<1>2. pc \in Connected
  BY <1>1 DEF Connected
<1>3. stream \in Seq(Items)
  BY DEF DataInv, DeviceTypes
<1>4. stream' = stream \/ \E k \in ChunkSizes : stream' = Rest(k)
  BY ReaderStep DEF AnswerPager
<1> QED BY <1>1, <1>2, <1>3, <1>4, RestEnds DEF EndInv

\* So do the session's, which open and close the connection.
LEMMA EndSession ==
    ASSUME IInv, DataInv, EndInv,
           \/ OpenTunnel \/ OpenConn \/ Login \/ Commands \/ CleaningUp
           \/ ConnectFails \/ LoginLost \/ Cancel
    PROVE  EndInv'
<1> USE DEF Connected, Connecting
<1>1. stream \in Seq(Items) /\ proto' = proto
  BY SettingsKept DEF DataInv, DeviceTypes, settings
<1>2. CleanUp \in {"closeShell", "closeTunnel"} /\ (CleanUp = "closeShell" <=> pc \in Connected)
  BY CleanUpPoint DEF IInv, ConnInv
<1>3. ASSUME UNCHANGED <<shell, typed, stream>>, pc' = CleanUp PROVE EndInv'
  BY <1>1, <1>2, <1>3 DEF EndInv
<1>4. CASE ConnectFails \/ LoginLost \/ LoginTimeout \/ NoFirstPrompt \/ InvalidStep \/ ScriptEnds
  BY <1>3, <1>4 DEF ConnectFails, LoginLost, LoginTimeout, NoFirstPrompt, InvalidStep,
     ScriptEnds, Fail, deviceVars
<1>5. CASE Cancel
  <2>1. UNCHANGED <<shell, typed, stream>>
    BY <1>5 DEF Cancel, deviceVars
  <2>2. CASE pc \in {"sleep", "waitConn", "waitTunnel"}
    BY <1>1, <1>5, <2>1, <2>2 DEF Cancel, EndInv
  <2>3. CASE pc \notin {"sleep", "waitConn", "waitTunnel"}
    BY <1>3, <1>5, <2>1, <2>3 DEF Cancel, Fail
  <2> QED BY <2>2, <2>3
<1>6. CASE OpenTunnel
  BY <1>1, <1>6 DEF OpenTunnel, deviceVars, EndInv
<1>7. CASE OpenConn
  <2>1. CASE proto = "ssh"
    <3>1. pc' = "shell" /\ UNCHANGED <<shell, stream, typed>> /\ pc = "connect"
      BY <1>7, <2>1 DEF OpenConn
    <3>2. KindsOf(<<>>) = {}
      BY DEF KindsOf
    <3> QED BY <1>1, <2>1, <3>1, <3>2 DEF EndInv
  <2>2. CASE proto # "ssh"
    <3>1. /\ pc' = "login" /\ shell' = [OffShell EXCEPT !.state = "greeting"]
          /\ stream' = <<>>
      BY <1>7, <2>2 DEF OpenConn
    <3>2. KindsOf(<<>>) = {}
      BY DEF KindsOf
    <3>3. shell'.state = "greeting"
      BY <3>1 DEF OffShell
    <3> QED BY <1>1, <2>2, <3>1, <3>2, <3>3 DEF EndInv
  <2> QED BY <2>1, <2>2
<1>8. CASE LoginPrompt \/ LoginEof
  <2>1. pc = "login" /\ pc' = "shell" /\ UNCHANGED <<shell, typed, stream>>
    BY <1>8 DEF LoginPrompt, LoginEof, LoginWaits, Asked, LoggedIn, deviceVars
  <2>2. proto # "ssh" /\ shell.state # "off"
    BY <2>1 DEF EndInv
  <2> QED BY <1>1, <2>1, <2>2 DEF EndInv
<1>9. CASE LoginUser \/ LoginPassword
  <2>1. pc = "login" /\ pc' = pc /\ UNCHANGED <<shell, stream>>
    BY <1>9 DEF LoginUser, LoginPassword, AskedUser, AskedPassword, Asked, GiveCredential
  <2> QED BY <1>1, <2>1 DEF EndInv
<1>10. CASE LoginReads \/ Drain
  <2>1. /\ pc \in {"login", "step"} /\ pc' = pc /\ shell' = shell
        /\ \E k \in ChunkSizes : stream' = Rest(k)
    BY <1>10 DEF LoginReads, LoginWaits, Drain, PlainStep, AtStep
  <2> QED BY <1>1, <2>1, RestEnds DEF EndInv
<1>11. CASE StartShell
  <2>1. pc = "shell" /\ pc' = "prompt"
    BY <1>11 DEF StartShell
  <2>2. CASE proto = "ssh"
    <3>1. shell' = [OffShell EXCEPT !.state = "waiting"] /\ stream' = <<Item("prompt", 0)>>
      BY <1>11, <2>2 DEF StartShell
    <3>2. shell'.state = "waiting" /\ KindsOf(stream') = {"prompt"}
      <4>1. PICK x : x = Item("prompt", 0)
        OBVIOUS
      <4>2. Len(<<x>>) = 1 /\ <<x>>[1] = x
        OBVIOUS
      <4>3. x.kind = "prompt"
        BY <4>1 DEF Item
      <4> QED BY <3>1, <4>1, <4>2, <4>3 DEF OffShell, KindsOf
    <3> QED BY <2>1, <3>2 DEF EndInv
  <2>3. CASE proto # "ssh"
    <3>1. UNCHANGED <<shell, stream>>
      BY <1>11, <2>3 DEF StartShell
    <3> QED BY <1>1, <2>1, <2>3, <3>1 DEF EndInv
  <2> QED BY <2>2, <2>3
<1>12. CASE \/ FirstPrompt \/ SecondNewline \/ ThenStep \/ ThenStepBad \/ TypeCommand
            \/ CommandEnds \/ CommandFails
  <2>1. UNCHANGED <<shell, stream>> /\ pc \in {"prompt", "step", "command"}
    BY <1>12 DEF FirstPrompt, SecondNewline, ThenStep, ThenStepBad, TypeCommand, AwaitOrGoOn,
       CommandEnds, CommandFails, PlainStep, AtStep, deviceVars
  <2>2. pc' \in {"prompt", "step", "command", CleanUp}
    BY <1>12 DEF FirstPrompt, SecondNewline, ThenStep, ThenStepBad, TypeCommand, AwaitOrGoOn,
       CommandEnds, CommandFails, StepFails, NextStep, Fail
  <2>3. CleanUp = "closeShell"
    BY <1>2, <2>1
  <2> QED BY <1>1, <2>1, <2>2, <2>3 DEF EndInv
<1>13. CASE CloseConn
  <2>1. pc' = "waitConn" /\ typed' = <<>> /\ stream' = <<>> /\ shell'.state \in {"off", "gone"}
    BY <1>13 DEF CloseConn, OffShell
  <2> QED BY <2>1 DEF EndInv
<1>14. CASE ConnClosed \/ CloseTunnel \/ TunnelClosed \/ EndAttempt
  <2>1. /\ UNCHANGED <<shell, typed, stream>> /\ pc \notin Connected
        /\ pc' \notin Connected \cup Connecting
    BY <1>14 DEF ConnClosed, CloseTunnel, TunnelClosed, EndAttempt, deviceVars
  <2> QED BY <2>1 DEF EndInv
<1>15. CASE NextAttempt
  <2>1. /\ UNCHANGED <<typed, stream>> /\ shell'.state = "off" /\ pc = "sleep"
        /\ pc' \in Connecting
    BY <1>15 DEF NextAttempt, OffShell
  <2> QED BY <2>1 DEF EndInv
<1> QED BY <1>4, <1>5, <1>6, <1>7, <1>8, <1>9, <1>10, <1>11, <1>12, <1>13, <1>14, <1>15
        DEF Login, Commands, CleaningUp

-----------------------------------------------------------------------------
(***************************************************************************)
(* The read, and the progress of the attempt.                              *)
(***************************************************************************)
LEMMA ReadDevice ==
    ASSUME ReadInv, UNCHANGED <<rd, pc>>
    PROVE  ReadInv'
BY DEF ReadInv

LEMMA ReadReader ==
    ASSUME DataInv, ReadInv, Reader \/ ReadLost, Untouched
    PROVE  ReadInv'
<1>1. /\ pc' = pc /\ pc \in {"prompt", "command"} /\ rd'.rules = rd.rules
      /\ rd'.pc \in {"reading", "confirming", "done"}
  BY ReaderStep DEF Untouched
<1>2. ASSUME pc = "command", rd'.pc = "done", rd'.got = "text"
      PROVE  LastKind(rd'.buf) \notin Pagers
  <2>1. ConfirmPrompt \/ ReadEof
    BY <1>2, ReaderStep
  <2>2. rd'.buf = rd.buf
    BY <2>1 DEF ConfirmPrompt, ReadEof, Return, DataInv, Reads
  <2>3. CASE ConfirmPrompt
    BY <2>2, <2>3 DEF ConfirmPrompt, AtPrompt, PromptLike, Pagers
  <2>4. CASE ReadEof
    <3>1. rd.rules
      BY <1>2 DEF ReadInv
    <3> QED BY <2>2, <2>4, <3>1 DEF ReadEof, AwaitsOutput, AtPager
  <2> QED BY <2>1, <2>3, <2>4
<1> QED BY <1>1, <1>2 DEF ReadInv

LEMMA ReadSession ==
    ASSUME IInv, ReadInv,
           \/ OpenTunnel \/ OpenConn \/ Login \/ Commands \/ CleaningUp
           \/ ConnectFails \/ LoginLost \/ Cancel
    PROVE  ReadInv'
<1>1. NoRead.pc = "off" /\ \A r \in BOOLEAN : Reading(r).pc = "reading" /\ Reading(r).rules = r
  BY DEF NoRead, Reading
<1>2. CleanUp \in {"closeShell", "closeTunnel"}
  BY CleanUpPoint
<1>3. ASSUME rd' = NoRead, pc' \notin {"login", "prompt", "command"} PROVE ReadInv'
  BY <1>1, <1>3 DEF ReadInv
<1>4. ASSUME rd' = rd, pc \notin {"login", "prompt", "command"},
             pc' \notin {"login", "prompt", "command"}
      PROVE  ReadInv'
  BY <1>4 DEF ReadInv
<1>5. ASSUME NEW e, Fail(e) PROVE ReadInv'
  BY <1>2, <1>3, <1>5 DEF Fail
<1>6. CASE ConnectFails \/ LoginLost \/ LoginTimeout \/ NoFirstPrompt \/ InvalidStep
  BY <1>5, <1>6 DEF ConnectFails, LoginLost, LoginTimeout, NoFirstPrompt, InvalidStep
<1>7. CASE Cancel
  BY <1>4, <1>5, <1>7 DEF Cancel
<1>8. CASE OpenTunnel
  BY <1>4, <1>8 DEF OpenTunnel
<1>9. CASE OpenConn
  <2>1. CASE proto = "ssh"
    BY <1>4, <1>9, <2>1 DEF OpenConn
  <2>2. CASE proto # "ssh"
    <3>1. pc' = "login" /\ rd'.pc = "login"
      BY <1>9, <2>2 DEF OpenConn, NoRead
    <3> QED BY <3>1 DEF ReadInv
  <2> QED BY <2>1, <2>2
<1>10. CASE LoginPrompt \/ LoginEof
  BY <1>3, <1>10 DEF LoginPrompt, LoginEof, LoggedIn
<1>11. CASE LoginUser \/ LoginPassword \/ LoginReads
  <2>1. pc = "login" /\ pc' = pc /\ rd.pc = "login"
    BY <1>11 DEF LoginUser, LoginPassword, AskedUser, AskedPassword, Asked, GiveCredential,
       LoginReads, LoginWaits
  <2>2. \E b : rd' = [rd EXCEPT !.buf = b]
    BY <1>11 DEF LoginUser, LoginPassword, GiveCredential, LoginReads
  <2>3. rd'.pc = rd.pc
    BY <2>2
  <2> QED BY <2>1, <2>3 DEF ReadInv
<1>12. CASE StartShell \/ SecondNewline
  <2>1. pc' = "prompt" /\ rd' = Reading(FALSE)
    BY <1>12 DEF StartShell, SecondNewline
  <2> QED BY <1>1, <2>1 DEF ReadInv
<1>13. CASE FirstPrompt \/ CommandEnds
  BY <1>3, <1>13 DEF FirstPrompt, CommandEnds, NextStep
<1>14. CASE ThenStepBad \/ CommandFails
  BY <1>3, <1>5, <1>14 DEF ThenStepBad, CommandFails, StepFails, NextStep
<1>15. CASE ThenStep \/ TypeCommand
  <2>1. AwaitOrGoOn
    BY <1>15 DEF ThenStep, TypeCommand
  <2>2. \/ rd' = Reading(TRUE) /\ pc' = "command"
        \/ rd' = NoRead /\ pc' = "step"
    BY <2>1 DEF AwaitOrGoOn, NextStep
  <2> QED BY <1>1, <1>3, <2>2 DEF ReadInv
<1>16. CASE Drain
  <2>1. /\ pc = "step" /\ pc' = "step" /\ rd.pc = "off"
        /\ rd' = [rd EXCEPT !.drained = @ + 1]
    BY <1>16 DEF Drain, PlainStep, AtStep
  <2>2. rd'.pc = rd.pc
    BY <2>1
  <2> QED BY <2>1, <2>2 DEF ReadInv
<1>17. CASE ScriptEnds
  BY <1>2, <1>4, <1>17 DEF ScriptEnds
<1>18. CASE CloseConn
  BY <1>3, <1>18 DEF CloseConn
<1>19. CASE ConnClosed \/ CloseTunnel \/ TunnelClosed \/ EndAttempt \/ NextAttempt
  BY <1>4, <1>19 DEF ConnClosed, CloseTunnel, TunnelClosed, EndAttempt, NextAttempt
<1> QED BY <1>6, <1>7, <1>8, <1>9, <1>10, <1>11, <1>12, <1>13, <1>14, <1>15, <1>16, <1>17,
           <1>18, <1>19 DEF Login, Commands, CleaningUp

\* A step that types a command begins it.
LEMMA Begins ==
    ASSUME IInv, ThenStep \/ ThenStepBad \/ TypeCommand
    PROVE  /\ pc = "step" /\ step \in Steps /\ step' \in {step, step + 1}
           /\ Begun = step - 1 /\ Begun' = step
           /\ UNCHANGED <<shell, stream, sent, captured>>
<1>1. step \in Nat \ {0} /\ Len(script) \in Nat
  BY DEF IInv, Types
<1>2. pc = "step" /\ step <= Len(script)
  BY DEF ThenStep, ThenStepBad, TypeCommand, PlainStep, AtStep
<1>3. UNCHANGED <<shell, stream, sent, captured>>
  BY DEF ThenStep, ThenStepBad, TypeCommand, AwaitOrGoOn, StepFails
<1>4. \/ pc' = "command" /\ step' = step
      \/ pc' = "step" /\ step' = step + 1
      \/ pc' = CleanUp /\ step' = step
  BY DEF ThenStep, ThenStepBad, TypeCommand, AwaitOrGoOn, StepFails, NextStep, Fail
<1> QED BY <1>1, <1>2, <1>3, <1>4, CleanUpPoint DEF Begun, Steps, Closing

\* No step of an attempt goes back.
LEMMA Progresses ==
    ASSUME IInv,
           \/ OpenTunnel \/ OpenConn \/ Login \/ Commands \/ CleaningUp
           \/ ConnectFails \/ LoginLost \/ Cancel,
           ~NextAttempt
    PROVE  step' \in {step, step + 1} /\ Begun' >= Begun /\ Begun \in Int /\ step \in Nat
<1> USE DEF Begun, Closing
<1>1. step \in Nat \ {0} /\ CleanUp \in {"closeShell", "closeTunnel"}
  BY CleanUpPoint DEF IInv, Types
<1>2. ASSUME NEW e, Fail(e), step' = step
      PROVE  step' \in {step, step + 1} /\ Begun' >= Begun
  BY <1>1, <1>2 DEF Fail
<1>3. CASE ConnectFails \/ LoginLost \/ LoginTimeout \/ NoFirstPrompt \/ InvalidStep
  BY <1>1, <1>2, <1>3 DEF ConnectFails, LoginLost, LoginTimeout, NoFirstPrompt, InvalidStep
<1>4. CASE Cancel
  <2>1. CASE pc \in {"sleep", "waitConn", "waitTunnel"}
    BY <1>1, <1>4, <2>1 DEF Cancel
  <2>2. CASE pc \notin {"sleep", "waitConn", "waitTunnel"}
    BY <1>1, <1>2, <1>4, <2>2 DEF Cancel
  <2> QED BY <2>1, <2>2
<1>5. CASE \/ OpenTunnel \/ OpenConn \/ LoginPrompt \/ LoginEof \/ LoginUser \/ LoginPassword
           \/ LoginReads \/ StartShell \/ FirstPrompt \/ SecondNewline \/ Drain
  <2>1. step' = step /\ pc' \in {"connect", "shell", "login", "prompt", "step"}
    BY <1>5 DEF OpenTunnel, OpenConn, LoginPrompt, LoginEof, LoggedIn, LoginUser,
       LoginPassword, GiveCredential, AskedUser, AskedPassword, Asked, LoginReads, LoginWaits,
       StartShell, FirstPrompt, SecondNewline, Drain, PlainStep, AtStep
  <2>2. pc \in {"tunnel", "connect", "shell", "login", "prompt", "step"}
    BY <1>5 DEF OpenTunnel, OpenConn, LoginPrompt, LoginEof, LoginUser, LoginPassword,
       AskedUser, AskedPassword, Asked, LoginReads, LoginWaits, StartShell, FirstPrompt,
       SecondNewline, Drain, PlainStep, AtStep
  <2> QED BY <1>1, <2>1, <2>2
<1>6. CASE ThenStep \/ ThenStepBad \/ TypeCommand
  BY <1>1, <1>6, Begins
<1>7. CASE CommandEnds \/ CommandFails
  <2>1. /\ pc = "command"
        /\ \/ pc' = "step" /\ step' = step + 1
           \/ pc' = CleanUp /\ step' = step
    BY <1>7 DEF CommandEnds, CommandFails, StepFails, NextStep, Fail
  <2> QED BY <1>1, <2>1
<1>8. CASE ScriptEnds
  BY <1>1, <1>8 DEF ScriptEnds
<1>9. CASE CloseConn \/ ConnClosed \/ CloseTunnel \/ TunnelClosed \/ EndAttempt
  BY <1>1, <1>9 DEF CloseConn, ConnClosed, CloseTunnel, TunnelClosed, EndAttempt
<1> QED BY <1>1, <1>3, <1>4, <1>5, <1>6, <1>7, <1>8, <1>9 DEF Login, Commands, CleaningUp

\* What was printed grows only for a command the device answers.
LEMMA SentGrows ==
    ASSUME RunInv, NEW c \in Steps, NEW x \in Answers,
           sent' = [sent EXCEPT ![c] = Append(@, x)]
    PROVE  /\ sent' \in [Steps -> Seq(Answers)]
           /\ sent'[c] = sent[c] \o <<x>>
           /\ \A i \in Steps \ {c} : sent'[i] = sent[i]
<1>1. sent \in [Steps -> Seq(Answers)] /\ sent[c] \in Seq(Answers)
  BY DEF RunInv
<1>2. PICK s \in Seq(Answers) : s = sent[c]
  BY <1>1
<1>3. Append(s, x) \in Seq(Answers) /\ Append(s, x) = s \o <<x>>
  BY AppendProperties, AppendIsConcat
<1> QED BY <1>1, <1>2, <1>3

LEMMA RunDevice ==
    ASSUME IInv, DataInv, EndInv, LiveInv, RunInv, Device \/ DeviceCuts, Untouched
    PROVE  RunInv'
<1>1. UNCHANGED <<script, pc, step, captured, err>> /\ pc \in Connected
  BY EndDevice DEF Untouched, settings
<1>2. Steps' = Steps /\ Begun' = Begun /\ Begun \in Int
  BY <1>1 DEF Steps, Begun, IInv, Types
<1>3. CASE sent' = sent
  BY <1>1, <1>2, <1>3 DEF RunInv, NoCapture, NothingSent
<1>4. ASSUME shell.state = "answering", NEW x \in Answers,
             sent' = [sent EXCEPT ![shell.cmd] = Append(@, x)]
      PROVE  RunInv'
  <2>1. shell.cmd \in Steps /\ shell.cmd <= Begun
    BY <1>4 DEF LiveInv, Live, Busy
  <2>2. PICK c \in Steps : c = shell.cmd /\ c <= Begun
    BY <2>1
  <2>3. /\ sent' \in [Steps -> Seq(Answers)]
        /\ \A i \in Steps \ {c} : sent'[i] = sent[i]
    BY <1>4, <2>2, SentGrows
  <2>4. \A i \in Steps : i > Begun => sent'[i] = <<>>
    BY <1>2, <2>2, <2>3 DEF RunInv, Steps
  <2>5. pc' \notin Closing \ {"closeShell", "done"}
    BY <1>1 DEF Connected, Closing
  <2> QED BY <1>1, <1>2, <2>3, <2>4, <2>5 DEF RunInv
<1> QED BY <1>3, <1>4, DeviceStep DEF DeviceCuts

\* The session captures, or starts from nothing.
LEMMA RunSession ==
    ASSUME IInv, DataInv, RunInv,
           \/ OpenTunnel \/ OpenConn \/ Login \/ Commands \/ CleaningUp
           \/ ConnectFails \/ LoginLost \/ Cancel
    PROVE  RunInv'
<1>1. Steps' = Steps /\ NoCapture' = NoCapture /\ NothingSent' = NothingSent
  BY SettingsKept DEF Steps, NoCapture, NothingSent, settings
<1>2. CleanUp \in {"closeShell", "closeTunnel"} /\ (CleanUp = "closeShell" <=> pc \in Connected)
  BY CleanUpPoint DEF IInv, ConnInv
<1>3. ASSUME NEW i \in Steps PROVE i \in Nat
  BY DEF Steps
<1>4. ASSUME UNCHANGED <<sent, captured>>, ~NextAttempt,
             pc' \in Closing \ {"closeShell", "done"} /\ err' # "none"
                => captured = NoCapture /\ sent = NothingSent
      PROVE  RunInv'
  <2>1. step' >= step /\ Begun' >= Begun /\ step \in Nat /\ Begun \in Int
        /\ step' \in Nat /\ Begun' \in Int
    BY <1>4, Progresses DEF Begun
  <2>2. \A i \in Steps : /\ i > Begun' => i > Begun
                         /\ i >= step' => i >= step
    BY <1>3, <2>1
  <2> QED BY <1>1, <1>4, <2>2 DEF RunInv
\* Before the first command nothing has been captured.
<1>5. ASSUME pc \in Connecting PROVE captured = NoCapture /\ sent = NothingSent
  <2>1. step = 1 /\ Begun = 0
    BY <1>5 DEF IInv, ScriptInv, Connecting, Begun, Closing
  <2>2. \A i \in Steps : i > 0 /\ i >= 1
    BY DEF Steps
  <2>3. \A i \in Steps : captured[i] = <<>> /\ sent[i] = <<>>
    BY <2>1, <2>2 DEF RunInv
  <2>4. captured \in [Steps -> Seq(Items)] /\ sent \in [Steps -> Seq(Answers)]
    BY DEF RunInv, DataInv, SessionTypes
  <2> QED BY <2>3, <2>4 DEF NoCapture, NothingSent
<1>6. ASSUME NEW e, Fail(e), UNCHANGED <<sent, captured>>, pc \in Connecting \cup Connected
      PROVE  RunInv'
  <2>1. pc' \in {"closeShell", "closeTunnel"} /\ (pc' = "closeTunnel" => pc \in Connecting)
    BY <1>2, <1>6 DEF Fail
  <2>2. ~NextAttempt
    BY <1>6 DEF NextAttempt, Connecting, Connected
  <2> QED BY <1>4, <1>5, <1>6, <2>1, <2>2
<1>7. CASE ConnectFails \/ LoginLost \/ LoginTimeout \/ NoFirstPrompt \/ InvalidStep
  <2>1. \E e : Fail(e) /\ UNCHANGED <<sent, captured>>
    BY <1>7 DEF ConnectFails, LoginLost, LoginTimeout, NoFirstPrompt, InvalidStep, deviceVars
  <2>2. pc \in Connecting \cup Connected
    BY <1>7 DEF ConnectFails, LoginLost, LoginTimeout, LoginWaits, NoFirstPrompt, InvalidStep,
       AtStep, Connecting, Connected
  <2> QED BY <1>6, <2>1, <2>2
<1>8. CASE Cancel
  <2>1. UNCHANGED <<sent, captured>>
    BY <1>8 DEF Cancel, deviceVars
  <2>2. CASE pc \in {"sleep", "waitConn", "waitTunnel"}
    <3>1. pc' = "done" /\ err' = "cancelled"
      BY <1>8, <2>2 DEF Cancel
    <3>2. ~NextAttempt
      BY <3>1 DEF NextAttempt
    <3> QED BY <1>4, <2>1, <3>1, <3>2
  <2>3. CASE pc \notin {"sleep", "waitConn", "waitTunnel"}
    <3>1. pc \in Connecting \cup Connected
      BY <1>8, <2>3 DEF Cancel, IInv, Types, Connecting, Connected, Closing
    <3> QED BY <1>6, <1>8, <2>1, <2>3, <3>1 DEF Cancel
  <2> QED BY <2>2, <2>3
<1>9. CASE \/ OpenTunnel \/ OpenConn \/ LoginPrompt \/ LoginEof \/ LoginUser \/ LoginPassword
           \/ LoginReads \/ StartShell \/ FirstPrompt \/ SecondNewline \/ Drain
  <2>1. /\ UNCHANGED <<sent, captured>> /\ pc # "sleep"
        /\ pc' \in {"connect", "shell", "login", "prompt", "step"}
    BY <1>9 DEF OpenTunnel, OpenConn, LoginPrompt, LoginEof, LoginWaits, LoggedIn, LoginUser,
       LoginPassword, GiveCredential, AskedUser, AskedPassword, Asked, LoginReads, StartShell,
       FirstPrompt, SecondNewline, Drain, PlainStep, AtStep, deviceVars
  <2> QED BY <1>4, <2>1 DEF Closing, NextAttempt
<1>10. CASE ThenStep \/ ThenStepBad \/ TypeCommand \/ CommandFails
  <2>1. UNCHANGED <<sent, captured>> /\ pc \in {"step", "command"}
    BY <1>10, Begins DEF CommandFails, StepFails, deviceVars
  <2>2. pc' \in {"step", "command", "closeShell"}
    BY <1>2, <1>10, <2>1 DEF ThenStep, ThenStepBad, TypeCommand, CommandFails, AwaitOrGoOn,
       StepFails, NextStep, Fail, Connected
  <2> QED BY <1>4, <2>1, <2>2 DEF Closing, NextAttempt
<1>11. CASE CommandEnds
  <2>1. /\ pc = "command" /\ pc' = "step" /\ step' = step + 1 /\ sent' = sent
        /\ captured' \in {captured, [captured EXCEPT ![step] = Sanitized(rd.buf, step)]}
    BY <1>11 DEF CommandEnds, NextStep, Captures, deviceVars
  <2>2. step \in Nat
    BY DEF IInv, Types
  <2>3. Begun = step /\ Begun' = step
    BY <2>1, <2>2 DEF Begun, Closing
  <2>4. \A i \in Steps : i >= step' => captured'[i] = <<>>
    <3>1. \A i \in Steps : i >= step + 1 => i >= step /\ i # step
      BY <1>3, <2>2
    <3> QED BY <2>1, <3>1 DEF RunInv, DataInv, SessionTypes
  <2> QED BY <1>1, <2>1, <2>3, <2>4 DEF RunInv, Closing
<1>12. CASE ScriptEnds
  <2>1. UNCHANGED <<sent, captured>> /\ pc = "step" /\ pc' = "closeShell"
    BY <1>2, <1>12 DEF ScriptEnds, deviceVars, Connected
  <2> QED BY <1>4, <2>1 DEF NextAttempt
<1>13. CASE CloseConn
  <2>1. pc = "closeShell" /\ pc' = "waitConn" /\ UNCHANGED <<step, err>>
    BY <1>13 DEF CloseConn
  <2>2. CASE err = "none"
    <3>1. UNCHANGED <<sent, captured>>
      BY <1>13, <2>2 DEF CloseConn
    <3> QED BY <1>4, <2>1, <2>2, <3>1 DEF NextAttempt
  <2>3. CASE err # "none"
    <3>1. captured' = NoCapture /\ sent' = NothingSent
      BY <1>13, <2>3 DEF CloseConn
    <3>2. /\ NothingSent \in [Steps -> Seq(Answers)]
          /\ \A i \in Steps : NothingSent[i] = <<>> /\ NoCapture[i] = <<>>
      BY DEF NothingSent, NoCapture
    <3> QED BY <1>1, <3>1, <3>2 DEF RunInv
  <2> QED BY <2>2, <2>3
<1>14. CASE ConnClosed \/ CloseTunnel \/ TunnelClosed \/ EndAttempt
  <2>1. /\ UNCHANGED <<sent, captured, err>> /\ pc \in Closing \ {"closeShell", "done", "sleep"}
    BY <1>14 DEF ConnClosed, CloseTunnel, TunnelClosed, EndAttempt, deviceVars, Closing
  <2>2. err # "none" => captured = NoCapture /\ sent = NothingSent
    BY <2>1 DEF RunInv
  <2> QED BY <1>4, <2>1, <2>2 DEF NextAttempt, Closing
<1>15. CASE NextAttempt
  <2>1. pc = "sleep" /\ UNCHANGED <<sent, captured>> /\ err' = "none"
    BY <1>15 DEF NextAttempt
  <2>2. captured = NoCapture /\ sent = NothingSent
    BY <2>1 DEF RunInv, IInv, ScriptInv, Closing
  <2>3. \A i \in Steps : NothingSent[i] = <<>> /\ NoCapture[i] = <<>>
    BY DEF NothingSent, NoCapture
  <2> QED BY <1>1, <2>1, <2>2, <2>3 DEF RunInv
<1> QED BY <1>7, <1>8, <1>9, <1>10, <1>11, <1>12, <1>13, <1>14, <1>15
        DEF Login, Commands, CleaningUp

-----------------------------------------------------------------------------
(***************************************************************************)
(* The commands the device has to do with.                                 *)
(***************************************************************************)
LEMMA LiveDevice ==
    ASSUME IInv, DataInv, EndInv, LiveInv, Device \/ DeviceCuts, Untouched
    PROVE  Live' \subseteq Live /\ LiveInv'
<1>1. UNCHANGED <<script, pc, step>>
  BY DEF Untouched, settings
<1>2. Steps' = Steps /\ Begun' = Begun
  BY <1>1 DEF Steps, Begun
<1>3. CASE Device
  <2>1. /\ CommandsOf(typed') \subseteq CommandsOf(typed) /\ shell'.state # "gone"
        /\ shell'.state \in Busy => \/ shell.state \in Busy /\ shell'.cmd = shell.cmd
                                    \/ shell'.cmd \in CommandsOf(typed)
    BY <1>3, DeviceStep
  <2>2. Live' \subseteq Live
    BY <2>1 DEF Live
  <2> QED BY <1>2, <2>1, <2>2 DEF LiveInv
<1>4. CASE DeviceCuts
  <2>1. shell'.state = "gone" /\ typed' = <<>>
    BY <1>4 DEF DeviceCuts, OffShell
  <2>2. CommandsOf(<<>>) = {}
    BY DEF CommandsOf
  <2>3. Live' = {}
    BY <2>1, <2>2 DEF Live, Busy
  <2> QED BY <2>1, <2>2, <2>3 DEF LiveInv
<1> QED BY <1>3, <1>4

LEMMA LiveReader ==
    ASSUME DataInv, ReadInv, LiveInv, Reader \/ ReadLost, Untouched
    PROVE  Live' = Live /\ LiveInv'
<1>1. UNCHANGED <<script, pc, step>>
  BY DEF Untouched, settings
<1>2. Steps' = Steps /\ Begun' = Begun
  BY <1>1 DEF Steps, Begun
<1>3. shell' = shell /\ CommandsOf(typed') = CommandsOf(typed)
  BY ReaderStep
<1>4. Live' = Live
  BY <1>3 DEF Live
<1> QED BY <1>2, <1>3, <1>4 DEF LiveInv

\* Inputs are typed at a device that is there.
LEMMA TypingCommands ==
    ASSUME typed \in Seq(Inputs), NEW s \in Seq(Inputs), Typing(s)
    PROVE  /\ CommandsOf(typed') \subseteq CommandsOf(typed) \cup CommandsOf(s)
           /\ shell.state = "gone" => typed' = typed
<1>1. PICK t \in Seq(Inputs) : t = typed
  OBVIOUS
<1>2. CommandsOf(t \o s) = CommandsOf(t) \cup CommandsOf(s)
  BY CommandsJoined
<1> QED BY <1>1, <1>2 DEF Typing

\* The session adds the command it types.
LEMMA LiveSession ==
    ASSUME IInv, DataInv, EndInv, LiveInv,
           \/ OpenTunnel \/ OpenConn \/ Login \/ Commands \/ CleaningUp
           \/ ConnectFails \/ LoginLost \/ Cancel
    PROVE  /\ \/ Live' \subseteq Live
              \/ (ThenStep \/ ThenStepBad \/ TypeCommand) /\ Live' \subseteq Live \cup {step}
           /\ LiveInv'
<1>1. Steps' = Steps /\ typed \in Seq(Inputs)
  BY SettingsKept DEF Steps, settings, DataInv, DeviceTypes
<1>2. \A i \in Steps : i \in Nat
  BY DEF Steps
<1>3. CommandsOf(<<>>) = {}
  BY DEF CommandsOf
<1>4. ASSUME Live' \subseteq Live, ~NextAttempt,
             shell'.state = "gone" => shell.state = "gone",
             shell'.state = "gone" => CommandsOf(typed') \subseteq CommandsOf(typed)
      PROVE  LiveInv'
  <2>1. Begun' >= Begun /\ Begun \in Int /\ Begun' \in Int
    <3>1. step' \in {step, step + 1} /\ step \in Nat /\ Begun' >= Begun /\ Begun \in Int
      BY <1>4, Progresses
    <3>2. step' \in Nat
      BY <3>1
    <3>3. Begun' \in {step', step' - 1}
      BY DEF Begun
    <3> QED BY <3>1, <3>2, <3>3
  <2>2. \A c \in Live' : c \in Steps /\ c <= Begun'
    BY <1>2, <1>4, <2>1 DEF LiveInv
  <2> QED BY <1>1, <1>4, <2>2 DEF LiveInv
<1>5. ASSUME UNCHANGED <<shell, typed>>, ~NextAttempt PROVE Live' \subseteq Live /\ LiveInv'
  <2>1. Live' = Live
    BY <1>5 DEF Live
  <2> QED BY <1>4, <1>5, <2>1
<1>6. CASE ConnectFails \/ LoginLost \/ LoginTimeout \/ NoFirstPrompt \/ InvalidStep \/ ScriptEnds
  <2>1. UNCHANGED <<shell, typed>>
    BY <1>6 DEF ConnectFails, LoginLost, LoginTimeout, NoFirstPrompt, InvalidStep, ScriptEnds,
       deviceVars
  <2>2. pc # "sleep"
    BY <1>6 DEF ConnectFails, LoginLost, LoginTimeout, LoginWaits, NoFirstPrompt, InvalidStep,
       AtStep, ScriptEnds
  <2> QED BY <1>5, <2>1, <2>2 DEF NextAttempt
<1>7. CASE Cancel
  <2>1. UNCHANGED <<shell, typed>> /\ err' = "cancelled"
    BY <1>7 DEF Cancel, Fail, deviceVars
  <2> QED BY <1>5, <2>1 DEF NextAttempt
<1>8. CASE \/ OpenTunnel \/ LoginPrompt \/ LoginEof \/ LoginReads \/ FirstPrompt \/ Drain
           \/ CommandEnds \/ CommandFails
  <2>1. UNCHANGED <<shell, typed>> /\ pc # "sleep"
    BY <1>8 DEF OpenTunnel, LoginPrompt, LoginEof, LoginWaits, Asked, LoggedIn, LoginReads,
       FirstPrompt, Drain, PlainStep, AtStep, CommandEnds, CommandFails, deviceVars
  <2> QED BY <1>5, <2>1 DEF NextAttempt
\* Inputs that are no commands.
<1>9. ASSUME NEW k \in {"enter", "user", "password"}, shell' = shell, pc # "sleep",
             \/ typed' = Append(typed, Input(k, 0))
             \/ Typing(<<Input(k, 0)>>)
      PROVE  Live' \subseteq Live /\ LiveInv'
  <2>1. PICK s \in Seq(Inputs) : s = <<Input(k, 0)>> /\ CommandsOf(s) = {}
    BY CommandsTyped
  <2>2. CommandsOf(typed') \subseteq CommandsOf(typed)
    <3>1. CASE typed' = Append(typed, Input(k, 0))
      <4>1. PICK t \in Seq(Inputs) : t = typed
        BY <1>1
      <4>2. CommandsOf(t \o s) = CommandsOf(t) \cup CommandsOf(s)
        BY CommandsJoined
      <4>3. PICK x \in Inputs : x = Input(k, 0)
        BY ItemTypes
      <4>4. Append(t, x) = t \o <<x>>
        BY AppendIsConcat
      <4> QED BY <2>1, <3>1, <4>1, <4>2, <4>3, <4>4
    <3>2. CASE Typing(<<Input(k, 0)>>)
      BY <1>1, <2>1, <3>2, TypingCommands
    <3> QED BY <1>9, <3>1, <3>2
  <2>3. Live' \subseteq Live
    BY <1>9, <2>2 DEF Live
  <2> QED BY <1>4, <1>9, <2>2, <2>3 DEF NextAttempt
<1>10. CASE LoginUser \/ LoginPassword
  <2>1. PICK k \in {"user", "password"} : GiveCredential(k) /\ pc = "login"
    BY <1>10 DEF LoginUser, LoginPassword, AskedUser, AskedPassword, Asked
  <2> QED BY <1>9, <2>1 DEF GiveCredential
<1>11. CASE SecondNewline
  BY <1>9, <1>11 DEF SecondNewline
\* A device that has just started has nothing to do with a command.
<1>12. ASSUME typed' = <<Input("enter", 0)>> \/ typed' = <<>>, shell'.state \notin Busy
       PROVE  Live' \subseteq Live /\ LiveInv'
  <2>1. CommandsOf(typed') = {}
    BY <1>3, <1>12, CommandsTyped
  <2>2. Live' = {}
    BY <1>12, <2>1 DEF Live
  <2> QED BY <2>1, <2>2 DEF LiveInv
<1>13. CASE OpenConn
  <2>1. CASE proto = "ssh"
    <3>1. UNCHANGED <<shell, typed>> /\ pc = "connect"
      BY <1>13, <2>1 DEF OpenConn
    <3> QED BY <1>5, <3>1 DEF NextAttempt
  <2>2. CASE proto # "ssh"
    <3>1. typed' = <<Input("enter", 0)>> /\ shell'.state = "greeting"
      BY <1>13, <2>2 DEF OpenConn, OffShell
    <3> QED BY <1>12, <3>1 DEF Busy
  <2> QED BY <2>1, <2>2
<1>14. CASE StartShell
  <2>1. CASE proto = "ssh"
    <3>1. typed' = <<Input("enter", 0)>> /\ shell'.state = "waiting"
      BY <1>14, <2>1 DEF StartShell, OffShell
    <3> QED BY <1>12, <3>1 DEF Busy
  <2>2. CASE proto # "ssh"
    BY <1>9, <1>14, <2>2 DEF StartShell
  <2> QED BY <2>1, <2>2
<1>15. CASE CloseConn
  BY <1>12, <1>15 DEF CloseConn, OffShell, Busy
<1>16. CASE NextAttempt
  <2>1. typed' = typed /\ shell'.state = "off" /\ pc = "sleep"
    BY <1>16 DEF NextAttempt, OffShell
  <2>2. typed = <<>>
    BY <2>1 DEF EndInv, Connected
  <2> QED BY <1>12, <2>1, <2>2 DEF Busy
<1>17. CASE ConnClosed \/ CloseTunnel \/ TunnelClosed \/ EndAttempt
  <2>1. UNCHANGED <<shell, typed>> /\ pc # "sleep"
    BY <1>17 DEF ConnClosed, CloseTunnel, TunnelClosed, EndAttempt, deviceVars
  <2> QED BY <1>5, <2>1 DEF NextAttempt
<1>18. CASE ThenStep \/ ThenStepBad \/ TypeCommand
  <2>1. /\ pc = "step" /\ step \in Steps /\ Begun = step - 1 /\ Begun' = step /\ shell' = shell
    BY <1>18, Begins
  <2>2. PICK s \in Seq(Inputs) : Typing(s) /\ CommandsOf(s) = {step}
    <3>1. step \in Nat
      BY <2>1, <1>2
    <3>2. PICK a \in Seq(Inputs), b \in Seq(Inputs) :
            /\ a = <<Input("command", step)>> /\ CommandsOf(a) = {step}
            /\ b = <<Input("text", step)>> /\ CommandsOf(b) = {}
      BY <3>1, CommandsTyped
    <3>3. CommandsOf(a \o b) = {step} /\ a \o b \in Seq(Inputs)
      BY <3>2, CommandsJoined, ConcatProperties
    <3>4. <<Input("command", step), Input("text", step)>> = a \o b
      BY <3>2
    <3> QED BY <1>18, <3>2, <3>3, <3>4 DEF ThenStep, ThenStepBad, TypeCommand
  <2>3. /\ CommandsOf(typed') \subseteq CommandsOf(typed) \cup {step}
        /\ shell.state = "gone" => typed' = typed
    BY <1>1, <2>2, TypingCommands
  <2>4. Live' \subseteq Live \cup {step}
    BY <2>1, <2>3 DEF Live
  <2>5. \A c \in Live' : c \in Steps /\ c <= Begun'
    <3>1. step \in Nat
      BY <2>1, <1>2
    <3>2. ASSUME NEW c \in Live' PROVE c \in Steps /\ c <= step
      <4>1. c \in Live => c \in Steps /\ c <= step - 1
        BY <2>1 DEF LiveInv
      <4>2. c \in Steps /\ (c <= step - 1 \/ c = step)
        BY <2>1, <2>4, <3>2, <4>1
      <4> QED BY <1>2, <3>1, <4>2
    <3> QED BY <2>1, <3>2
  <2>6. LiveInv'
    BY <1>1, <2>1, <2>3, <2>5 DEF LiveInv
  <2> QED BY <1>18, <2>4, <2>6
<1> QED BY <1>6, <1>7, <1>8, <1>10, <1>11, <1>13, <1>14, <1>15, <1>16, <1>17, <1>18
        DEF Login, Commands, CleaningUp

-----------------------------------------------------------------------------
(***************************************************************************)
(* A prompt that ends a read was the device's own.                         *)
(***************************************************************************)
LEMMA RangeGrows ==
    \A a, b \in Nat : a <= b => \A j \in 1 .. a - 1 : j \in 1 .. b - 1
OBVIOUS

\* A fetch stays undisturbed.
LEMMA UndisturbedKept == [Next]_vars => Undisturbed' = Undisturbed
<1> SUFFICES ASSUME [Next]_vars PROVE Undisturbed' = Undisturbed
  OBVIOUS
<1>1. UNCHANGED <<faults, script>>
  <2>1. CASE \/ OpenTunnel \/ OpenConn \/ Login \/ Commands \/ CleaningUp
             \/ ConnectFails \/ LoginLost \/ Cancel
    BY <2>1, SettingsKept DEF settings
  <2>2. CASE (Device \/ DeviceCuts) /\ Untouched
    BY <2>2 DEF Device, DeviceTakes, PagerTakes, DeviceGreets, LoginTakes, DeviceAnswers, DeviceCuts, Untouched,
       settings
  <2>3. CASE (Reader \/ ReadLost) /\ Untouched
    BY <2>3 DEF Reader, ReadLost, ConfirmPrompt, ConfirmMore, ConfirmEnds, AnswerPager, ReadChunk,
       ReadEof, ReadTimeout, deviceVars, Untouched, settings
  <2>4. CASE UNCHANGED vars
    BY <2>4 DEF vars, deviceVars, settings
  <2> QED BY <2>1, <2>2, <2>3, <2>4 DEF Next, Progress, Fault, Streaming
<1> QED BY <1>1 DEF Undisturbed, Steps

\* A device that is silent behind its prompt stays silent, or goes.
LEMMA SettledDevice ==
    ASSUME Settled, Device \/ DeviceCuts
    PROVE  Settled'
<1>1. ~Device
  BY DEF Settled, Device, DeviceTakes, PagerTakes, DeviceGreets, LoginTakes, DeviceAnswers
<1>2. /\ shell.state # "gone" /\ shell'.state = "gone" /\ stream' = stream \o <<Eof>>
  BY <1>1 DEF DeviceCuts, OffShell, Say, Eof
<1>3. stream = <<>>
  BY <1>2 DEF Settled
<1>4. PICK e \in Items : e = Eof /\ e.kind = "eof"
  BY EofKind
<1>5. <<>> \o <<e>> # <<>> /\ Head(<<>> \o <<e>>) = e
  OBVIOUS
<1> QED BY <1>2, <1>3, <1>4, <1>5 DEF Settled, AtEof

\* A read ends with a prompt, in a fetch that nothing disturbs, only when the device
\* has nothing more to say.
LEMMA PromptSettles ==
    ASSUME DataInv, EndInv, ReadInv, LiveInv, AttentionInv, Undisturbed, Clean,
           pc = "prompt" => step = 1,
           shell.state \notin LoginStates, ConfirmPrompt \/ ReadEof
    PROVE  Settled
<1>1. pc \in {"prompt", "command"}
  BY ReaderStep DEF Reader
<1>2. /\ shell.state # "off"
      /\ IF shell.state = "gone" THEN Ended(stream) ELSE "eof" \notin KindsOf(stream)
  BY <1>1 DEF EndInv, Connected
<1>3. stream \in Seq(Items) /\ shell \in Shells
  BY DEF DataInv, DeviceTypes
<1>4. CASE AtEof
  <2>1. Head(stream).kind \in KindsOf(stream)
    BY <1>3, <1>4, KindsCut DEF AtEof
  <2>2. "eof" \in KindsOf(stream)
    BY <1>4, <2>1 DEF AtEof
  <2> QED BY <1>2, <1>4, <2>2 DEF Settled
<1>5. CASE ~AtEof
  <2>1. /\ LastKind(rd.buf) \in PromptLike /\ stream = <<>> /\ typed = <<>>
        /\ shell.state # "answering"
    BY <1>5 DEF ReadEof, ConfirmPrompt, AtPrompt, IdleWindow, DeviceSilent, Undisturbed
  <2>2. shell.state # "gone"
    BY <1>2, <2>1 DEF Ended
  <2>3. CASE pc = "prompt"
    <3>1. Begun = 0
      BY <2>3 DEF Begun, Closing
    <3>2. \A c \in Live : c \in Steps /\ c <= 0
      BY <3>1 DEF LiveInv
    <3>3. Live = {}
      BY <3>2 DEF Steps
    <3>4. shell.state \notin Busy
      BY <3>3 DEF Live
    <3> QED BY <1>2, <1>3, <2>1, <2>2, <3>4
            DEF Settled, Busy, Shells, ShellStates, LoginStates
  <2>4. CASE pc = "command"
    <3>1. LastKind(Out) = LastKind(rd.buf)
      <4>1. PICK b \in Seq(Output) : b = rd.buf
        BY DEF DataInv, Reads
      <4>2. b \o <<>> = b
        BY ConcatEmptySeq
      <4> QED BY <2>1, <4>1, <4>2 DEF Out
    <3>2. shell.state \notin {"asking", "paging"}
      BY <2>1, <2>4, <3>1 DEF AttentionInv, PromptLike, Pagers
    <3> QED BY <1>2, <1>3, <2>1, <2>2, <3>2
            DEF Settled, Shells, ShellStates, LoginStates
  <2> QED BY <1>1, <2>3, <2>4
<1> QED BY <1>4, <1>5

\* The steps of the reader keep SettledInv.
LEMMA SettledReader ==
    ASSUME IInv, DataInv, EndInv, ReadInv, LiveInv, AttentionInv, SettledInv, LoginInv',
           Undisturbed, Reader \/ ReadLost, Untouched
    PROVE  SettledInv'
<1>1. pc' = pc /\ pc \in {"prompt", "command"} /\ shell' = shell
  BY ReaderStep DEF Untouched
<1>2. Clean' = Clean
  BY DEF Clean, Untouched, settings
<1> SUFFICES ASSUME Clean, rd'.pc = "done", rd'.got = "text" PROVE Settled'
  BY <1>1, <1>2 DEF SettledInv, Told
<1>3. ConfirmPrompt \/ ReadEof
  BY ReaderStep
<1>4. UNCHANGED deviceVars
  BY <1>3 DEF ConfirmPrompt, ReadEof
<1>5. shell.state \notin LoginStates
  <2>1. Steady'
    BY ReaderStep DEF Undisturbed, Steady
  <2> QED BY <1>1, <2>1 DEF LoginInv
<1>6. pc = "prompt" => step = 1
  BY DEF IInv, ScriptInv
<1>7. Settled
  BY <1>3, <1>5, <1>6, PromptSettles
<1> QED BY <1>4, <1>7 DEF Settled, AtEof, deviceVars

\* So do the session's: a command that failed after the backup ends the claim.
LEMMA SettledSession ==
    ASSUME IInv, DataInv, SettledInv, Undisturbed,
           \/ OpenTunnel \/ OpenConn \/ Login \/ Commands \/ CleaningUp
           \/ ConnectFails \/ LoginLost \/ Cancel
    PROVE  SettledInv'
<1> USE DEF Told
<1>1. script' = script /\ step \in Nat \ {0} /\ Len(script) \in Nat
  BY SettingsKept DEF settings, IInv, Types
<1>2. NoRead.pc # "done" /\ \A r \in BOOLEAN : Reading(r).pc # "done"
  BY DEF NoRead, Reading
<1>3. ASSUME \/ pc' \notin {"prompt", "step", "command"}
             \/ rd'.pc # "done" /\ pc' # "step"
      PROVE  SettledInv'
  BY <1>3 DEF SettledInv
<1>4. CleanUp \notin {"prompt", "step", "command"}
  BY CleanUpPoint
<1>5. ASSUME NEW e, Fail(e) PROVE SettledInv'
  BY <1>3, <1>4, <1>5 DEF Fail
<1>6. CASE ConnectFails \/ LoginLost \/ LoginTimeout \/ NoFirstPrompt \/ InvalidStep
  BY <1>5, <1>6 DEF ConnectFails, LoginLost, LoginTimeout, NoFirstPrompt, InvalidStep
<1>7. CASE Cancel
  BY <1>3, <1>5, <1>7 DEF Cancel
<1>8. CASE \/ OpenTunnel \/ OpenConn \/ LoginPrompt \/ LoginEof \/ LoginUser \/ LoginPassword
           \/ LoginReads
  <2>1. pc' \in {"connect", "shell", "login"}
    BY <1>8 DEF OpenTunnel, OpenConn, LoginPrompt, LoginEof, LoggedIn, LoginUser, LoginPassword,
       GiveCredential, AskedUser, AskedPassword, Asked, LoginReads, LoginWaits
  <2> QED BY <1>3, <2>1
<1>9. CASE StartShell \/ SecondNewline
  <2>1. pc' = "prompt" /\ rd' = Reading(FALSE)
    BY <1>9 DEF StartShell, SecondNewline
  <2> QED BY <1>2, <1>3, <2>1
<1>10. CASE ScriptEnds \/ CleaningUp
  <2>1. pc' \notin {"prompt", "step", "command"}
    BY <1>4, <1>10 DEF ScriptEnds, CleaningUp, CloseConn, ConnClosed, CloseTunnel, TunnelClosed,
       EndAttempt, NextAttempt
  <2> QED BY <1>3, <2>1
<1>11. CASE FirstPrompt \/ CommandEnds
  <2>1. Told /\ UNCHANGED <<shell, typed, stream>> /\ step' \in {step, step + 1}
    BY <1>11 DEF FirstPrompt, CommandEnds, NextStep, deviceVars
  <2>2. Clean' => Clean
    <3>1. step' \in Nat /\ step <= step'
      BY <1>1, <2>1
    <3>2. \A j \in 1 .. step - 1 : j \in 1 .. step' - 1
      BY <1>1, <3>1, RangeGrows
    <3> QED BY <1>1, <3>2 DEF Clean
  <2>3. Settled' = Settled
    BY <2>1 DEF Settled, AtEof
  <2> QED BY <2>1, <2>2, <2>3 DEF SettledInv
<1>12. CASE Drain
  <2>1. pc = "step" /\ pc' = "step" /\ step' = step /\ \E k \in ChunkSizes : TRUE
    BY <1>12 DEF Drain, PlainStep, AtStep
  <2>2. ~Settled
    <3>1. stream \in Seq(Items)
      BY DEF DataInv, DeviceTypes
    <3>2. PICK k \in 1 .. Len(stream) : \A i \in 1 .. k : stream[i].kind # "eof"
      BY <2>1 DEF ChunkSizes
    <3>3. Len(stream) \in Nat /\ 1 \in 1 .. k /\ stream # <<>> /\ Head(stream) = stream[1]
      BY <3>1, <3>2
    <3> QED BY <3>2, <3>3 DEF Settled, AtEof
  <2>3. Clean' = Clean
    BY <1>1, <2>1 DEF Clean
  <2> QED BY <2>1, <2>2, <2>3 DEF SettledInv
<1>13. CASE ThenStep \/ TypeCommand
  <2>1. AwaitOrGoOn /\ step \in Steps
    BY <1>13, Begins DEF ThenStep, TypeCommand
  <2>2. pc' = "command" /\ rd' = Reading(TRUE)
    BY <2>1 DEF AwaitOrGoOn, Undisturbed, Current
  <2> QED BY <1>2, <1>3, <2>2
<1>14. CASE ThenStepBad \/ CommandFails
  <2>1. StepFails /\ step \in Nat
    BY <1>1, <1>14 DEF ThenStepBad, CommandFails
  <2>2. CASE Current.phase = "post"
    <3>1. step' = step + 1
      BY <2>1, <2>2 DEF StepFails, NextStep
    <3>2. step \in 1 .. step' - 1
      BY <1>1, <3>1
    <3>3. ~Clean'
      BY <1>1, <2>2, <3>2 DEF Clean, Current
    <3> QED BY <3>3 DEF SettledInv
  <2>3. CASE Current.phase # "post"
    BY <1>5, <2>1, <2>3 DEF StepFails
  <2> QED BY <2>2, <2>3
<1> QED BY <1>6, <1>7, <1>8, <1>9, <1>10, <1>11, <1>12, <1>13, <1>14 DEF Login, Commands

-----------------------------------------------------------------------------
(***************************************************************************)
(* What a device that asks or pages has said last.                         *)
(***************************************************************************)
LEMMA OutTypes ==
    DataInv => /\ rd.buf \in Seq(Items) /\ stream \in Seq(Items) /\ Out \in Seq(Items)
<1> SUFFICES ASSUME DataInv
             PROVE  rd.buf \in Seq(Items) /\ stream \in Seq(Items) /\ Out \in Seq(Items)
  OBVIOUS
<1>1. rd.buf \in Seq(Output) /\ stream \in Seq(Items)
  BY DEF DataInv, DeviceTypes, Reads
<1>2. Output \subseteq Items
  BY DEF Output, Items
<1>3. rd.buf \in Seq(Items)
  BY <1>1, <1>2, SeqMonotonic
<1>4. \A b, s \in Seq(Items) : b \o s \in Seq(Items)
  BY ConcatProperties
<1> QED BY <1>1, <1>3, <1>4 DEF Out

\* Reading moves lines, and printing adds them.
LEMMA OutRead ==
    ASSUME DataInv, NEW k \in ChunkSizes, stream' = Rest(k), rd'.buf = rd.buf \o Chunk(k)
    PROVE  Out' = Out
<1>1. PICK b \in Seq(Items), s \in Seq(Items) : b = rd.buf /\ s = stream
  BY OutTypes
<1>2. k \in 1 .. Len(s)
  BY <1>1 DEF ChunkSizes
<1>3. (b \o SubSeq(s, 1, k)) \o SubSeq(s, k + 1, Len(s)) = b \o s
  BY <1>2, Rejoined
<1> QED BY <1>1, <1>3 DEF Out, Chunk, Rest

LEMMA OutSays ==
    ASSUME DataInv, NEW x \in Items, rd' = rd, stream' = stream \o <<x>>
    PROVE  Out' = Out \o <<x>> /\ LastKind(Out') = x.kind
<1>1. PICK b \in Seq(Items), s \in Seq(Items), o \in Seq(Items) :
          b = rd.buf /\ s = stream /\ o = Out
  BY OutTypes
<1>2. (b \o s) \o <<x>> = b \o (s \o <<x>>)
  OBVIOUS
<1>3. LastKind(o \o <<x>>) = x.kind
  BY LastAppended
<1> QED BY <1>1, <1>2, <1>3 DEF Out

\* A reader that answers no pager changes nothing of what was printed.
LEMMA ReaderOut ==
    ASSUME DataInv, ReadInv, Reader \/ ReadLost, ~AnswerPager
    PROVE  Out' = Out /\ typed' = typed
<1>1. \/ UNCHANGED <<typed, stream>> /\ rd'.buf = rd.buf
      \/ /\ typed' = typed
         /\ \E k \in ChunkSizes : stream' = Rest(k) /\ rd'.buf = rd.buf \o Chunk(k)
  BY ReaderStep
<1> QED BY <1>1, OutRead DEF Out

LEMMA AttentionDevice ==
    ASSUME DataInv, AttentionInv, Device \/ DeviceCuts, Untouched
    PROVE  AttentionInv'
<1>1. pc' = pc /\ Clean' = Clean
  BY DEF Clean, Untouched, settings
<1> SUFFICES ASSUME pc = "command", Clean
             PROVE  /\ shell'.state = "asking" => LastKind(Out') = "ask"
                    /\ shell'.state = "paging" => typed' # <<>> \/ LastKind(Out') \in Pagers
  BY <1>1 DEF AttentionInv
<1>2. shell \in Shells /\ rd' = rd /\ shell.cmd \in Nat
  BY DEF DataInv, DeviceTypes, Shells, Device, DeviceTakes, PagerTakes, DeviceGreets, LoginTakes,
         DeviceAnswers, DeviceCuts
<1>3. ASSUME NEW k \in LineKinds, Say(<<Item(k, shell.cmd)>>) PROVE LastKind(Out') = k
  <2>1. PICK x \in Items : x = Item(k, shell.cmd) /\ x.kind = k
    BY <1>2, ItemTypes DEF Item
  <2> QED BY <1>2, <1>3, <2>1, OutSays DEF Say
<1>4. CASE DeviceTakes
  <2>1. \/ shell' = shell /\ stream' = stream /\ shell.state \in {"waiting", "asking"}
        \/ shell'.state \in {"waiting", "answering"}
    BY <1>4 DEF DeviceTakes, OffShell
  <2>2. shell' = shell /\ stream' = stream => Out' = Out
    BY <1>2 DEF Out
  <2> QED BY <2>1, <2>2 DEF AttentionInv
<1>5. CASE PagerTakes \/ DeviceCuts
  <2>1. shell'.state \in {"answering", "gone"}
    BY <1>2, <1>5 DEF PagerTakes, DeviceCuts, OffShell, Shells
  <2> QED BY <2>1
<1>6. CASE LoginTakes
  <2>1. \E st \in {"user", "password", "waiting"} : shell' = [shell EXCEPT !.state = st]
    BY <1>6 DEF LoginTakes
  <2>2. shell'.state \in {"user", "password", "waiting"}
    BY <1>2, <2>1 DEF Shells
  <2> QED BY <2>2
<1>8. CASE DeviceGreets
  <2>1. \/ shell.state = "greeting" /\ shell' = [shell EXCEPT !.lines = @ + 1]
        \/ shell' = [OffShell EXCEPT !.state = "user"]
    BY <1>8 DEF DeviceGreets
  <2>2. shell'.state \in {"greeting", "user"}
    BY <1>2, <2>1 DEF Shells, OffShell
  <2> QED BY <2>2
<1>7. CASE DeviceAnswers
  <2>1. \/ shell' = [shell EXCEPT !.lines = @ + 1, !.paged = FALSE]
        \/ shell' = [OffShell EXCEPT !.state = "waiting"]
        \/ shell' = [shell EXCEPT !.state = "paging"]
           /\ \E k \in Pagers : Say(<<Item(k, shell.cmd)>>)
        \/ shell' = [shell EXCEPT !.state = "asking"] /\ Say(<<Item("ask", shell.cmd)>>)
    BY <1>7 DEF DeviceAnswers, Pagers
  <2>2. shell.state = "answering"
    BY <1>7 DEF DeviceAnswers
  <2>3. \/ shell'.state \in {"answering", "waiting"}
        \/ shell'.state = "paging" /\ \E k \in Pagers : Say(<<Item(k, shell.cmd)>>)
        \/ shell'.state = "asking" /\ Say(<<Item("ask", shell.cmd)>>)
    BY <1>2, <2>1, <2>2 DEF Shells, OffShell
  <2>4. Pagers \cup {"ask"} \subseteq LineKinds
    BY DEF Pagers, LineKinds
  <2>5. ASSUME NEW k \in Pagers, Say(<<Item(k, shell.cmd)>>) PROVE LastKind(Out') \in Pagers
    BY <1>3, <2>4, <2>5
  <2>6. ASSUME Say(<<Item("ask", shell.cmd)>>) PROVE LastKind(Out') = "ask"
    BY <1>3, <2>4, <2>6
  <2> QED BY <2>3, <2>5, <2>6
<1> QED BY <1>4, <1>5, <1>6, <1>7, <1>8 DEF Device

LEMMA AttentionReader ==
    ASSUME DataInv, ReadInv, AttentionInv, Reader \/ ReadLost, Untouched
    PROVE  AttentionInv'
<1>1. pc' = pc /\ Clean' = Clean /\ shell' = shell
  BY ReaderStep DEF Clean, Untouched, settings
<1>2. CASE ~AnswerPager
  <2>1. Out' = Out /\ typed' = typed
    BY <1>2, ReaderOut
  <2> QED BY <1>1, <2>1 DEF AttentionInv
<1>3. CASE AnswerPager
  <2>1. /\ typed' = Append(typed, Input("key", 0)) /\ stream' = stream
        /\ LastKind(rd.buf) \in Pagers /\ typed \in Seq(Inputs)
    BY <1>3 DEF AnswerPager, AtPager, DataInv, DeviceTypes
  <2>2. typed' # <<>>
    BY <2>1, ItemTypes
  <2>3. PICK b \in Seq(Items), s \in Seq(Items) : b = rd.buf /\ s = stream
    BY OutTypes
  <2>4. PICK c \in Seq(Items) : c = rd'.buf
    <3>1. rd \in Reads /\ (rd' = rd \/ rd' = [rd EXCEPT !.buf = SubSeq(@, 1, Len(@) - 1)])
      BY <1>3 DEF AnswerPager, DataInv
    <3>2. rd'.buf \in {b, SubSeq(b, 1, Len(b) - 1)}
      BY <2>3, <3>1 DEF Reads
    <3>3. b # <<>>
      BY <2>1, <2>3 DEF LastKind, Pagers
    <3>4. SubSeq(b, 1, Len(b) - 1) \in Seq(Items)
      BY <3>3
    <3> QED BY <3>2, <3>4
  <2>5. LastKind(Out) = "ask" => LastKind(Out') = "ask"
    <3>1. /\ s = <<>> => LastKind(b \o s) = LastKind(b)
          /\ s # <<>> => LastKind(b \o s) = LastKind(s)
      BY KindsSplit
    <3>2. s # <<>> => LastKind(c \o s) = LastKind(s)
      BY KindsSplit
    <3>3. LastKind(b) \in Pagers /\ Out = b \o s /\ Out' = c \o s
      BY <2>1, <2>3, <2>4 DEF Out
    <3> QED BY <3>1, <3>2, <3>3 DEF Pagers
  <2> QED BY <1>1, <2>2, <2>5 DEF AttentionInv
<1> QED BY <1>2, <1>3

\* The session awaits the output of the command it has just typed at a device that
\* is silent or gone.
LEMMA ToCommand ==
    ASSUME IInv, DataInv, SettledInv, Undisturbed,
           \/ OpenTunnel \/ OpenConn \/ Login \/ Commands \/ CleaningUp
           \/ ConnectFails \/ LoginLost \/ Cancel,
           pc' = "command", Clean'
    PROVE  /\ ThenStep \/ TypeCommand
           /\ pc = "step" /\ step' = step /\ script' = script /\ rd' = Reading(TRUE)
           /\ UNCHANGED <<shell, stream, sent>> /\ Settled
<1>1. CleanUp # "command"
  BY CleanUpPoint
<1>2. ~(ConnectFails \/ LoginLost \/ LoginTimeout \/ NoFirstPrompt \/ InvalidStep)
  BY <1>1 DEF ConnectFails, LoginLost, LoginTimeout, NoFirstPrompt, InvalidStep, Fail
<1>3. ~Cancel
  BY <1>1 DEF Cancel, Fail
<1>4. ~(\/ OpenTunnel \/ OpenConn \/ LoginPrompt \/ LoginEof \/ LoginUser \/ LoginPassword
        \/ LoginReads)
  BY DEF OpenTunnel, OpenConn, LoginPrompt, LoginEof, LoggedIn, LoginUser, LoginPassword,
     GiveCredential, AskedUser, AskedPassword, Asked, LoginReads, LoginWaits
<1>5. ~(StartShell \/ FirstPrompt \/ SecondNewline \/ Drain \/ CommandEnds)
  BY DEF StartShell, FirstPrompt, SecondNewline, Drain, PlainStep, AtStep, CommandEnds, NextStep
<1>6. ~(ScriptEnds \/ CleaningUp)
  BY <1>1 DEF ScriptEnds, CleaningUp, CloseConn, ConnClosed, CloseTunnel, TunnelClosed,
     EndAttempt, NextAttempt
<1>7. ~(ThenStepBad \/ CommandFails)
  BY <1>1 DEF ThenStepBad, CommandFails, StepFails, NextStep, Fail
<1>8. ThenStep \/ TypeCommand
  BY <1>2, <1>3, <1>4, <1>5, <1>6, <1>7 DEF Login, Commands
<1>9. /\ pc = "step" /\ AwaitOrGoOn /\ script' = script /\ UNCHANGED <<shell, stream, sent>>
      /\ step \in Steps
  BY <1>8, Begins, SettingsKept DEF ThenStep, TypeCommand, settings
<1>10. step' = step /\ rd' = Reading(TRUE)
  BY <1>9 DEF AwaitOrGoOn, Undisturbed, Current
<1>11. Settled
  BY <1>9, <1>10 DEF SettledInv, Clean
<1> QED BY <1>8, <1>9, <1>10, <1>11

LEMMA AttentionSession ==
    ASSUME IInv, DataInv, SettledInv, Undisturbed,
           \/ OpenTunnel \/ OpenConn \/ Login \/ Commands \/ CleaningUp
           \/ ConnectFails \/ LoginLost \/ Cancel
    PROVE  AttentionInv'
<1> SUFFICES ASSUME pc' = "command", Clean' PROVE shell'.state \notin {"asking", "paging"}
  BY DEF AttentionInv
<1>1. shell' = shell /\ Settled
  BY ToCommand
<1> QED BY <1>1 DEF Settled

-----------------------------------------------------------------------------
(***************************************************************************)
(* The answer to a plain command.                                          *)
(***************************************************************************)
\* A line behind an answer is a line of the answer.
LEMMA LineBehind ==
    ASSUME NEW S, NEW e \in Seq(S), NEW a \in Seq(S), NEW u \in Seq(S)
    PROVE  ((e \o a) \o <<>>) \o u = (e \o (a \o u)) \o <<>>
<1>1. e \o a \in Seq(S) /\ a \o u \in Seq(S) /\ e \o (a \o u) \in Seq(S)
  BY ConcatProperties
<1>2. PICK w \in Seq(S), v \in Seq(S) : w = e \o a /\ v = e \o (a \o u)
  BY <1>1
<1>3. w \o <<>> = w /\ v \o <<>> = v
  BY ConcatEmptySeq
<1>4. (e \o a) \o u = e \o (a \o u)
  OBVIOUS
<1> QED BY <1>2, <1>3, <1>4

\* The parts of the output of a command.
LEMMA AnswerTypes ==
    ASSUME IInv, DataInv, RunInv, pc = "command"
    PROVE  /\ step \in Steps /\ step \in Nat
           /\ <<Item("echo", step)>> \in Seq(Items) /\ sent[step] \in Seq(Items)
           /\ sent[step] \in Seq(Answers)
           /\ KindsOf(<<Item("echo", step)>> \o sent[step]) \cap (Pagers \cup {"eof"}) = {}
<1>1. step \in Steps /\ step \in Nat
  BY DEF IInv, Types, ScriptInv, Steps
<1>2. sent[step] \in Seq(Answers)
  BY <1>1 DEF RunInv
<1>3. PICK a \in Seq(Answers) : a = sent[step]
  BY <1>2
<1>4. Answers \subseteq Items
  BY DEF Answers, Items, LineKinds
<1>5. a \in Seq(Items)
  BY <1>4, SeqMonotonic
<1>6. PICK e \in Items : e = Item("echo", step) /\ e.kind = "echo"
  BY <1>1, ItemTypes DEF Item, LineKinds
<1>7. <<e>> \in Seq(Items) /\ KindsOf(<<e>>) = {"echo"}
  BY <1>6 DEF KindsOf
<1>8. KindsOf(a) \subseteq {"line", "mark", "ask", "prompt"}
  <2>1. \A i \in 1 .. Len(a) : a[i] \in Answers
    BY ElementOfSeq
  <2> QED BY <2>1 DEF KindsOf, Answers
<1>9. PICK u \in Seq(Items) : u = <<e>>
  BY <1>7
<1>10. KindsOf(u \o a) = KindsOf(u) \cup KindsOf(a)
  BY <1>5, KindsJoined
<1> QED BY <1>1, <1>2, <1>3, <1>5, <1>6, <1>7, <1>8, <1>9, <1>10 DEF Pagers

\* A line behind what was printed in answer to a command, and a line of the answer.
LEMMA AnsweredMore ==
    ASSUME IInv, DataInv, RunInv, pc = "command", step' = step, NEW x \in Items,
           Out' = Out \o <<x>>
    PROVE  /\ sent' = sent => \A r \in Seq(Items) : Answered(r) => Answered(r \o <<x>>)'
           /\ sent'[step] = sent[step] \o <<x>> /\ Answered(<<>>) => Answered(<<>>)'
<1>1. PICK e \in Seq(Items), a \in Seq(Items) : e = <<Item("echo", step)>> /\ a = sent[step]
  BY AnswerTypes
<1>2. PICK u \in Seq(Items) : u = <<x>>
  <2>1. <<x>> \in Seq(Items)
    OBVIOUS
  <2> QED BY <2>1
<1>3. ASSUME sent' = sent, NEW r \in Seq(Items), Answered(r) PROVE Answered(r \o <<x>>)'
  <2>1. ((e \o a) \o r) \o u = (e \o a) \o (r \o u)
    <3>1. e \o a \in Seq(Items)
      BY ConcatProperties
    <3>2. PICK w \in Seq(Items) : w = e \o a
      BY <3>1
    <3>3. (w \o r) \o u = w \o (r \o u)
      OBVIOUS
    <3> QED BY <3>2, <3>3
  <2>2. Out' = <<Item("echo", step)>> \o sent[step] \o (r \o <<x>>)
    BY <1>1, <1>2, <1>3, <2>1 DEF Answered
  <2> QED BY <1>3, <2>2 DEF Answered
<1>4. ASSUME sent'[step] = sent[step] \o <<x>>, Answered(<<>>) PROVE Answered(<<>>)'
  <2>1. ((e \o a) \o <<>>) \o u = (e \o (a \o u)) \o <<>>
    BY LineBehind
  <2>2. Out' = <<Item("echo", step)>> \o sent'[step] \o <<>>
    BY <1>1, <1>2, <1>4, <2>1 DEF Answered
  <2> QED BY <2>2 DEF Answered
<1> QED BY <1>3, <1>4

\* The device's steps keep AnswerInv.
LEMMA AnswerDevice ==
    ASSUME IInv, DataInv, RunInv, AnswerInv, Device, Untouched
    PROVE  AnswerInv'
<1>1. UNCHANGED <<pc, step, script>> /\ Clean' = Clean /\ Current' = Current
  BY DEF Clean, Current, Untouched, settings
<1> SUFFICES ASSUME pc = "command", Clean, Current.then = "none"
             PROVE  Untaken' \/ Paged' \/ AnswerOf'
  BY <1>1 DEF AnswerInv
<1>2. shell \in Shells /\ typed \in Seq(Inputs) /\ rd' = rd /\ step \in Steps /\ step \in Nat
  BY AnswerTypes, DeviceStep DEF DataInv, DeviceTypes
<1>3. Paged => Paged'
  BY <1>2 DEF Paged
<1>4. ~(Untaken /\ shell.state = "gone") /\ shell.state # "gone"
  BY DeviceStep
<1>5. CASE Untaken
  <2>1. /\ shell.state = "waiting" /\ typed = <<Input("command", step)>> /\ stream = <<>>
        /\ rd.buf = <<>> /\ sent[step] = <<>>
    BY <1>4, <1>5 DEF Untaken
  <2>2. DeviceTakes
    BY <2>1 DEF Device, DeviceTakes, PagerTakes, DeviceGreets, LoginTakes, DeviceAnswers
  <2>3. PICK i \in Inputs : i = Input("command", step) /\ i.kind = "command" /\ i.cmd = step
    BY <1>2, ItemTypes DEF Input
  <2>4. Head(typed) = i /\ Tail(typed) = <<>>
    BY <2>1, <2>3
  <2>5. /\ shell' = [OffShell EXCEPT !.state = "answering", !.cmd = step]
        /\ stream' = stream \o <<Item("echo", step)>> /\ typed' = <<>> /\ sent' = sent
    BY <2>1, <2>2, <2>3, <2>4 DEF DeviceTakes, Say
  <2>6. shell'.state = "answering" /\ shell'.cmd = step
    BY <2>5 DEF OffShell
  <2>7. Answered(<<>>)'
    <3>1. PICK e \in Seq(Items) : e = <<Item("echo", step)>>
      BY AnswerTypes
    <3>2. <<>> \o (<<>> \o e) = e /\ (e \o <<>>) \o <<>> = e
      BY ConcatEmptySeq
    <3>3. Out' = <<>> \o (<<>> \o e)
      BY <1>2, <2>1, <2>5, <3>1 DEF Out
    <3>4. Out' = (<<Item("echo", step)>> \o sent'[step]) \o <<>>
      BY <2>1, <2>5, <3>1, <3>2, <3>3
    <3> QED BY <1>1, <3>4 DEF Answered
  <2> QED BY <1>1, <2>5, <2>6, <2>7 DEF AnswerOf
<1>6. CASE AnswerOf /\ shell.state = "answering"
  <2>1. shell.cmd = step /\ typed = <<>> /\ Answered(<<>>) /\ DeviceAnswers
    BY <1>6 DEF AnswerOf, Device, DeviceTakes, PagerTakes, DeviceGreets, LoginTakes
  <2>2. typed' = <<>>
    BY <2>1 DEF DeviceAnswers
  <2>3. ASSUME NEW k \in LineKinds, NEW c \in Nat, Say(<<Item(k, c)>>)
        PROVE  /\ Item(k, c) \in Items
               /\ Out' = Out \o <<Item(k, c)>>
    <3>1. PICK x \in Items : x = Item(k, c)
      BY ItemTypes
    <3> QED BY <1>2, <2>3, <3>1, OutSays DEF Say
  <2>4. ASSUME NEW k \in {"line", "mark", "ask", "prompt"}, NEW c \in Nat, Say(<<Item(k, c)>>),
               sent' = [sent EXCEPT ![shell.cmd] = Append(@, Item(k, c))]
        PROVE  Answered(<<>>)'
    <3>1. PICK x \in Answers : x = Item(k, c)
      BY DEF Answers, Item
    <3>2. k \in LineKinds
      BY DEF LineKinds
    <3>3. x \in Items /\ Out' = Out \o <<x>>
      BY <2>3, <2>4, <3>1, <3>2
    <3>4. sent'[step] = sent[step] \o <<x>>
      BY <1>2, <2>1, <2>4, <3>1, SentGrows
    <3> QED BY <1>1, <2>1, <3>3, <3>4, AnsweredMore
  <2>5. CASE \E k \in {"line", "mark"} :
                /\ Say(<<Item(k, shell.cmd)>>)
                /\ sent' = [sent EXCEPT ![shell.cmd] = Append(@, Item(k, shell.cmd))]
                /\ shell' = [shell EXCEPT !.lines = @ + 1, !.paged = FALSE]
    <3>1. shell'.state = "answering" /\ shell'.cmd = step
      BY <1>2, <1>6, <2>1, <2>5 DEF Shells
    <3>2. Answered(<<>>)'
      BY <1>2, <2>1, <2>4, <2>5
    <3> QED BY <1>1, <2>2, <3>1, <3>2 DEF AnswerOf
  <2>6. CASE /\ \E k \in Pagers : Say(<<Item(k, shell.cmd)>>)
             /\ shell' = [shell EXCEPT !.state = "paging"] /\ sent' = sent
    <3>1. shell'.state = "paging" /\ shell'.cmd = step
      BY <1>2, <2>1, <2>6 DEF Shells
    <3>2. PICK k \in Pagers : Say(<<Item(k, step)>>)
      BY <2>1, <2>6
    <3>3. k \in LineKinds
      BY DEF Pagers, LineKinds
    <3>4. PICK x \in Items : x = Item(k, step) /\ Out' = Out \o <<x>>
      BY <1>2, <2>3, <3>2, <3>3
    <3>5. Answered(<<>> \o <<x>>)'
      <4>1. <<>> \in Seq(Items)
        OBVIOUS
      <4> QED BY <1>1, <2>1, <2>6, <3>4, <4>1, AnsweredMore
    <3>6. <<>> \o <<x>> = <<x>>
      OBVIOUS
    <3>7. \E rest \in Pages' : Answered(rest)'
      <4>1. <<x>> \in Pages'
        BY <1>1, <3>4 DEF Pages
      <4>2. Answered(<<x>>)'
        BY <3>5, <3>6
      <4> QED BY <4>1, <4>2
    <3> QED BY <1>1, <2>2, <3>1, <3>7 DEF AnswerOf
  <2>7. CASE /\ Say(<<Item("ask", shell.cmd)>>)
             /\ shell' = [shell EXCEPT !.state = "asking"]
             /\ sent' = [sent EXCEPT ![shell.cmd] = Append(@, Item("ask", shell.cmd))]
    <3>1. shell'.state = "asking" /\ shell'.cmd = step
      BY <1>2, <2>1, <2>7 DEF Shells
    <3>2. Answered(<<>>)'
      BY <1>2, <2>1, <2>4, <2>7
    <3> QED BY <1>1, <2>2, <3>1, <3>2 DEF AnswerOf
  <2>8. CASE /\ Say(<<Item("prompt", 0)>>)
             /\ shell' = [OffShell EXCEPT !.state = "waiting"]
             /\ sent' = [sent EXCEPT ![shell.cmd] = Append(@, Item("prompt", 0))]
    <3>1. shell'.state = "waiting"
      BY <2>8 DEF OffShell
    <3>2. Answered(<<>>)'
      BY <2>4, <2>8
    <3> QED BY <1>1, <2>2, <3>1, <3>2 DEF AnswerOf
  <2> QED BY <2>1, <2>5, <2>6, <2>7, <2>8 DEF DeviceAnswers, Pagers
<1>7. CASE AnswerOf /\ shell.state # "answering"
  <2>1. /\ shell.state = "paging" /\ shell.cmd = step /\ typed = <<Input("key", 0)>>
        /\ Answered(<<>>)
    BY <1>4, <1>7 DEF AnswerOf, Device, DeviceTakes, PagerTakes, DeviceGreets, LoginTakes, DeviceAnswers
  <2>2. PagerTakes
    BY <2>1 DEF Device, DeviceTakes, PagerTakes, DeviceGreets, LoginTakes, DeviceAnswers
  <2>3. /\ shell'.state = "answering" /\ shell'.cmd = step
        /\ UNCHANGED <<stream, sent, rd>>
    BY <1>2, <2>1, <2>2 DEF PagerTakes, Shells
  <2>4. typed' = <<>>
    <3>1. PICK i \in Inputs : i = Input("key", 0)
      BY ItemTypes
    <3>2. Tail(<<i>>) = <<>>
      OBVIOUS
    <3> QED BY <2>1, <2>2, <3>1, <3>2 DEF PagerTakes
  <2>5. Answered(<<>>)'
    BY <1>1, <2>1, <2>3 DEF Answered, Out
  <2> QED BY <1>1, <2>3, <2>4, <2>5 DEF AnswerOf
<1> QED BY <1>3, <1>5, <1>6, <1>7 DEF AnswerInv

LEMMA TwoLines ==
    ASSUME NEW S, NEW x \in S, NEW y \in S
    PROVE  <<y>> \in Seq(S) /\ <<y>> \o <<x>> = <<y, x>>
<1>1. <<y>> \in Seq(S) /\ <<x>> \in Seq(S)
  OBVIOUS
<1>2. PICK a \in Seq(S), b \in Seq(S) : a = <<y>> /\ b = <<x>>
  BY <1>1
<1>3. <<y, x>> = a \o b
  BY <1>2
<1> QED BY <1>1, <1>2, <1>3

\* A device that ends the session leaves its answer as it is.
LEMMA AnswerCut ==
    ASSUME IInv, DataInv, RunInv, AnswerInv, DeviceCuts, Untouched
    PROVE  AnswerInv'
<1>1. UNCHANGED <<pc, step, script>> /\ Clean' = Clean /\ Current' = Current
  BY DEF Clean, Current, Untouched, settings
<1> SUFFICES ASSUME pc = "command", Clean, Current.then = "none"
             PROVE  Untaken' \/ Paged' \/ AnswerOf'
  BY <1>1 DEF AnswerInv
<1>2. /\ rd' = rd /\ sent' = sent /\ stream' = stream \o <<Eof>> /\ step \in Nat
      /\ shell.state # "gone" /\ shell'.state = "gone"
  BY AnswerTypes DEF DeviceCuts, OffShell, Say, Eof
<1>3. PICK x \in Items : x = Eof
  BY EofKind
<1>4. CASE Paged
  BY <1>2, <1>4 DEF Paged
<1>5. CASE Untaken
  <2>1. <<>> \o <<x>> = <<x>>
    OBVIOUS
  <2>2. /\ stream = <<>> /\ rd.buf = <<>> /\ sent[step] = <<>>
    BY <1>2, <1>5 DEF Untaken
  <2>3. stream' = <<Eof>>
    BY <1>2, <1>3, <2>1, <2>2
  <2> QED BY <1>1, <1>2, <2>2, <2>3 DEF Untaken
<1>6. CASE AnswerOf
  <2>1. Out' = Out \o <<x>>
    BY <1>2, <1>3, OutSays
  <2>2. ASSUME NEW r \in Seq(Items), Answered(r) PROVE Answered(r \o <<x>>)'
    BY <1>1, <1>2, <2>1, <2>2, AnsweredMore
  <2>3. CASE Answered(<<>>)
    <3>1. <<>> \in Seq(Items) /\ <<>> \o <<x>> = <<x>>
      OBVIOUS
    <3>2. Answered(<<x>>)'
      BY <2>2, <2>3, <3>1
    <3> QED BY <1>2, <1>3, <3>2 DEF AnswerOf
  <2>4. CASE \E rest \in Pages : Answered(rest)
    <3>1. PICK k \in Pagers : Answered(<<Item(k, step)>>)
      BY <2>4 DEF Pages
    <3>2. PICK y \in Items : y = Item(k, step)
      BY <1>2, ItemTypes DEF Pagers, LineKinds
    <3>3. <<y>> \in Seq(Items) /\ <<y>> \o <<x>> = <<y, x>>
      BY TwoLines
    <3>4. Answered(<<y, x>>)'
      BY <2>2, <3>1, <3>2, <3>3
    <3>5. <<y, x>> \in PageEnds'
      BY <1>1, <1>3, <3>2 DEF PageEnds, Eof
    <3> QED BY <1>2, <3>4, <3>5 DEF AnswerOf
  <2> QED BY <1>2, <1>6, <2>3, <2>4 DEF AnswerOf
<1> QED BY <1>4, <1>5, <1>6 DEF AnswerInv

\* The reader removes the only pager there is.
LEMMA PagerAnswered ==
    ASSUME IInv, DataInv, RunInv, pc = "command", LastKind(rd.buf) \in Pagers,
           NEW r \in Seq(Items), Answered(r)
    PROVE  /\ KindsOf(r) \cap Pagers # {}
           /\ \A p \in Items, e \in Seq(Items) :
                r = <<p>> \o e /\ KindsOf(e) \cap Pagers = {}
                  => /\ stream = e
                     /\ SubSeq(rd.buf, 1, Len(rd.buf) - 1) \o stream
                            = <<Item("echo", step)>> \o sent[step] \o e
<1>1. PICK b \in Seq(Items), s \in Seq(Items) : b = rd.buf /\ s = stream
  BY OutTypes
<1>2. PICK a \in Seq(Items) : a = <<Item("echo", step)>> \o sent[step]
                              /\ KindsOf(a) \cap Pagers = {}
  <2>1. PICK u \in Seq(Items), v \in Seq(Items) : u = <<Item("echo", step)>> /\ v = sent[step]
    BY AnswerTypes
  <2>2. u \o v \in Seq(Items)
    BY ConcatProperties
  <2> QED BY <2>1, <2>2, AnswerTypes
<1>3. b \o s = a \o r
  BY <1>1, <1>2 DEF Answered, Out
<1>4. KindsOf(r) \cap Pagers # {}
  <2>1. LastKind(b) \in KindsOf(b \o s) \cup {"none"}
    BY KindsSplit
  <2>2. KindsOf(a \o r) = KindsOf(a) \cup KindsOf(r)
    BY KindsJoined
  <2>3. LastKind(b) \in Pagers
    BY <1>1
  <2> QED BY <1>2, <1>3, <2>1, <2>2, <2>3 DEF Pagers
<1>5. ASSUME NEW p \in Items, NEW e \in Seq(Items), r = <<p>> \o e, KindsOf(e) \cap Pagers = {}
      PROVE  SubSeq(b, 1, Len(b) - 1) \o s = a \o e /\ s = e
  <2>2. LastKind(b) \in Pagers
    BY <1>1
  <2>3. NoPager(a) /\ NoPager(e)
    BY <1>2, <1>5 DEF NoPager
  <2>4. <<p>> \in Seq(Items) /\ Len(<<p>>) = 1
    OBVIOUS
  <2>5. PICK q \in Seq(Items) : q = <<p>>
    BY <2>4
  <2>6. b \o s = a \o r /\ r = q \o e /\ Len(q) = 1
    BY <1>3, <1>5, <2>4, <2>5
  <2>7. SubSeq(b, 1, Len(b) - 1) = a /\ s = e
    BY ONLY <2>2, <2>3, <2>6, PagerRemoved
  <2> QED BY <2>7
<1> QED BY <1>1, <1>2, <1>4, <1>5

\* A pager that is answered is the last line the device has printed.
LEMMA AnswerPagerKept ==
    ASSUME IInv, DataInv, RunInv, pc = "command", AnswerPager, AnswerOf, step' = step,
           LastKind(rd.buf) # "pagerLine"
    PROVE  AnswerOf'
<1>1. /\ typed' = Append(typed, Input("key", 0)) /\ UNCHANGED <<shell, stream, sent>>
      /\ LastKind(rd.buf) = "pager" /\ LastKind(rd.buf) \in Pagers
      /\ rd' = [rd EXCEPT !.buf = SubSeq(@, 1, Len(@) - 1)]
  BY DEF AnswerPager, AtPager, Pagers
<1>2. rd'.buf = SubSeq(rd.buf, 1, Len(rd.buf) - 1)
  BY <1>1 DEF DataInv, Reads
<1>3. step \in Nat
  BY AnswerTypes
<1>4. ~Answered(<<>>)
  <2>1. <<>> \in Seq(Items) /\ KindsOf(<<>>) = {}
    BY DEF KindsOf
  <2> QED BY <1>1, <2>1, PagerAnswered
<1>5. PICK z \in Items : z = Eof /\ z.kind = "eof"
  BY EofKind
<1>6. /\ <<z>> \in Seq(Items) /\ KindsOf(<<z>>) \cap Pagers = {}
      /\ KindsOf(<<>>) \cap Pagers = {} /\ <<>> \in Seq(Items)
  BY <1>5 DEF KindsOf, Pagers
<1>7. ~Answered(<<Eof>>)
  BY <1>1, <1>5, <1>6, PagerAnswered
<1>8. ASSUME NEW k \in Pagers, NEW e \in Seq(Items), Answered(<<Item(k, step)>> \o e),
             KindsOf(e) \cap Pagers = {}
      PROVE  Answered(e)'
  <2>1. PICK p \in Items : p = Item(k, step)
    BY <1>3, ItemTypes DEF Pagers, LineKinds
  <2>2. <<p>> \in Seq(Items)
    OBVIOUS
  <2>3. PICK r \in Seq(Items) : r = <<p>> \o e
    BY <2>2, ConcatProperties
  <2>4. SubSeq(rd.buf, 1, Len(rd.buf) - 1) \o stream = <<Item("echo", step)>> \o sent[step] \o e
    BY <1>1, <1>8, <2>1, <2>3, PagerAnswered
  <2> QED BY <1>1, <1>2, <2>4 DEF Answered, Out
<1>9. CASE \E rest \in Pages : Answered(rest) /\ shell.state = "paging" /\ shell.cmd = step
                               /\ typed = <<>>
  <2>1. PICK k \in Pagers : Answered(<<Item(k, step)>>)
    BY <1>9 DEF Pages
  <2>2. PICK p \in Items : p = Item(k, step)
    BY <1>3, ItemTypes DEF Pagers, LineKinds
  <2>3. <<p>> \o <<>> = <<p>>
    OBVIOUS
  <2>4. Answered(<<>>)'
    BY <1>6, <1>8, <2>1, <2>2, <2>3
  <2>5. typed' = <<Input("key", 0)>>
    <3>1. PICK i \in Inputs : i = Input("key", 0)
      BY ItemTypes
    <3>2. Append(<<>>, i) = <<i>>
      OBVIOUS
    <3> QED BY <1>1, <1>9, <3>1, <3>2
  <2> QED BY <1>1, <1>9, <2>4, <2>5 DEF AnswerOf
<1>10. CASE shell.state = "gone" /\ \E rest \in PageEnds : Answered(rest)
  <2>1. PICK k \in Pagers : Answered(<<Item(k, step), Eof>>)
    BY <1>10 DEF PageEnds
  <2>2. PICK p \in Items : p = Item(k, step)
    BY <1>3, ItemTypes DEF Pagers, LineKinds
  <2>3. <<p>> \o <<z>> = <<p, z>>
    BY TwoLines
  <2>4. Answered(<<z>>)'
    BY <1>5, <1>6, <1>8, <2>1, <2>2, <2>3
  <2> QED BY <1>1, <1>5, <1>10, <2>4 DEF AnswerOf
<1> QED BY <1>4, <1>7, <1>9, <1>10 DEF AnswerOf

\* The reader's steps keep AnswerInv.
LEMMA AnswerReader ==
    ASSUME IInv, DataInv, ReadInv, RunInv, AnswerInv, Reader \/ ReadLost, Untouched
    PROVE  AnswerInv'
<1>1. UNCHANGED <<pc, step, script>> /\ Clean' = Clean /\ Current' = Current
  BY DEF Clean, Current, Untouched, settings
<1> SUFFICES ASSUME pc = "command", Clean, Current.then = "none"
             PROVE  Untaken' \/ Paged' \/ AnswerOf'
  BY <1>1 DEF AnswerInv
<1>2. UNCHANGED <<shell, sent>>
  BY ReaderStep
<1>3. CASE LastKind(rd.buf) = "pagerLine" /\ rd.pc = "reading"
  <2>1. AtPager /\ ~AtPrompt
    BY <1>3 DEF ReadInv, AtPager, AtPrompt, Pagers, PromptLike
  <2>2. AnswerPager
    BY <1>3, <2>1 DEF Reader, ReadLost, ConfirmPrompt, ConfirmMore, ConfirmEnds, ReadChunk,
       ReadEof, ReadTimeout, AwaitsOutput
  <2>3. rd' = rd
    BY <1>3, <2>2 DEF AnswerPager
  <2> QED BY <1>3, <2>3 DEF Paged
<1>4. CASE ~Paged /\ AnswerPager
  <2>1. LastKind(rd.buf) # "pagerLine" /\ LastKind(rd.buf) \in Pagers
    BY <1>4 DEF Paged, AnswerPager, AtPager
  <2>2. ~Untaken
    BY <2>1 DEF Untaken, LastKind, Pagers
  <2> QED BY <1>1, <1>4, <2>1, <2>2, AnswerPagerKept DEF AnswerInv
<1>5. CASE Untaken /\ ~AnswerPager
  <2>1. ChunkSizes = {}
    <3>1. CASE stream = <<>>
      BY <3>1 DEF ChunkSizes
    <3>2. CASE stream = <<Eof>>
      <4>1. PICK x \in Items : x = Eof /\ x.kind = "eof"
        BY EofKind
      <4>2. Len(<<x>>) = 1 /\ <<x>>[1] = x
        OBVIOUS
      <4>3. \A k \in 1 .. 1 : 1 \in 1 .. k
        OBVIOUS
      <4> QED BY <3>2, <4>1, <4>2, <4>3 DEF ChunkSizes
    <3> QED BY <1>5, <3>1, <3>2 DEF Untaken
  <2>2. UNCHANGED <<typed, stream>> /\ rd'.buf = rd.buf
    BY <1>5, <2>1, ReaderStep
  <2> QED BY <1>1, <1>2, <1>5, <2>2 DEF Untaken
<1>6. CASE AnswerOf /\ ~AnswerPager
  <2>1. Out' = Out /\ typed' = typed
    BY <1>6, ReaderOut
  <2>2. \A rest : Answered(rest) => Answered(rest)'
    BY <1>1, <1>2, <2>1 DEF Answered
  <2>3. Pages' = Pages /\ PageEnds' = PageEnds
    BY <1>1 DEF Pages, PageEnds
  <2> QED BY <1>1, <1>2, <1>6, <2>1, <2>2, <2>3 DEF AnswerOf
<1> QED BY <1>3, <1>4, <1>5, <1>6 DEF AnswerInv, Paged

\* A plain command is typed at a device that is silent or gone.
LEMMA AnswerSession ==
    ASSUME IInv, DataInv, EndInv, RunInv, SettledInv, Undisturbed,
           \/ OpenTunnel \/ OpenConn \/ Login \/ Commands \/ CleaningUp
           \/ ConnectFails \/ LoginLost \/ Cancel
    PROVE  AnswerInv'
<1> SUFFICES ASSUME pc' = "command", Clean', Current'.then = "none" PROVE Untaken'
  BY DEF AnswerInv
<1>1. /\ ThenStep \/ TypeCommand
      /\ pc = "step" /\ step' = step /\ script' = script /\ rd' = Reading(TRUE)
      /\ UNCHANGED <<shell, stream, sent>> /\ Settled
  BY ToCommand
<1>2. Typing(<<Input("command", step)>>) /\ Begun = step - 1 /\ step \in Steps
  BY <1>1, Begins DEF ThenStep, TypeCommand, Current
<1>3. rd'.buf = <<>>
  BY <1>1 DEF Reading, NoRead
<1>4. sent[step] = <<>>
  <2>1. \A n \in Nat : n > n - 1
    OBVIOUS
  <2> QED BY <1>2, <2>1 DEF RunInv, Steps
<1>5. CASE shell.state = "waiting"
  <2>1. typed = <<>> /\ stream = <<>>
    BY <1>1, <1>5 DEF Settled
  <2>2. typed' = <<Input("command", step)>>
    <3>1. PICK i \in Inputs : i = Input("command", step)
      BY <1>2, ItemTypes DEF Steps
    <3>2. <<>> \o <<i>> = <<i>>
      OBVIOUS
    <3> QED BY <1>2, <1>5, <2>1, <3>1, <3>2 DEF Typing
  <2> QED BY <1>1, <1>3, <1>4, <1>5, <2>1, <2>2 DEF Untaken
<1>6. CASE shell.state = "gone"
  <2>1. PICK s \in Seq(Items) : s = stream
    BY OutTypes
  <2>2. Ended(s)
    BY <1>1, <1>6, <2>1 DEF EndInv, Connected
  <2>3. Head(s).kind = "eof"
    BY <1>1, <1>6, <2>1 DEF Settled, AtEof
  <2>4. stream = <<Eof>>
    BY <2>1, <2>2, <2>3, EndAlone
  <2> QED BY <1>1, <1>3, <1>4, <1>6, <2>4 DEF Untaken
<1> QED BY <1>1, <1>5, <1>6 DEF Settled

-----------------------------------------------------------------------------
(***************************************************************************)
(* What is captured.                                                       *)
(***************************************************************************)
\* A device that has ended its answer has printed all of it.
LEMMA AnswerDone ==
    ASSUME IInv, DataInv, EndInv, ReadInv, RunInv, SettledInv, AnswerInv,
           pc = "command", Clean, Current.then = "none", rd.pc = "done", rd.got = "text"
    PROVE  Sanitized(rd.buf, step) = Trimmed(sent[step], PromptLike)
<1>1. Settled /\ (Untaken \/ AnswerOf)
  BY DEF SettledInv, Told, AnswerInv, Paged
<1>2. PICK b \in Seq(Items), s \in Seq(Items), e \in Seq(Items), a \in Seq(Answers) :
          /\ b = rd.buf /\ s = stream /\ e = <<Item("echo", step)>> /\ a = sent[step]
          /\ a \in Seq(Items)
  BY OutTypes, AnswerTypes
<1>3. step \in Nat /\ LastKind(b) \notin Pagers
  BY <1>2, AnswerTypes DEF ReadInv
<1>4. ASSUME b = e \o a PROVE Sanitized(rd.buf, step) = Trimmed(sent[step], PromptLike)
  BY <1>2, <1>3, <1>4, SanitizedAnswer
<1>5. PICK w \in Seq(Items) : w = e \o a
  BY <1>2, ConcatProperties
<1>6. CASE Untaken
  <2>1. b = <<>> /\ a = <<>>
    BY <1>2, <1>6 DEF Untaken
  <2>2. Trimmed(<<>>, PromptLike) = <<>> /\ Trimmed(<<>>, {"echo"}) = <<>>
    <3>1. <<>> \in Seq(Items) /\ KindsOf(<<>>) = {}
      BY DEF KindsOf
    <3>2. PICK v \in Seq(Items) : v = <<>>
      BY <3>1
    <3>3. KindsOf(v) \cap PromptLike = {} /\ KindsOf(v) \cap {"echo"} = {}
      BY <3>1, <3>2
    <3>4. Trimmed(v, PromptLike) = v
      BY <3>3, TrimmedKinds
    <3>5. Trimmed(v, {"echo"}) = v
      BY <3>3, TrimmedKinds
    <3> QED BY <3>2, <3>4, <3>5
  <2>3. AfterEcho(<<>>, step) = <<>>
    BY DEF AfterEcho
  <2> QED BY <1>2, <2>1, <2>2, <2>3 DEF Sanitized
<1>7. CASE AnswerOf /\ shell.state # "gone"
  <2>1. stream = <<>> /\ Answered(<<>>)
    BY <1>1, <1>7 DEF AnswerOf, Settled
  <2>2. b \o <<>> = b /\ w \o <<>> = w
    BY ConcatEmptySeq
  <2>3. b = e \o a
    BY <1>2, <1>5, <2>1, <2>2 DEF Answered, Out
  <2> QED BY <1>4, <2>3
<1>8. CASE AnswerOf /\ shell.state = "gone"
  <2>1. s = <<Eof>>
    <3>1. Ended(s) /\ Head(s).kind = "eof"
      BY <1>1, <1>2, <1>8 DEF EndInv, Connected, Settled, AtEof
    <3> QED BY <3>1, EndAlone
  <2>2. PICK z \in Items : z = Eof
    BY EofKind
  <2>3. PICK u \in Seq(Items) : u = <<z>>
    <3>1. <<z>> \in Seq(Items)
      OBVIOUS
    <3> QED BY <3>1
  <2>4. CASE Answered(<<Eof>>)
    <3>1. b \o u = w \o u
      BY <1>2, <1>5, <2>1, <2>2, <2>3, <2>4 DEF Answered, Out
    <3>2. b = w
      BY <3>1, ConcatSimplifications
    <3> QED BY <1>4, <1>5, <3>2
  <2>5. CASE \E rest \in PageEnds : Answered(rest)
    <3>1. PICK k \in Pagers : Answered(<<Item(k, step), Eof>>)
      BY <2>5 DEF PageEnds
    <3>2. PICK p \in Items : p = Item(k, step) /\ p.kind = k
      BY <1>3, ItemTypes DEF Pagers, LineKinds, Item
    <3>3. PICK q \in Seq(Items) : q = <<p>> /\ <<p>> \o <<z>> = <<p, z>>
      BY TwoLines
    <3>4. b \o u = w \o (q \o u)
      BY <1>2, <1>5, <2>1, <2>2, <2>3, <3>1, <3>2, <3>3 DEF Answered, Out
    <3>5. (w \o q) \o u = w \o (q \o u)
      OBVIOUS
    <3>6. PICK v \in Seq(Items) : v = w \o q
      BY ConcatProperties
    <3>7. b = v
      <4>1. b \o u = v \o u
        BY <3>4, <3>5, <3>6
      <4> QED BY <4>1, ConcatSimplifications
    <3>8. LastKind(w \o <<p>>) = p.kind
      BY LastAppended
    <3> QED BY <1>3, <3>2, <3>3, <3>6, <3>7, <3>8
  <2> QED BY <1>8, <2>4, <2>5 DEF AnswerOf
<1> QED BY <1>1, <1>6, <1>7, <1>8

\* A device that goes on has to do with commands nothing was captured of.
LEMMA OwnDevice ==
    ASSUME IInv, DataInv, EndInv, LiveInv, RunInv, OwnInv, Device \/ DeviceCuts, Untouched
    PROVE  OwnInv'
<1>1. Steps' = Steps /\ captured' = captured /\ Live' \subseteq Live
  BY LiveDevice DEF Steps, Untouched, settings
<1>2. ASSUME NEW i \in Steps, captured[i] # <<>> PROVE sent'[i] = sent[i]
  <2>1. CASE sent' = sent
    BY <2>1
  <2>2. CASE sent' # sent
    <3>1. Device
      BY <2>2 DEF DeviceCuts
    <3>2. PICK x \in Answers : /\ shell.state = "answering"
                               /\ sent' = [sent EXCEPT ![shell.cmd] = Append(@, x)]
      BY <2>2, <3>1, DeviceStep
    <3>3. shell.cmd \in Live
      BY <3>2 DEF Live, Busy
    <3>4. shell.cmd \in Steps /\ i # shell.cmd
      BY <1>2, <3>3 DEF LiveInv, OwnInv
    <3> QED BY <3>2, <3>4, SentGrows
  <2> QED BY <2>1, <2>2
<1> QED BY <1>1, <1>2 DEF OwnInv

LEMMA OwnReader ==
    ASSUME DataInv, ReadInv, LiveInv, OwnInv, Reader \/ ReadLost, Untouched
    PROVE  OwnInv'
<1>1. Steps' = Steps /\ captured' = captured /\ Live' = Live /\ sent' = sent
  BY LiveReader, ReaderStep DEF Steps, Untouched, settings
<1> QED BY <1>1 DEF OwnInv

\* The session captures the answer of a device that is silent or gone.
LEMMA OwnSession ==
    ASSUME IInv, DataInv, EndInv, ReadInv, RunInv, LiveInv, OwnInv, SettledInv, AnswerInv,
           \/ OpenTunnel \/ OpenConn \/ Login \/ Commands \/ CleaningUp
           \/ ConnectFails \/ LoginLost \/ Cancel
    PROVE  OwnInv'
<1>1. script' = script /\ Steps' = Steps
  BY SettingsKept DEF settings, Steps
<1>2. \/ Live' \subseteq Live
      \/ pc = "step" /\ step \in Steps /\ Live' \subseteq Live \cup {step}
  BY LiveSession, Begins
<1>3. CASE UNCHANGED <<captured, sent>>
  <2>1. step \in Steps => captured[step] = <<>>
    <3>1. \A n \in Nat : n >= n
      OBVIOUS
    <3> QED BY <3>1 DEF RunInv, Steps
  <2>2. \A i \in Steps : i \in Live' => captured[i] = <<>>
    BY <1>2, <2>1 DEF OwnInv
  <2> QED BY <1>1, <1>3, <2>2 DEF OwnInv
<1>4. CASE CommandEnds
  <2>1. /\ pc = "command" /\ rd.pc = "done" /\ rd.got = "text" /\ captured' = Captures
        /\ UNCHANGED <<shell, typed, sent>>
    BY <1>4 DEF CommandEnds, deviceVars
  <2>2. step \in Steps
    BY <2>1, AnswerTypes
  <2>3. CASE Current.phase = "backup" /\ Current.then = "none"
    <3>1. Clean
      <4>1. /\ \A j \in 1 .. step - 1 : j \in DOMAIN script /\ j < step
            /\ step \in DOMAIN script
        <5>1. script \in Seq(Step) /\ step \in 1 .. Len(script)
          BY <2>2, CasesAssumption DEF DataInv, SessionTypes, Steps
        <5>2. DOMAIN script = 1 .. Len(script) /\ Len(script) \in Nat
          BY <5>1
        <5> QED BY <5>1, <5>2
      <4>2. PhaseOrder(script)
        BY CasesAssumption DEF DataInv, SessionTypes
      <4> QED BY <2>3, <4>1, <4>2 DEF PhaseOrder, Clean, Current
    <3>2. Sanitized(rd.buf, step) = Trimmed(sent[step], PromptLike)
      BY <2>1, <2>3, <3>1, AnswerDone
    <3>3. Live' = {}
      <4>1. Settled
        BY <2>1, <3>1 DEF SettledInv, Told
      <4>2. CommandsOf(<<>>) = {}
        BY DEF CommandsOf
      <4> QED BY <2>1, <4>1, <4>2 DEF Settled, Live, Busy, LiveInv
    <3>4. captured' = [captured EXCEPT ![step] = Sanitized(rd.buf, step)]
      BY <2>1, <2>3 DEF Captures
    <3>5. /\ captured'[step] = Trimmed(sent[step], PromptLike)
          /\ \A i \in Steps \ {step} : captured'[i] = captured[i]
      BY <2>2, <3>2, <3>4 DEF DataInv, SessionTypes
    <3> QED BY <1>1, <2>1, <3>3, <3>5 DEF OwnInv
  <2>4. CASE ~(Current.phase = "backup" /\ Current.then = "none")
    BY <1>3, <2>1, <2>4 DEF Captures
  <2> QED BY <2>3, <2>4
<1>5. CASE CloseConn
  <2>1. CASE err = "none"
    BY <1>3, <1>5, <2>1 DEF CloseConn
  <2>2. CASE err # "none"
    <3>1. captured' = NoCapture
      BY <1>5, <2>2 DEF CloseConn
    <3>2. \A i \in Steps : captured'[i] = <<>>
      BY <3>1 DEF NoCapture
    <3> QED BY <1>1, <3>2 DEF OwnInv
  <2> QED BY <2>1, <2>2
<1>6. CASE \/ OpenTunnel \/ OpenConn \/ Login \/ ConnectFails \/ LoginLost \/ Cancel
  <2>1. UNCHANGED <<captured, sent>>
    BY <1>6 DEF OpenTunnel, OpenConn, Login, LoginPrompt, LoginEof, LoggedIn, LoginUser,
       LoginPassword, GiveCredential, LoginReads, LoginTimeout, ConnectFails, LoginLost, Cancel,
       deviceVars
  <2> QED BY <1>3, <2>1
<1>7. CASE Commands /\ ~CommandEnds
  <2>1. UNCHANGED <<captured, sent>>
    BY <1>7, Begins DEF Commands, StartShell, FirstPrompt, SecondNewline, NoFirstPrompt,
       InvalidStep, Drain, CommandFails, StepFails, ScriptEnds, deviceVars
  <2> QED BY <1>3, <2>1
<1>8. CASE CleaningUp /\ ~CloseConn
  <2>1. UNCHANGED <<captured, sent>>
    BY <1>8 DEF CleaningUp, ConnClosed, CloseTunnel, TunnelClosed, EndAttempt, NextAttempt,
       deviceVars
  <2> QED BY <1>3, <2>1
<1> QED BY <1>4, <1>5, <1>6, <1>7, <1>8

-----------------------------------------------------------------------------
(***************************************************************************)
(* The theorems.                                                           *)
(***************************************************************************)
LEMMA CaptureInit == Init => CInv
<1> SUFFICES ASSUME Init PROVE CInv
  OBVIOUS
<1>1. /\ pc \in Connecting /\ step = 1 /\ shell.state = "off" /\ typed = <<>> /\ stream = <<>>
      /\ rd.pc = "off" /\ err = "none" /\ captured = NoCapture /\ sent = NothingSent
  BY DEF Init, Connecting, OffShell, NoRead
<1>2. EndInv
  BY <1>1 DEF EndInv, Connected, Connecting
<1>3. ReadInv
  BY <1>1 DEF ReadInv, Connecting
<1>4. RunInv
  BY <1>1 DEF RunInv, NoCapture, NothingSent, Connecting, Closing
<1>5. Live = {}
  <2>1. CommandsOf(<<>>) = {}
    BY DEF CommandsOf
  <2> QED BY <1>1, <2>1 DEF Live, Busy
<1>6. LiveInv
  BY <1>1, <1>5 DEF LiveInv
<1>7. OwnInv
  BY <1>1, <1>5 DEF OwnInv, NoCapture
<1>8. SettledInv /\ AttentionInv /\ AnswerInv
  BY <1>1 DEF SettledInv, Told, AttentionInv, AnswerInv, Connecting
<1> QED BY <1>2, <1>3, <1>4, <1>6, <1>7, <1>8 DEF CInv

LEMMA CaptureStep == IInv /\ DataInv /\ LoginInv' /\ CInv /\ [Next]_vars => CInv'
<1> SUFFICES ASSUME IInv, DataInv, LoginInv', CInv, [Next]_vars PROVE CInv'
  OBVIOUS
<1>1. EndInv /\ ReadInv /\ RunInv /\ LiveInv
  BY DEF CInv
<1>2. Undisturbed' => OwnInv /\ SettledInv /\ AttentionInv /\ AnswerInv /\ Undisturbed
  BY UndisturbedKept DEF CInv
<1>3. CASE \/ OpenTunnel \/ OpenConn \/ Login \/ Commands \/ CleaningUp
           \/ ConnectFails \/ LoginLost \/ Cancel
  <2>1. EndInv' /\ ReadInv' /\ RunInv' /\ LiveInv'
    BY <1>1, <1>3, EndSession, ReadSession, RunSession, LiveSession
  <2>2. Undisturbed' => OwnInv'
    BY <1>1, <1>2, <1>3, OwnSession
  <2>3. Undisturbed' => SettledInv'
    BY <1>1, <1>2, <1>3, SettledSession
  <2>4. Undisturbed' => AttentionInv'
    BY <1>1, <1>2, <1>3, AttentionSession
  <2>5. Undisturbed' => AnswerInv'
    BY <1>1, <1>2, <1>3, AnswerSession
  <2> QED BY <2>1, <2>2, <2>3, <2>4, <2>5 DEF CInv
<1>4. CASE (Device \/ DeviceCuts) /\ Untouched
  <2>1. rd' = rd /\ pc' = pc /\ Clean' = Clean
    BY <1>4, DeviceStep DEF DeviceCuts, Untouched, settings, Clean
  <2>2. EndInv' /\ ReadInv' /\ RunInv' /\ LiveInv'
    BY <1>1, <1>4, <2>1, EndDevice, ReadDevice, RunDevice, LiveDevice
  <2>3. Undisturbed' => OwnInv'
    BY <1>1, <1>2, <1>4, OwnDevice
  <2>4. Undisturbed' => SettledInv'
    <3>1. Settled => Settled'
      BY <1>4, SettledDevice
    <3> QED BY <1>2, <2>1, <3>1 DEF SettledInv, Told
  <2>5. Undisturbed' => AttentionInv'
    BY <1>1, <1>2, <1>4, AttentionDevice
  <2>6. Undisturbed' => AnswerInv'
    BY <1>1, <1>2, <1>4, AnswerDevice, AnswerCut
  <2> QED BY <2>2, <2>3, <2>4, <2>5, <2>6 DEF CInv
<1>5. CASE (Reader \/ ReadLost) /\ Untouched
  <2>1. EndInv' /\ ReadInv' /\ LiveInv'
    BY <1>1, <1>5, EndReader, ReadReader, LiveReader
  <2>2. RunInv'
    BY <1>1, <1>5, ReaderStep DEF RunInv, Begun, Untouched, settings, Steps, NoCapture, NothingSent
  <2>3. Undisturbed' => OwnInv'
    BY <1>1, <1>2, <1>5, OwnReader
  <2>4. Undisturbed' => SettledInv'
    BY <1>1, <1>2, <1>5, SettledReader
  <2>5. Undisturbed' => AttentionInv'
    BY <1>1, <1>2, <1>5, AttentionReader
  <2>6. Undisturbed' => AnswerInv'
    BY <1>1, <1>2, <1>5, AnswerReader
  <2> QED BY <2>1, <2>2, <2>3, <2>4, <2>5, <2>6 DEF CInv
<1>6. CASE UNCHANGED vars
  <2> USE DEF Begun, Live, Steps, Clean, Settled, AtEof, Told, Out
  <2>1. UNCHANGED <<proto, script, pc, step, captured, err, faults, shell, typed, stream, sent, rd>>
    BY <1>6 DEF vars, deviceVars, settings
  <2>2. EndInv' /\ ReadInv'
    BY <1>1, <2>1 DEF EndInv, ReadInv
  <2>3. RunInv' /\ LiveInv'
    BY <1>1, <2>1 DEF RunInv, LiveInv, NoCapture, NothingSent
  <2>4. Undisturbed' => OwnInv' /\ SettledInv' /\ AttentionInv'
    BY <1>2, <2>1 DEF OwnInv, SettledInv, AttentionInv
  <2>5. AnswerInv' = AnswerInv
    <3>1. Untaken' = Untaken /\ Paged' = Paged /\ Current' = Current
      BY <2>1 DEF Untaken, Paged, Current
    <3>2. Pages' = Pages /\ PageEnds' = PageEnds
      BY <2>1 DEF Pages, PageEnds
    <3>3. \A rest : Answered(rest)' = Answered(rest)
      BY <2>1 DEF Answered
    <3>4. AnswerOf' = AnswerOf
      BY <2>1, <3>2, <3>3 DEF AnswerOf
    <3> QED BY <2>1, <3>1, <3>4 DEF AnswerInv
  <2> QED BY <1>2, <2>2, <2>3, <2>4, <2>5 DEF CInv
<1> QED BY <1>3, <1>4, <1>5, <1>6 DEF Next, Progress, Fault, Streaming

\* The inductive invariant: where the stream ends, what a read returns, which commands
\* the device still has to do with, and what of its output the session has read.
THEOREM CaptureInductive == Spec => []CInv
<1>1. Init => CInv
  BY CaptureInit
<1>2. IInv /\ DataInv /\ LoginInv' /\ CInv /\ [Next]_vars => CInv'
  BY CaptureStep
<1>3. Spec => []LoginInv
  BY LoginInductive, PTL
<1> QED BY <1>1, <1>2, <1>3, Inductive, DataInductive, PTL DEF Spec

\* The prompt and what looks like one are cut off an answer's end: of an answer that
\* does not end in such lines, only the prompt.
LEMMA TrimmedAnswer ==
    ASSUME NEW S, NEW s \in Seq(S)
    PROVE  LET a == Trimmed(s, {"prompt"})
           IN  Trimmed(s, PromptLike) = IF LastKind(a) = "mark" THEN Trimmed(a, PromptLike) ELSE a
<1> DEFINE n == Len(s)
           kept == {i \in 1 .. n : s[i].kind \notin {"prompt"}}
           last == CHOOSE i \in kept : \A j \in kept : j <= i
           own == {i \in 1 .. n : s[i].kind \notin PromptLike}
           end == CHOOSE i \in own : \A j \in own : j <= i
           a == Trimmed(s, {"prompt"})
<1> SUFFICES Trimmed(s, PromptLike) = IF LastKind(a) = "mark" THEN Trimmed(a, PromptLike) ELSE a
  OBVIOUS
<1>1. /\ n \in Nat /\ kept \in SUBSET (1 .. n) /\ own \in SUBSET (1 .. n)
      /\ own \subseteq kept
  BY LenProperties DEF PromptLike
<1>2. /\ a = SubSeq(s, 1, IF kept = {} THEN 0 ELSE last)
      /\ Trimmed(s, PromptLike) = SubSeq(s, 1, IF own = {} THEN 0 ELSE end)
  BY DEF Trimmed
<1>3. CASE kept = {}
  <2>1. a = SubSeq(s, 1, 0) /\ Trimmed(s, PromptLike) = SubSeq(s, 1, 0)
    <3>1. own = {}
      BY <1>1, <1>3
    <3> HIDE DEF kept, own, last, end, a
    <3> QED BY <1>2, <1>3, <3>1
  <2>2. LastKind(SubSeq(s, 1, 0)) = "none"
    BY SubSeqEmpty DEF LastKind
  <2> HIDE DEF a
  <2> QED BY <2>1, <2>2
<1>4. CASE kept # {}
  <2>1. last \in kept /\ \A j \in kept : j <= last
    <3>1. \E i \in kept : \A j \in kept : j <= i
      <4> HIDE DEF kept
      <4> QED BY <1>1, <1>4, FirstAndLast
    <3> QED BY <3>1
  <2>2. PICK l \in 1 .. n : l = last
    <3> HIDE DEF last
    <3> QED BY <1>1, <2>1
  <2>3. a = SubSeq(s, 1, l)
    <3> HIDE DEF kept, own, last, end, a
    <3> QED BY <1>2, <1>4, <2>2
  <2>4. /\ SubSeq(s, 1, l) \in Seq(S) /\ Len(SubSeq(s, 1, l)) = l
        /\ \A i \in 1 .. l : SubSeq(s, 1, l)[i] = s[i]
    BY <1>1
  <2>5. PICK b \in Seq(S) : b = a /\ Len(b) = l /\ \A i \in 1 .. l : b[i] = s[i]
    <3> HIDE DEF a
    <3> QED BY <2>3, <2>4
  <2>6. LastKind(b) = s[l].kind
    <3>1. l \in 1 .. l /\ b # <<>>
      BY <1>1, <2>5
    <3> QED BY <2>5, <3>1 DEF LastKind
  <2>7. l \in kept /\ \A j \in kept : j <= l
    <3> HIDE DEF last, kept
    <3> QED BY <2>1, <2>2
  <2>8. CASE s[l].kind # "mark"
    <3>1. l \in own
      BY <2>7, <2>8 DEF PromptLike
    <3>2. end \in own /\ \A j \in own : j <= end
      <4>1. \A j \in own : j <= l
        BY <1>1, <2>7
      <4> QED BY <3>1, <4>1
    <3>3. end = l
      <4> HIDE DEF own, end, kept
      <4> QED BY <1>1, <2>7, <3>1, <3>2
    <3>4. Trimmed(s, PromptLike) = SubSeq(s, 1, l)
      <4> HIDE DEF own, end, kept, last, a
      <4> QED BY <1>2, <3>1, <3>3
    <3> HIDE DEF a
    <3> QED BY <2>3, <2>5, <2>6, <2>8, <3>4
  <2>9. CASE s[l].kind = "mark"
    <3> DEFINE kb == {i \in 1 .. Len(b) : b[i].kind \notin PromptLike}
               eb == CHOOSE i \in kb : \A j \in kb : j <= i
    <3>1. kb = own
      <4>1. \A i \in 1 .. n : i \in own => i \in 1 .. l
        <5> HIDE DEF own, kept
        <5> QED BY <1>1, <2>7
      <4>2. \A i \in 1 .. l : i \in 1 .. n
        BY <1>1
      <4> QED BY <2>5, <4>1, <4>2
    <3>2. Trimmed(b, PromptLike) = SubSeq(b, 1, IF own = {} THEN 0 ELSE end)
      <4>1. Trimmed(b, PromptLike) = SubSeq(b, 1, IF kb = {} THEN 0 ELSE eb)
        BY DEF Trimmed
      <4> HIDE DEF kb, own
      <4>2. eb = end
        BY <3>1
      <4> HIDE DEF eb, end
      <4> QED BY <3>1, <4>1, <4>2
    <3>3. PICK m \in 0 .. l : m = IF own = {} THEN 0 ELSE end
      <4>1. CASE own = {}
        BY <1>1, <4>1
      <4>2. CASE own # {}
        <5>1. \E i \in own : \A j \in own : j <= i
          <6> HIDE DEF own
          <6> QED BY <1>1, <4>2, FirstAndLast
        <5>2. end \in own
          BY <5>1
        <5> HIDE DEF own, end, kept
        <5>3. end \in 0 .. l
          BY <1>1, <2>7, <5>2
        <5> QED BY <4>2, <5>3
      <4> QED BY <4>1, <4>2
    <3>4. SubSeq(b, 1, m) = SubSeq(s, 1, m)
      <4>1. /\ SubSeq(b, 1, m) \in Seq(S) /\ SubSeq(s, 1, m) \in Seq(S)
            /\ Len(SubSeq(b, 1, m)) = m /\ Len(SubSeq(s, 1, m)) = m
            /\ \A i \in 1 .. m : SubSeq(b, 1, m)[i] = b[i] /\ SubSeq(s, 1, m)[i] = s[i]
        BY <1>1, <2>5
      <4>2. \A i \in 1 .. m : b[i] = s[i]
        BY <1>1, <2>5
      <4>3. PICK u \in Seq(S), v \in Seq(S) : u = SubSeq(b, 1, m) /\ v = SubSeq(s, 1, m)
        BY <4>1
      <4> QED BY <4>1, <4>2, <4>3, SeqEqual
    <3> HIDE DEF own, end, kept, last, a
    <3> QED BY <1>2, <2>5, <2>6, <2>9, <3>2, <3>3, <3>4
  <2> QED BY <2>8, <2>9
<1> QED BY <1>3, <1>4

\* What get_config returns of a command is what the device printed in answer to it,
\* with nothing of another command and nothing lost inside it, for any vendor script
\* that awaits its prompts and any device that does not pause: the reader's confirmation
\* of a prompt, the drained shell and the cut echo are enough.  What an answer has at
\* its very end and looks like a prompt is lost, nothing else (_sanitize_command_output).
THEOREM CapturesOwnAnswer == Spec => []CapturedIsOwnAnswer
<1>1. CInv => CapturedIsOwnAnswer
  <2> SUFFICES ASSUME CInv, Undisturbed, NEW i \in Steps, captured[i] # <<>>
               PROVE  captured[i] = IF LastKind(Answer(i)) = "mark"
                                    THEN Trimmed(Answer(i), PromptLike) ELSE Answer(i)
    BY DEF CapturedIsOwnAnswer, Undisturbed
  <2>1. captured[i] = Trimmed(sent[i], PromptLike) /\ sent[i] \in Seq(Answers)
    BY DEF CInv, OwnInv, RunInv
  <2> QED BY <2>1, TrimmedAnswer DEF Answer
<1> QED BY <1>1, CaptureInductive, PTL

=============================================================================
