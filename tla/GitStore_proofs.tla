-------------------------- MODULE GitStore_proofs --------------------------
(***************************************************************************)
(* Proofs about GitStore for any number of devices, readers, contents and  *)
(* commits, and any faults.                                                *)
(***************************************************************************)
EXTENDS GitStore, FiniteSetTheorems, SequenceTheorems, WellFoundedInduction, TLAPS

\* Points at which a save holds the repo lock.
Holding == {"rewriting", "opened", "written", "staged", "committed", "pushed"}

\* The lock discipline.
LockInv ==
    /\ \A d \in Devices : save[d].pc \in Holding => lock = d
    /\ \A r \in Readers : /\ reader[r].pc = "counted" => lock = r
                          /\ reader[r].pc # "idle" => reader[r].device \in Devices

\* Where a save's configuration has got to, whatever fails.
SaveInv == \A d \in Devices :
    /\ ~At(d, "idle") => save[d].content \in Contents
    /\ save[d].pc \in {"written", "staged"} => worktree[d] = save[d].content
    /\ save[d].pc \in {"staged", "committed", "pushed", "changed"} => index[d] = save[d].content
    /\ save[d].pc \in {"committed", "pushed", "changed"} => Head_[d] = save[d].content

\* Index, file and HEAD differ only inside a save, unless git fails.
CleanInv == GitWorks => \A d \in Devices :
    /\ ~At(d, "staged") => index[d] = Head_[d]
    /\ save[d].pc \notin {"written", "staged"} => worktree[d] \in {Head_[d], Torn}
    /\ save[d].pc \in {"rewriting", "unchanged"} => Head_[d] = save[d].content

\* A count that waits to be stored is the one git has.
CountInv ==
    /\ CountFresh
    /\ GitWorks /\ "count" \notin setup.faults =>
          \A r \in Readers : reader[r].pc = "counted" =>
              reader[r].count = RevCount(reader[r].device)

IInv == TypeOK /\ LockInv /\ SaveInv /\ CleanInv /\ CountInv /\ CommitIsOwn

-----------------------------------------------------------------------------
\* Every commit's tree is a tree, HEAD's too.
LEMMA TreesOfCommits ==
    ASSUME log \in Seq(Commit)
    PROVE  /\ Len(log) \in Nat
           /\ \A i \in 0 .. Len(log) : TreeAt(i) \in Trees
           /\ Head_ \in Trees
<1>1. Len(log) \in Nat
  OBVIOUS
<1>2. \A i \in 1 .. Len(log) : log[i].tree \in Trees
  <2>1. \A i \in 1 .. Len(log) : log[i] \in Commit
    OBVIOUS
  <2> QED BY <2>1 DEF Commit
<1>3. NoTree \in Trees
  BY DEF NoTree, Trees
<1>4. \A i \in 0 .. Len(log) : TreeAt(i) \in Trees
  BY <1>1, <1>2, <1>3 DEF TreeAt
<1> QED BY <1>1, <1>4 DEF Head_

\* A commit is appended: the trees of the others stay, its own is at HEAD.
LEMMA AppendedCommit ==
    ASSUME log \in Seq(Commit), NEW c \in Commit, log' = Append(log, c), NEW n, n = Len(log)
    PROVE  /\ log' \in Seq(Commit) /\ n \in Nat
           /\ Len(log') = n + 1
           /\ \A i \in 1 .. n : log'[i] = log[i]
           /\ log'[n + 1] = c
           /\ \A i \in 0 .. n : TreeAt(i)' = TreeAt(i)
           /\ TreeAt(n + 1)' = c.tree
           /\ Head_' = c.tree
<1>1. n \in Nat /\ log' \in Seq(Commit) /\ Len(log') = n + 1
  OBVIOUS
<1>2. \A i \in 1 .. n : log'[i] = log[i]
  OBVIOUS
<1>3. log'[n + 1] = c
  OBVIOUS
<1>4. \A i \in 0 .. n : TreeAt(i)' = TreeAt(i)
  BY <1>1, <1>2 DEF TreeAt, NoTree
<1>5. TreeAt(n + 1)' = c.tree
  BY <1>1, <1>3 DEF TreeAt
<1>6. Head_' = c.tree
  BY <1>1, <1>3 DEF Head_, TreeAt
<1> QED BY <1>1, <1>2, <1>3, <1>4, <1>5, <1>6

\* A commit that leaves a device's file alone leaves its count alone.
LEMMA CountKept ==
    ASSUME log \in Seq(Commit), NEW c \in Commit, log' = Append(log, c),
           NEW d \in Devices, c.tree[d] = Head_[d]
    PROVE  RevCount(d)' = RevCount(d)
<1>1. PICK n : n = Len(log)
  OBVIOUS
<1>2. /\ n \in Nat /\ Len(log') = n + 1
      /\ \A i \in 0 .. n : TreeAt(i)' = TreeAt(i)
      /\ TreeAt(n + 1)' = c.tree
  BY <1>1, AppendedCommit
<1>3. ASSUME NEW i \in 1 .. n
      PROVE  TreeAt(i)' = TreeAt(i) /\ TreeAt(i - 1)' = TreeAt(i - 1)
  <2>1. i \in 0 .. n /\ i - 1 \in 0 .. n
    BY <1>2
  <2> QED BY <1>2, <2>1
<1>4. TreeAt(n)' = Head_
  <2>1. n \in 0 .. n
    BY <1>2
  <2> QED BY <1>1, <1>2, <2>1 DEF Head_
<1>5. Touching(d)' = {i \in 1 .. n + 1 : TreeAt(i)'[d] # TreeAt(i - 1)'[d]}
  BY <1>2 DEF Touching
<1>6. Touching(d) = {i \in 1 .. n : TreeAt(i)[d] # TreeAt(i - 1)[d]}
  BY <1>1 DEF Touching
<1>7. TreeAt(n + 1)'[d] = TreeAt((n + 1) - 1)'[d]
  <2>1. (n + 1) - 1 = n
    BY <1>2
  <2> QED BY <1>2, <1>4, <2>1
<1>8. Touching(d)' = Touching(d)
  <2>1. \A i \in 1 .. n + 1 : i \in 1 .. n \/ i = n + 1
    BY <1>2
  <2>2. \A i \in 1 .. n : i \in 1 .. n + 1
    BY <1>2
  <2>3. \A i \in 1 .. n : i \in Touching(d)' <=> i \in Touching(d)
    BY <1>3, <1>5, <1>6, <2>2
  <2> QED BY <1>5, <1>6, <1>7, <2>1, <2>3
<1> QED BY <1>8 DEF RevCount

\* git's count is a natural number.
LEMMA CountIsNat ==
    ASSUME Len(log) \in Nat, NEW d \in Devices
    PROVE  RevCount(d) \in Nat
<1>1. IsFiniteSet(1 .. Len(log))
  BY FS_Interval
<1>2. Touching(d) \subseteq 1 .. Len(log)
  BY DEF Touching
<1>3. IsFiniteSet(Touching(d))
  BY <1>1, <1>2, FS_Subset
<1> QED BY <1>3, FS_CardinalityType DEF RevCount

\* A save that goes on leaves the others' alone.
LEMMA SaveGoes ==
    ASSUME save \in [Devices -> SaveStates], NEW d \in Devices, NEW p \in SavePoints, Goto(d, p)
    PROVE  /\ save' \in [Devices -> SaveStates]
           /\ save'[d].pc = p /\ save'[d].content = save[d].content
           /\ \A e \in Devices \ {d} : save'[e] = save[e]
BY DEF Goto, SaveStates

-----------------------------------------------------------------------------
\* The initial state.
LEMMA InitIInv == Init => IInv
<1> SUFFICES ASSUME Init PROVE IInv
  OBVIOUS
<1>1. Head_ = NoTree /\ Len(log) = 0
  BY DEF Init, Head_, TreeAt
<1>2. TypeOK
  <2>1. log \in Seq(Commit)
    BY DEF Init
  <2>2. save \in [Devices -> SaveStates] /\ reader \in [Readers -> ReaderStates]
    BY DEF Init, SaveStates, SavePoints, IdleSave, ReaderStates, IdleReader
  <2> QED BY <2>1, <2>2 DEF Init, TypeOK, Trees, NoTree
<1>3. LockInv
  BY DEF Init, LockInv, IdleSave, IdleReader, Holding
<1>4. SaveInv /\ CleanInv
  BY <1>1 DEF Init, SaveInv, CleanInv, IdleSave, NoTree, At
<1>5. CountInv
  BY DEF Init, CountInv, CountFresh, IdleReader
<1>6. CommitIsOwn
  BY <1>1 DEF CommitIsOwn
<1> QED BY <1>2, <1>3, <1>4, <1>5, <1>6 DEF IInv

\* Types.
LEMMA NextTypes == IInv /\ [Next]_vars => TypeOK'
<1> SUFFICES ASSUME IInv, [Next]_vars PROVE TypeOK'
  OBVIOUS
<1>1. TypeOK /\ LockInv /\ SaveInv
  BY DEF IInv
<1>2. ASSUME NEW d \in Devices, NEW c \in setup.contents, Save(d, c) PROVE TypeOK'
  <2>1. c \in Contents
    BY <1>1, SetupsAssumption DEF TypeOK
  <2> QED BY <1>1, <1>2, <2>1 DEF Save, TypeOK, SaveStates, SavePoints
<1>3. ASSUME NEW d \in Devices, Open(d) PROVE TypeOK'
  BY <1>1, <1>3, SaveGoes DEF Open, TypeOK, SavePoints
<1>4. ASSUME NEW d \in Devices, Write(d) PROVE TypeOK'
  <2>1. save[d].content \in Contents
    BY <1>1, <1>4 DEF Write, SaveInv, At
  <2> QED BY <1>1, <1>4, <2>1, SaveGoes DEF Write, TypeOK, SavePoints
<1>5. ASSUME NEW d \in Devices, Stage(d) PROVE TypeOK'
  <2>1. worktree[d] \in Contents
    BY <1>1, <1>5 DEF Stage, SaveInv, At
  <2> QED BY <1>1, <1>5, <2>1, SaveGoes DEF Stage, TypeOK, Trees, SavePoints
<1>6. ASSUME NEW d \in Devices, CommitIndex(d) PROVE TypeOK'
  <2>1. [tree |-> index, by |-> d] \in Commit
    BY <1>1 DEF TypeOK, Commit
  <2> QED BY <1>1, <1>6, <2>1, SaveGoes DEF CommitIndex, TypeOK, SavePoints
<1>7. ASSUME NEW d \in Devices, Push(d) PROVE TypeOK'
  BY <1>1, <1>7, SaveGoes DEF Push, TypeOK, SavePoints
<1>8. ASSUME NEW d \in Devices, Finish(d) PROVE TypeOK'
  BY <1>1, <1>8, SaveGoes DEF Finish, TypeOK, SavePoints
<1>9. ASSUME NEW d \in Devices, Fail(d) PROVE TypeOK'
  BY <1>1, <1>9, SaveGoes DEF Fail, TypeOK, SavePoints
<1>10. ASSUME NEW d \in Devices, Return(d) PROVE TypeOK'
  BY <1>1, <1>10 DEF Return, TypeOK, SaveStates, SavePoints, IdleSave
<1>11. ASSUME NEW d \in Devices, Expire(d) PROVE TypeOK'
  BY <1>1, <1>11 DEF Expire, TypeOK
<1>12. ASSUME NEW r \in Readers, NEW d \in Devices, CountStart(r, d) PROVE TypeOK'
  BY <1>1, <1>12 DEF CountStart, TypeOK, ReaderStates
<1>13. ASSUME NEW r \in Readers, CountLock(r) PROVE TypeOK'
  <2>1. reader[r].device \in Devices
    BY <1>1, <1>13 DEF CountLock, LockInv
  <2>2. RevCount(reader[r].device) \in Nat
    <3>1. Len(log) \in Nat
      BY <1>1 DEF TypeOK
    <3>2. PICK d \in Devices : d = reader[r].device
      BY <2>1
    <3> QED BY <3>1, <3>2, CountIsNat
  <2>3. reader' \in [Readers -> ReaderStates]
    <3>1. reader[r] \in ReaderStates /\ IdleReader \in ReaderStates
      BY <1>1 DEF TypeOK, ReaderStates, IdleReader
    <3>2. ASSUME NEW n \in {RevCount(reader[r].device)}
                          \cup (IF "count" \in setup.faults THEN {0} ELSE {})
          PROVE  [reader[r] EXCEPT !.pc = "counted", !.count = n] \in ReaderStates
      <4>1. n \in Nat
        BY <2>2
      <4>2. [reader[r] EXCEPT !.pc = "counted"] \in ReaderStates
        BY <3>1 DEF ReaderStates
      <4>3. [[reader[r] EXCEPT !.pc = "counted"] EXCEPT !.count = n] \in ReaderStates
        BY <4>1, <4>2 DEF ReaderStates
      <4>4. [reader[r] EXCEPT !.pc = "counted", !.count = n]
                = [[reader[r] EXCEPT !.pc = "counted"] EXCEPT !.count = n]
        BY <3>1 DEF ReaderStates
      <4> QED BY <4>3, <4>4
    <3> QED BY <1>1, <1>13, <3>1, <3>2 DEF CountLock, TypeOK
  <2> QED BY <1>1, <1>13, <2>3 DEF CountLock, TypeOK
<1>14. ASSUME NEW r \in Readers, CountStore(r) PROVE TypeOK'
  <2>1. reader[r].device \in Devices /\ reader[r].count \in Nat
    BY <1>1, <1>14 DEF CountStore, LockInv, TypeOK, ReaderStates
  <2> QED BY <1>1, <1>14, <2>1 DEF CountStore, TypeOK, ReaderStates, IdleReader
<1>15. CASE BlockLoop \/ UnblockLoop
  BY <1>1, <1>15 DEF BlockLoop, UnblockLoop, TypeOK
<1>16. CASE Crash
  BY <1>1, <1>16 DEF Crash, TypeOK, SaveStates, SavePoints, IdleSave, ReaderStates, IdleReader
<1>17. CASE UNCHANGED vars
  BY <1>1, <1>17 DEF vars, TypeOK
<1> QED BY <1>2, <1>3, <1>4, <1>5, <1>6, <1>7, <1>8, <1>9, <1>10, <1>11, <1>12, <1>13, <1>14,
           <1>15, <1>16, <1>17 DEF Next, SaveStep, CountStep

\* The lock discipline: nobody takes a lock that is held, and who has it frees it.
LEMMA NextLock == IInv /\ [Next]_vars => LockInv'
<1> SUFFICES ASSUME IInv, [Next]_vars PROVE LockInv'
  OBVIOUS
<1>1. TypeOK /\ LockInv
  BY DEF IInv
<1>2. ASSUME NEW d \in Devices, NEW c \in setup.contents, Save(d, c) PROVE LockInv'
  BY <1>1, <1>2 DEF Save, TypeOK, LockInv, Holding
<1>3. ASSUME NEW d \in Devices, Open(d) PROVE LockInv'
  BY <1>1, <1>3, SaveGoes, LockHolders DEF Open, TypeOK, LockInv, Holding, SavePoints
<1>4. ASSUME NEW d \in Devices, Write(d) PROVE LockInv'
  BY <1>1, <1>4, SaveGoes, LockHolders DEF Write, TypeOK, LockInv, Holding, SavePoints, At
<1>5. ASSUME NEW d \in Devices, Stage(d) \/ CommitIndex(d) \/ Push(d) PROVE LockInv'
  BY <1>1, <1>5, SaveGoes
     DEF Stage, CommitIndex, Push, TypeOK, LockInv, Holding, SavePoints, At
<1>6. ASSUME NEW d \in Devices, Finish(d) PROVE LockInv'
  BY <1>1, <1>6, SaveGoes, LockHolders DEF Finish, TypeOK, LockInv, Holding, SavePoints, At
<1>7. ASSUME NEW d \in Devices, Fail(d) PROVE LockInv'
  <2>1. lock = Free \/ lock = d
    BY <1>1, <1>7 DEF Fail, MayFail, LockInv, Holding, At
  <2> QED BY <1>1, <1>7, <2>1, SaveGoes, LockHolders DEF Fail, TypeOK, LockInv, Holding, SavePoints
<1>8. ASSUME NEW d \in Devices, Return(d) PROVE LockInv'
  BY <1>1, <1>8 DEF Return, TypeOK, LockInv, Holding, IdleSave
<1>9. ASSUME NEW r \in Readers, NEW d \in Devices, CountStart(r, d) PROVE LockInv'
  BY <1>1, <1>9 DEF CountStart, TypeOK, LockInv
<1>10. ASSUME NEW r \in Readers, CountLock(r) PROVE LockInv'
  <2>1. CASE reader' = [reader EXCEPT ![r] = IdleReader] /\ UNCHANGED <<lock, save>>
    BY <1>1, <2>1 DEF TypeOK, LockInv, IdleReader
  <2>2. CASE lock = Free /\ lock' = r /\ UNCHANGED save
             /\ \E n : reader' = [reader EXCEPT ![r].pc = "counted", ![r].count = n]
    <3>1. PICK n : reader' = [reader EXCEPT ![r].pc = "counted", ![r].count = n]
      BY <2>2
    <3>2. reader[r] \in ReaderStates /\ reader[r].device \in Devices
      BY <1>1, <1>10 DEF CountLock, TypeOK, LockInv
    <3>3. reader'[r].device = reader[r].device
      BY <1>1, <3>1, <3>2 DEF TypeOK, ReaderStates
    <3>4. \A q \in Readers \ {r} : reader'[q] = reader[q]
      BY <1>1, <3>1 DEF TypeOK
    <3>5. \A d \in Devices : save[d].pc \notin Holding
      BY <1>1, <2>2, LockHolders DEF LockInv
    <3>6. \A q \in Readers : reader[q].pc # "counted"
      BY <1>1, <2>2, LockHolders DEF LockInv
    <3> QED BY <1>1, <2>2, <3>2, <3>3, <3>4, <3>5, <3>6 DEF LockInv
  <2> QED BY <1>10, <2>1, <2>2 DEF CountLock
<1>11. ASSUME NEW r \in Readers, CountStore(r) PROVE LockInv'
  <2>1. lock = r
    BY <1>1, <1>11 DEF CountStore, LockInv
  <2> QED BY <1>1, <1>11, <2>1, LockHolders DEF CountStore, TypeOK, LockInv, IdleReader, Holding
<1>12. CASE UNCHANGED <<lock, save, reader>>
  BY <1>1, <1>12 DEF LockInv
<1>13. CASE Crash
  BY <1>13 DEF Crash, LockInv, IdleSave, IdleReader, Holding
<1> QED BY <1>2, <1>3, <1>4, <1>5, <1>6, <1>7, <1>8, <1>9, <1>10, <1>11, <1>12, <1>13
        DEF Next, SaveStep, CountStep, Expire, BlockLoop, UnblockLoop, vars

\* A commit while the lock is held: the index, which others' saves have not touched,
\* becomes HEAD.
LEMMA CommitEffect ==
    ASSUME IInv, NEW d \in Devices, CommitIndex(d)
    PROVE  /\ [tree |-> index, by |-> d] \in Commit
           /\ log \in Seq(Commit) /\ log' = Append(log, [tree |-> index, by |-> d])
           /\ Head_' = index
           /\ save'[d].pc = "committed" /\ save'[d].content = save[d].content
           /\ \A e \in Devices \ {d} : save'[e] = save[e] /\ ~At(e, "staged")
<1>1. TypeOK /\ LockInv
  BY DEF IInv
<1>2. [tree |-> index, by |-> d] \in Commit /\ log \in Seq(Commit)
  BY <1>1 DEF TypeOK, Commit
<1>3. log' = Append(log, [tree |-> index, by |-> d])
  BY DEF CommitIndex
<1>4. Head_' = index
  <2>1. PICK c \in Commit : c = [tree |-> index, by |-> d]
    BY <1>2
  <2>2. PICK n : n = Len(log)
    OBVIOUS
  <2>3. Head_' = c.tree
    BY <1>2, <1>3, <2>1, <2>2, AppendedCommit
  <2> QED BY <2>1, <2>3
<1>5. /\ save'[d].pc = "committed" /\ save'[d].content = save[d].content
      /\ \A e \in Devices \ {d} : save'[e] = save[e]
  BY <1>1, SaveGoes DEF TypeOK, CommitIndex, SavePoints
<1>6. \A e \in Devices \ {d} : ~At(e, "staged")
  BY <1>1 DEF CommitIndex, LockInv, Holding, At
<1> QED BY <1>2, <1>3, <1>4, <1>5, <1>6

\* Where a save's configuration has got to.
LEMMA NextSave == IInv /\ [Next]_vars => SaveInv'
<1> SUFFICES ASSUME IInv, [Next]_vars PROVE SaveInv'
  OBVIOUS
<1>1. TypeOK /\ LockInv /\ SaveInv
  BY DEF IInv
<1>2. ASSUME UNCHANGED log PROVE Head_' = Head_
  BY <1>2 DEF Head_, TreeAt, NoTree
<1>3. ASSUME NEW d \in Devices, NEW c \in setup.contents, Save(d, c) PROVE SaveInv'
  <2>1. c \in Contents
    BY <1>1, SetupsAssumption DEF TypeOK
  <2> QED BY <1>1, <1>2, <1>3, <2>1 DEF Save, TypeOK, SaveInv, At
<1>4. ASSUME NEW d \in Devices, Open(d) PROVE SaveInv'
  <2>1. \A e \in Devices \ {d} : save[e].pc \notin {"written", "staged"}
    BY <1>1, <1>4, LockHolders DEF Open, LockInv, Holding
  <2>2. save[d].content \in Contents
    BY <1>1, <1>4 DEF Open, SaveInv, At
  <2> QED BY <1>1, <1>2, <1>4, <2>1, <2>2, SaveGoes DEF Open, TypeOK, SaveInv, At, SavePoints
<1>5. ASSUME NEW d \in Devices, Write(d) PROVE SaveInv'
  <2>1. save[d].content \in Contents
    BY <1>1, <1>5 DEF Write, SaveInv, At
  <2> QED BY <1>1, <1>2, <1>5, <2>1, SaveGoes DEF Write, TypeOK, SaveInv, At, SavePoints
<1>6. ASSUME NEW d \in Devices, Stage(d) PROVE SaveInv'
  BY <1>1, <1>2, <1>6, SaveGoes DEF Stage, TypeOK, Trees, SaveInv, At, SavePoints
<1>7. ASSUME NEW d \in Devices, CommitIndex(d) PROVE SaveInv'
  <2>1. UNCHANGED <<worktree, index>>
    BY <1>7 DEF CommitIndex
  <2> QED BY <1>1, <1>7, <2>1, CommitEffect DEF SaveInv, At, CommitIndex
<1>8. ASSUME NEW d \in Devices, Push(d) \/ Finish(d) \/ Fail(d) PROVE SaveInv'
  <2>1. UNCHANGED <<worktree, index, log>>
    BY <1>8 DEF Push, Finish, Fail
  <2>2. PICK p \in {"pushed", "changed", "failed"} :
          /\ Goto(d, p) /\ ~At(d, "idle")
          /\ p = "pushed" => At(d, "committed")
          /\ p = "changed" => At(d, "pushed")
    BY <1>8 DEF Push, Finish, Fail, MayFail, At
  <2>3. /\ save'[d].pc = p /\ save'[d].content = save[d].content
        /\ \A e \in Devices \ {d} : save'[e] = save[e]
    BY <1>1, <2>2, SaveGoes DEF TypeOK, SavePoints
  <2> QED BY <1>1, <1>2, <2>1, <2>2, <2>3 DEF SaveInv, At
<1>9. ASSUME NEW d \in Devices, Return(d) PROVE SaveInv'
  BY <1>1, <1>2, <1>9 DEF Return, TypeOK, SaveInv, IdleSave, At
<1>10. CASE UNCHANGED <<worktree, index, log, save>>
  BY <1>1, <1>2, <1>10 DEF SaveInv, At
<1>11. CASE Crash
  BY <1>11 DEF Crash, SaveInv, IdleSave, At
<1> QED BY <1>3, <1>4, <1>5, <1>6, <1>7, <1>8, <1>9, <1>10, <1>11
        DEF Next, SaveStep, CountStep, Expire, BlockLoop, UnblockLoop, CountStart,
            CountLock, CountStore, vars

\* Without failures of git, index, file and HEAD differ only inside a save.
LEMMA NextClean == IInv /\ [Next]_vars => CleanInv'
<1> SUFFICES ASSUME IInv, [Next]_vars, GitWorks' PROVE
      (\A d \in Devices :
          /\ ~At(d, "staged") => index[d] = Head_[d]
          /\ save[d].pc \notin {"written", "staged"} => worktree[d] \in {Head_[d], Torn}
          /\ save[d].pc \in {"rewriting", "unchanged"} => Head_[d] = save[d].content)'
  BY DEF CleanInv
<1> DEFINE Clean == \A d \in Devices :
             /\ ~At(d, "staged") => index[d] = Head_[d]
             /\ save[d].pc \notin {"written", "staged"} => worktree[d] \in {Head_[d], Torn}
             /\ save[d].pc \in {"rewriting", "unchanged"} => Head_[d] = save[d].content
<1>1. TypeOK /\ LockInv /\ SaveInv
  BY DEF IInv
<1>2. setup' = setup
  BY DEF Next, SaveStep, CountStep, Save, Open, Write, Stage, CommitIndex, Push, Finish, Fail,
         Return, Expire, CountStart, CountLock, CountStore, BlockLoop, UnblockLoop, 
         Crash, vars
<1>3. GitWorks /\ Clean
  BY <1>2 DEF IInv, CleanInv, GitWorks
<1>4. ASSUME UNCHANGED log PROVE Head_' = Head_
  BY <1>4 DEF Head_, TreeAt, NoTree
<1> SUFFICES Clean'
  OBVIOUS
<1>5. ASSUME NEW d \in Devices, NEW c \in setup.contents, Save(d, c) PROVE Clean'
  BY <1>1, <1>3, <1>4, <1>5 DEF Save, TypeOK, At
<1>6. ASSUME NEW d \in Devices, Open(d) PROVE Clean'
  <2>1. worktree[d] = save[d].content => Head_[d] = save[d].content
    <3>1. save[d].content # Torn
      BY <1>1, <1>6, SpecialContents DEF Open, SaveInv, At
    <3> QED BY <1>3, <1>6, <3>1 DEF Open, At
  <2>2. PICK p : p = IF worktree[d] = save[d].content THEN "rewriting" ELSE "opened"
    OBVIOUS
  <2>3. /\ save'[d].pc = p /\ save'[d].content = save[d].content
        /\ \A e \in Devices \ {d} : save'[e] = save[e]
    BY <1>1, <1>6, <2>2, SaveGoes DEF Open, TypeOK, SavePoints
  <2> QED BY <1>1, <1>3, <1>4, <1>6, <2>1, <2>2, <2>3 DEF Open, TypeOK, At
<1>7. ASSUME NEW d \in Devices, Write(d) PROVE Clean'
  <2>1. PICK p \in {"unchanged", "written"} :
          /\ Goto(d, p)
          /\ p = "unchanged" => At(d, "rewriting")
    BY <1>7 DEF Write
  <2>2. /\ save'[d].pc = p /\ save'[d].content = save[d].content
        /\ \A e \in Devices \ {d} : save'[e] = save[e]
    BY <1>1, <2>1, SaveGoes DEF TypeOK, SavePoints
  <2>3. worktree' = [worktree EXCEPT ![d] = save[d].content] /\ UNCHANGED <<index, log>>
    BY <1>7 DEF Write
  <2> QED BY <1>1, <1>3, <1>4, <1>7, <2>1, <2>2, <2>3 DEF Write, TypeOK, At
<1>8. ASSUME NEW d \in Devices, Stage(d) PROVE Clean'
  <2>1. /\ save'[d].pc = "staged"
        /\ \A e \in Devices \ {d} : save'[e] = save[e]
    BY <1>1, <1>8, SaveGoes DEF Stage, TypeOK, SavePoints
  <2> QED BY <1>1, <1>3, <1>4, <1>8, <2>1 DEF Stage, TypeOK, Trees, At
<1>9. ASSUME NEW d \in Devices, CommitIndex(d) PROVE Clean'
  <2>1. UNCHANGED <<worktree, index>> /\ At(d, "staged")
    BY <1>9 DEF CommitIndex
  <2>2. worktree[d] = index[d]
    BY <1>1, <2>1 DEF SaveInv, At
  <2>3. /\ Head_' = index /\ save'[d].pc = "committed"
        /\ \A e \in Devices \ {d} : save'[e] = save[e] /\ ~At(e, "staged")
    BY <1>9, CommitEffect
  <2>4. \A e \in Devices \ {d} : index[e] = Head_[e]
    BY <1>3, <2>3
  <2>5. ASSUME NEW e \in Devices
        PROVE  (/\ ~At(e, "staged") => index[e] = Head_[e]
                /\ save[e].pc \notin {"written", "staged"} => worktree[e] \in {Head_[e], Torn}
                /\ save[e].pc \in {"rewriting", "unchanged"} => Head_[e] = save[e].content)'
    <3>1. CASE e = d
      BY <2>1, <2>2, <2>3, <3>1
    <3>2. CASE e # d
      BY <1>3, <2>1, <2>3, <2>4, <3>2
    <3> QED BY <3>1, <3>2
  <2> QED BY <2>5
<1>10. ASSUME NEW d \in Devices, Push(d) \/ Finish(d) PROVE Clean'
  <2>1. PICK p \in {"pushed", "changed"} : Goto(d, p)
    BY <1>10 DEF Push, Finish
  <2>2. /\ save'[d].pc = p
        /\ \A e \in Devices \ {d} : save'[e] = save[e]
    BY <1>1, <2>1, SaveGoes DEF TypeOK, SavePoints
  <2>3. UNCHANGED <<worktree, index, log>> /\ save[d].pc \in {"committed", "pushed"}
    BY <1>10 DEF Push, Finish, At
  <2> QED BY <1>1, <1>3, <1>4, <2>1, <2>2, <2>3 DEF At
<1>11. ASSUME NEW d \in Devices, Fail(d) PROVE Clean'
  <2>1. save[d].pc \in {"waiting", "rewriting", "opened"}
    BY <1>3, <1>11 DEF Fail, MayFail, GitWorks, At
  <2>2. /\ save'[d].pc = "failed"
        /\ \A e \in Devices \ {d} : save'[e] = save[e]
    BY <1>1, <1>11, SaveGoes DEF Fail, TypeOK, SavePoints
  <2>3. UNCHANGED <<worktree, index, log>>
    BY <1>11 DEF Fail
  <2> QED BY <1>1, <1>3, <1>4, <2>1, <2>2, <2>3 DEF At
<1>12. ASSUME NEW d \in Devices, Return(d) PROVE Clean'
  BY <1>1, <1>3, <1>4, <1>12 DEF Return, TypeOK, IdleSave, At
<1>13. CASE UNCHANGED <<worktree, index, log, save>>
  BY <1>3, <1>4, <1>13 DEF At
<1>14. ~Crash
  BY <1>3 DEF Crash, GitWorks
<1> HIDE DEF Clean
<1> QED BY <1>5, <1>6, <1>7, <1>8, <1>9, <1>10, <1>11, <1>12, <1>13, <1>14
        DEF Next, SaveStep, CountStep, Expire, BlockLoop, UnblockLoop, CountStart,
            CountLock, CountStore, vars

\* Without failures of git a commit changes its own file only.
LEMMA NextOwn == IInv /\ [Next]_vars => CommitIsOwn'
<1> SUFFICES ASSUME IInv, [Next]_vars PROVE CommitIsOwn'
  OBVIOUS
<1>1. TypeOK /\ LockInv /\ CleanInv /\ CommitIsOwn
  BY DEF IInv
<1>2. setup' = setup
  BY DEF Next, SaveStep, CountStep, Save, Open, Write, Stage, CommitIndex, Push, Finish, Fail,
         Return, Expire, CountStart, CountLock, CountStore, BlockLoop, UnblockLoop, 
         Crash, vars
<1>3. CASE UNCHANGED log
  BY <1>1, <1>2, <1>3 DEF CommitIsOwn, GitWorks, TreeAt, NoTree
<1>4. ASSUME NEW d \in Devices, CommitIndex(d) PROVE CommitIsOwn'
  <2>1. PICK n, c : n = Len(log) /\ c = [tree |-> index, by |-> d]
    OBVIOUS
  <2>2. /\ c \in Commit /\ log \in Seq(Commit) /\ log' = Append(log, c)
        /\ \A e \in Devices \ {d} : ~At(e, "staged")
    BY <1>4, <2>1, CommitEffect
  <2>3. /\ n \in Nat /\ Len(log') = n + 1
        /\ \A i \in 1 .. n : log'[i] = log[i]
        /\ log'[n + 1] = c
        /\ \A i \in 0 .. n : TreeAt(i)' = TreeAt(i)
        /\ TreeAt(n + 1)' = c.tree
    BY <2>1, <2>2, AppendedCommit
  <2>4. SUFFICES ASSUME GitWorks, NEW i \in 1 .. n + 1, NEW e \in Devices \ {log'[i].by}
                 PROVE  TreeAt(i)'[e] = TreeAt(i - 1)'[e]
    BY <1>2, <2>3 DEF CommitIsOwn, GitWorks
  <2>5. CASE i \in 1 .. n
    <3>1. i \in 0 .. n /\ i - 1 \in 0 .. n
      BY <2>3, <2>5
    <3>2. e \in Devices \ {log[i].by}
      BY <2>3, <2>5
    <3>3. TreeAt(i)[e] = TreeAt(i - 1)[e]
      BY <1>1, <2>1, <2>4, <2>5, <3>2 DEF CommitIsOwn
    <3> QED BY <2>3, <3>1, <3>3
  <2>6. CASE i = n + 1
    <3>1. e \in Devices \ {d}
      BY <2>1, <2>3, <2>6
    <3>2. index[e] = Head_[e]
      BY <1>1, <2>2, <2>4, <3>1 DEF CleanInv
    <3>3. TreeAt(i - 1)' = Head_
      BY <2>1, <2>3, <2>6 DEF Head_
    <3> QED BY <2>1, <2>3, <2>6, <3>2, <3>3
  <2> QED BY <2>3, <2>5, <2>6
<1> QED BY <1>3, <1>4
        DEF Next, SaveStep, CountStep, Save, Open, Write, Stage, Push, Finish, Fail, Return,
            Expire, CountStart, CountLock, CountStore, BlockLoop, UnblockLoop, 
            Crash, vars

\* Without failures of git and of the count, a cached count is stale only between a
\* commit and its invalidation, and nothing is committed while a count waits.
LEMMA NextCount == IInv /\ [Next]_vars => CountInv'
<1> DEFINE Fresh == \A d \in Devices : cache[d] \notin {NoCount, RevCount(d)}
                        => save[d].pc \in {"committed", "pushed", "changed"}
           Counted == \A r \in Readers : reader[r].pc = "counted" =>
                          reader[r].count = RevCount(reader[r].device)
<1> SUFFICES ASSUME IInv, [Next]_vars, GitWorks', "count" \notin setup'.faults
             PROVE  Fresh' /\ Counted'
  BY DEF CountInv, CountFresh
<1>1. TypeOK /\ LockInv /\ CleanInv
  BY DEF IInv
<1>2. setup' = setup
  BY DEF Next, SaveStep, CountStep, Save, Open, Write, Stage, CommitIndex, Push, Finish, Fail,
         Return, Expire, CountStart, CountLock, CountStore, BlockLoop, UnblockLoop, 
         Crash, vars
<1>3. GitWorks /\ "count" \notin setup.faults /\ Fresh /\ Counted
  BY <1>2 DEF IInv, CountInv, CountFresh, GitWorks
<1>4. ASSUME UNCHANGED log PROVE \A d : RevCount(d)' = RevCount(d)
  BY <1>4 DEF RevCount, Touching, TreeAt, NoTree
<1>5. ASSUME UNCHANGED <<log, cache, save>>, Counted' PROVE Fresh' /\ Counted'
  BY <1>3, <1>4, <1>5
<1>6. ASSUME UNCHANGED <<log, reader>> PROVE Counted'
  BY <1>1, <1>3, <1>4, <1>6 DEF LockInv
<1>7. ASSUME NEW d \in Devices, NEW c \in setup.contents, Save(d, c) PROVE Fresh' /\ Counted'
  <2>1. \A e \in Devices : save[e].pc \in {"committed", "pushed", "changed"} => save'[e] = save[e]
    BY <1>1, <1>7 DEF Save, TypeOK, At
  <2> QED BY <1>3, <1>4, <1>6, <1>7, <2>1 DEF Save
<1>8. ASSUME NEW d \in Devices, Open(d) \/ Write(d) \/ Stage(d) \/ Fail(d)
      PROVE  Fresh' /\ Counted'
  <2>1. save[d].pc \notin {"committed", "pushed", "changed"}
    BY <1>3, <1>8 DEF Open, Write, Stage, Fail, MayFail, GitWorks, At
  <2>2. PICK p \in SavePoints : Goto(d, p)
    BY <1>8 DEF Open, Write, Stage, Fail, SavePoints
  <2>3. \A e \in Devices \ {d} : save'[e] = save[e]
    BY <1>1, <2>2, SaveGoes DEF TypeOK
  <2>4. UNCHANGED <<log, cache, reader>>
    BY <1>8 DEF Open, Write, Stage, Fail
  <2> QED BY <1>3, <1>4, <1>6, <2>1, <2>3, <2>4
<1>9. ASSUME NEW d \in Devices, CommitIndex(d) PROVE Fresh' /\ Counted'
  <2>1. UNCHANGED <<cache, reader>> /\ At(d, "staged") /\ lock = d
    BY <1>1, <1>9 DEF CommitIndex, LockInv, Holding, At
  <2>2. ASSUME NEW e \in Devices \ {d} PROVE RevCount(e)' = RevCount(e)
    <3>1. PICK c \in Commit : c = [tree |-> index, by |-> d]
      BY <1>9, CommitEffect
    <3>2. log \in Seq(Commit) /\ log' = Append(log, c) /\ ~At(e, "staged")
      BY <1>9, <3>1, CommitEffect
    <3>3. c.tree[e] = Head_[e]
      BY <1>1, <1>3, <3>1, <3>2 DEF CleanInv
    <3> QED BY <3>2, <3>3, CountKept
  <2>3. Fresh'
    BY <1>3, <1>9, <2>1, <2>2, CommitEffect
  <2>4. \A r \in Readers : reader[r].pc # "counted"
    BY <1>1, <2>1, LockHolders DEF LockInv
  <2> QED BY <2>1, <2>3, <2>4
<1>10. ASSUME NEW d \in Devices, Push(d) \/ Finish(d) PROVE Fresh' /\ Counted'
  <2>1. PICK p \in {"pushed", "changed"} : Goto(d, p)
    BY <1>10 DEF Push, Finish
  <2>2. save'[d].pc = p /\ \A e \in Devices \ {d} : save'[e] = save[e]
    BY <1>1, <2>1, SaveGoes DEF TypeOK, SavePoints
  <2>3. UNCHANGED <<log, cache, reader>>
    BY <1>10 DEF Push, Finish
  <2> QED BY <1>3, <1>4, <1>6, <2>2, <2>3
<1>11. ASSUME NEW d \in Devices, Return(d) PROVE Fresh' /\ Counted'
  <2>1. UNCHANGED <<log, reader>> /\ save' = [save EXCEPT ![d] = IdleSave]
    BY <1>11 DEF Return
  <2>2. \A e \in Devices \ {d} : save'[e] = save[e]
    BY <1>1, <2>1 DEF TypeOK
  <2>3. \A e \in Devices \ {d} : cache'[e] = cache[e]
    BY <1>1, <1>11 DEF Return, TypeOK
  <2>4. cache'[d] \in {NoCount, RevCount(d)}
    <3>1. CASE At(d, "changed")
      BY <1>1, <1>11, <3>1 DEF Return, TypeOK
    <3>2. CASE ~At(d, "changed")
      BY <1>3, <1>11, <3>2 DEF Return, At
    <3> QED BY <3>1, <3>2
  <2> QED BY <1>3, <1>4, <1>6, <2>1, <2>2, <2>3, <2>4
<1>12. ASSUME NEW d \in Devices, Expire(d) PROVE Fresh' /\ Counted'
  <2>1. UNCHANGED <<log, reader, save>> /\ \A e \in Devices : cache'[e] \in {cache[e], NoCount}
    BY <1>1, <1>12 DEF Expire, TypeOK
  <2> QED BY <1>3, <1>4, <1>6, <2>1
<1>13. ASSUME NEW r \in Readers, NEW d \in Devices, CountStart(r, d) PROVE Fresh' /\ Counted'
  <2>1. UNCHANGED <<log, cache, save>>
    BY <1>13 DEF CountStart
  <2>2. reader'[r].pc = "waiting" /\ \A q \in Readers \ {r} : reader'[q] = reader[q]
    BY <1>1, <1>13 DEF CountStart, TypeOK
  <2> QED BY <1>3, <1>4, <1>5, <2>1, <2>2
<1>14. ASSUME NEW r \in Readers, CountLock(r) PROVE Fresh' /\ Counted'
  <2>1. UNCHANGED <<log, cache, save>>
    BY <1>14 DEF CountLock
  <2>2. CASE reader' = [reader EXCEPT ![r] = IdleReader]
    <3>1. reader'[r].pc = "idle" /\ \A q \in Readers \ {r} : reader'[q] = reader[q]
      BY <1>1, <2>2 DEF TypeOK, IdleReader
    <3> QED BY <1>3, <1>4, <1>5, <2>1, <3>1
  <2>3. CASE \E n \in {RevCount(reader[r].device)} :
                 reader' = [reader EXCEPT ![r].pc = "counted", ![r].count = n]
    <3>1. reader[r] \in ReaderStates
      BY <1>1 DEF TypeOK
    <3>2. PICK n : n = RevCount(reader[r].device)
      OBVIOUS
    <3>3. reader' = [reader EXCEPT ![r].pc = "counted", ![r].count = n]
      BY <2>3, <3>2
    <3>4. reader'[r].count = n /\ reader'[r].device = reader[r].device
      BY <1>1, <3>1, <3>3 DEF TypeOK, ReaderStates
    <3>5. \A q \in Readers \ {r} : reader'[q] = reader[q]
      BY <1>1, <3>3 DEF TypeOK
    <3> QED BY <1>3, <1>4, <1>5, <2>1, <3>2, <3>4, <3>5
  <2> QED BY <1>3, <1>14, <2>2, <2>3 DEF CountLock
<1>15. ASSUME NEW r \in Readers, CountStore(r) PROVE Fresh' /\ Counted'
  <2>1. UNCHANGED <<log, save>> /\ reader[r].count = RevCount(reader[r].device)
    BY <1>3, <1>15 DEF CountStore
  <2>2. reader'[r].pc = "idle" /\ \A q \in Readers \ {r} : reader'[q] = reader[q]
    BY <1>1, <1>15 DEF CountStore, TypeOK, IdleReader
  <2>3. \A e \in Devices : cache'[e] = cache[e] \/ cache'[e] = RevCount(e)
    BY <1>1, <1>15, <2>1 DEF CountStore, TypeOK
  <2> QED BY <1>3, <1>4, <2>1, <2>2, <2>3
<1>16. CASE BlockLoop \/ UnblockLoop \/ UNCHANGED vars
  BY <1>5, <1>6, <1>16 DEF BlockLoop, UnblockLoop, vars
<1>17. ~Crash
  BY <1>3 DEF Crash, GitWorks
<1> HIDE DEF Fresh, Counted
<1> QED BY <1>7, <1>8, <1>9, <1>10, <1>11, <1>12, <1>13, <1>14, <1>15, <1>16, <1>17
        DEF Next, SaveStep, CountStep

-----------------------------------------------------------------------------
(***************************************************************************)
(* Pages of the history.                                                   *)
(***************************************************************************)
\* A set of numbers has a least one.
LEMMA LeastExists ==
    ASSUME NEW S \in SUBSET Nat, S # {}
    PROVE  \E m \in S : \A j \in S : m <= j
<1>1. PICK m \in S : \A j \in S : <<j, m>> \notin OpToRel(<, Nat)
  BY NatLessThanWellFounded, WFMin
<1>2. \A j \in S : ~(j < m)
  BY <1>1 DEF OpToRel
<1> QED BY <1>2

\* A finite set of numbers has an element with k - 1 greater ones: the smallest set
\* of at least k elements that contains whatever is greater begins with it.
LEMMA NthGreatest ==
    ASSUME NEW T \in SUBSET Nat, IsFiniteSet(T), NEW k \in 1 .. Cardinality(T)
    PROVE  \E i \in T : Cardinality({j \in T : j > i}) = k - 1
<1> DEFINE Tops == {U \in FiniteSubsetsOf(T) :
                       Cardinality(U) >= k /\ \A i \in U, j \in T : j > i => j \in U}
<1>1. T \in Tops
  <2>1. Cardinality(T) \in Nat
    BY FS_CardinalityType
  <2> QED BY <2>1 DEF FiniteSubsetsOf
<1>2. PICK U \in Tops : \A V \in Tops : <<V, U>> \notin StrictSubsetOrdering(T)
  <2>1. Tops \subseteq FiniteSubsetsOf(T)
    OBVIOUS
  <2> HIDE DEF Tops
  <2> QED BY <1>1, <2>1, FS_StrictSubsetOrderingWellFounded, WFMin
<1>3. /\ U \subseteq T /\ IsFiniteSet(U) /\ Cardinality(U) \in Nat /\ Cardinality(U) >= k
      /\ \A i \in U, j \in T : j > i => j \in U
  BY <1>2, FS_CardinalityType DEF FiniteSubsetsOf
<1>4. U # {}
  BY <1>3, FS_EmptySet
<1>5. PICK i \in U : \A j \in U : i <= j
  BY <1>3, <1>4, LeastExists
<1>6. U \ {i} = {j \in T : j > i}
  <2>1. i \in Nat /\ T \subseteq Nat
    BY <1>3, <1>5
  <2>2. \A j \in U : j \in T /\ (j > i \/ j = i)
    BY <1>3, <1>5, <2>1
  <2>3. \A j \in T : j > i => j \in U /\ j # i
    BY <1>3, <1>5, <2>1
  <2>4. ~(i > i)
    BY <2>1
  <2> QED BY <2>2, <2>3, <2>4
<1>7. IsFiniteSet(U \ {i}) /\ Cardinality(U \ {i}) = Cardinality(U) - 1
  BY <1>3, <1>5, FS_RemoveElement
<1>8. U \ {i} \notin Tops
  <2>1. <<U \ {i}, U>> \in StrictSubsetOrdering(T)
    BY <1>3, <1>5 DEF StrictSubsetOrdering
  <2> QED BY <1>2, <2>1
<1>9. \A j \in U \ {i}, l \in T : l > j => l \in U \ {i}
  BY <1>3, <1>5
<1>10. ~(Cardinality(U \ {i}) >= k)
  BY <1>3, <1>7, <1>8, <1>9 DEF FiniteSubsetsOf
<1>11. Cardinality(U) - 1 = k - 1
  BY <1>3, <1>7, <1>10
<1> QED BY <1>3, <1>5, <1>6, <1>7, <1>11

\* The n-th newest commit that touches the file is one that has n - 1 newer ones.
LEMMA NewestIs ==
    ASSUME Len(log) \in Nat, NEW d \in Devices, NEW n \in 1 .. RevCount(d)
    PROVE  /\ Newest(d, n) \in Touching(d)
           /\ Cardinality({j \in Touching(d) : j > Newest(d, n)}) = n - 1
<1>1. Touching(d) \in SUBSET Nat /\ IsFiniteSet(Touching(d))
  <2>1. Touching(d) \subseteq 1 .. Len(log) /\ IsFiniteSet(1 .. Len(log))
    BY FS_Interval DEF Touching
  <2> QED BY <2>1, FS_Subset
<1>2. \E i \in Touching(d) : Cardinality({j \in Touching(d) : j > i}) = n - 1
  BY <1>1, NthGreatest DEF RevCount
<1> QED BY <1>2 DEF Newest

\* The commits up to one and those after it are all there are.
LEMMA UpToAndAfter ==
    ASSUME NEW T \in SUBSET Nat, IsFiniteSet(T), NEW i \in Nat
    PROVE  Cardinality({j \in T : j <= i}) = Cardinality(T) - Cardinality({j \in T : j > i})
<1> DEFINE L == {j \in T : j <= i}
           G == {j \in T : j > i}
<1>1. IsFiniteSet(L) /\ IsFiniteSet(G)
  BY FS_Subset
<1>2. L \cup G = T /\ L \cap G = {}
  <2>1. \A j \in T : (j <= i \/ j > i) /\ ~(j <= i /\ j > i)
    OBVIOUS
  <2> QED BY <2>1
<1>3. Cardinality(L) \in Nat /\ Cardinality(G) \in Nat
  BY <1>1, FS_CardinalityType
<1> HIDE DEF L, G
<1>4. Cardinality(L \cup G) = Cardinality(L) + Cardinality(G) - Cardinality(L \cap G)
  BY <1>1, FS_Union
<1>5. Cardinality(T) = Cardinality(L) + Cardinality(G)
  <2>1. Cardinality(L \cap G) = 0
    BY <1>2, FS_EmptySet
  <2> QED BY <1>2, <1>3, <1>4, <2>1
<1>6. Cardinality(L) = Cardinality(T) - Cardinality(G)
  BY <1>3, <1>5
<1> QED BY <1>6 DEF L, G

\* A page holds the commits that are left after the offset, up to the limit.
LEMMA PageIs ==
    ASSUME Len(log) \in Nat, NEW d \in Devices, NEW offset \in Nat, NEW limit \in Nat
    PROVE  /\ Len(Page(d, offset, limit)) \in Nat
           /\ Len(Page(d, offset, limit)) <= limit
           /\ Len(Page(d, offset, limit)) <= RevCount(d)
           /\ offset = 0 /\ limit >= RevCount(d) => Len(Page(d, offset, limit)) = RevCount(d)
           /\ DOMAIN Page(d, offset, limit) = 1 .. Len(Page(d, offset, limit))
           /\ \A i \in DOMAIN Page(d, offset, limit) :
                 /\ offset + i \in 1 .. RevCount(d)
                 /\ Page(d, offset, limit)[i] = Newest(d, offset + i)
<1>1. PICK total \in Nat : total = RevCount(d)
  BY CountIsNat
<1>2. PICK left \in Int : left = total - offset
  OBVIOUS
<1>3. PICK n \in Int : n = IF left < limit THEN left ELSE limit
  OBVIOUS
<1>4. Page(d, offset, limit) = [k \in 1 .. n |-> Newest(d, offset + k)]
  BY <1>1, <1>2, <1>3 DEF Page
<1>5. PICK m \in Nat : m = IF n < 0 THEN 0 ELSE n
  BY <1>3
<1>6. 1 .. n = 1 .. m
  BY <1>5
<1>7. Len(Page(d, offset, limit)) = m /\ DOMAIN Page(d, offset, limit) = 1 .. m
  <2>1. PICK p : p = [k \in 1 .. m |-> Newest(d, offset + k)]
    OBVIOUS
  <2>2. PICK S : S = {Newest(d, offset + k) : k \in 1 .. m}
    OBVIOUS
  <2>3. p \in [1 .. m -> S]
    BY <2>1, <2>2
  <2>4. p \in Seq(S)
    BY <2>3, SeqDef
  <2>5. DOMAIN p = 1 .. m /\ DOMAIN p = 1 .. Len(p) /\ Len(p) \in Nat
    BY <2>3, <2>4
  <2>6. Len(p) = m
    BY <2>5
  <2> QED BY <1>4, <1>6, <2>1, <2>5, <2>6
<1>8. \A i \in 1 .. m : offset + i \in 1 .. total /\ Page(d, offset, limit)[i] = Newest(d, offset + i)
  BY <1>2, <1>3, <1>4, <1>5, <1>6
<1>9. m <= limit /\ m <= total /\ (offset = 0 /\ limit >= total => m = total)
  BY <1>2, <1>3, <1>5
<1> QED BY <1>1, <1>7, <1>8, <1>9

\* The n-th newest commit of a device has so many commits up to it.
LEMMA AgeOfNewest ==
    ASSUME Len(log) \in Nat, NEW d \in Devices, NEW n \in 1 .. RevCount(d)
    PROVE  Cardinality({j \in Touching(d) : j <= Newest(d, n)}) = RevCount(d) - (n - 1)
<1>1. RevCount(d) \in Nat
  BY CountIsNat
<1>2. PICK c \in Touching(d) : /\ c = Newest(d, n)
                               /\ Cardinality({j \in Touching(d) : j > c}) = n - 1
  BY NewestIs
<1>3. Touching(d) \in SUBSET Nat /\ IsFiniteSet(Touching(d))
  <2>1. Touching(d) \subseteq 1 .. Len(log) /\ IsFiniteSet(1 .. Len(log))
    BY FS_Interval DEF Touching
  <2> QED BY <2>1, FS_Subset
<1>4. Cardinality({j \in Touching(d) : j <= c}) = RevCount(d) - (n - 1)
  BY <1>2, <1>3, UpToAndAfter DEF RevCount
<1> QED BY <1>2, <1>4

\* However a history is paged, the entries of a page are numbered by their age, if
\* they are counted or are all there are, and never above it.
LEMMA PagesNumberCommits ==
    ASSUME Len(log) \in Nat, NEW d \in Devices, NEW offset \in Nat, NEW limit \in Nat,
           NEW git \in GitAnswers, NEW i \in DOMAIN History(d, offset, limit, git)
    PROVE  LET e == History(d, offset, limit, git)[i]
               age == Cardinality({j \in Touching(d) : j <= e.commit})
           IN  /\ e.version <= age
               /\ git = "counted" \/ (offset = 0 /\ limit >= RevCount(d)) => e.version = age
<1> DEFINE page == Page(d, offset, limit)
           total == IF git = "counted" THEN RevCount(d) ELSE Len(page)
           n == offset + i
<1>1. git # "unlisted" /\ i \in DOMAIN page
  BY DEF History
<1>2. i \in Nat \ {0} /\ n \in 1 .. RevCount(d) /\ page[i] = Newest(d, n)
  BY <1>1, PageIs
<1>3. RevCount(d) \in Nat
  BY CountIsNat
<1>4. /\ total \in Nat /\ total <= RevCount(d)
      /\ git = "counted" \/ (offset = 0 /\ limit >= RevCount(d)) => total = RevCount(d)
  BY <1>3, PageIs
<1>5. /\ History(d, offset, limit, git)[i].commit = Newest(d, n)
      /\ History(d, offset, limit, git)[i].version = Version(total, page, offset, i)
  BY <1>1, <1>2 DEF History
<1>6. Cardinality({j \in Touching(d) : j <= Newest(d, n)}) = RevCount(d) - (n - 1)
  BY <1>2, AgeOfNewest
<1> HIDE DEF total, page
<1>7. /\ Version(total, page, offset, i) <= RevCount(d) - (n - 1)
      /\ total = RevCount(d) => Version(total, page, offset, i) = RevCount(d) - (n - 1)
  BY <1>2, <1>3, <1>4 DEF Version
<1> QED BY <1>4, <1>5, <1>6, <1>7

-----------------------------------------------------------------------------
\* The invariant holds in every reachable state of the repository.
THEOREM Inductive == Spec => []IInv
<1>1. IInv /\ [Next]_vars => IInv'
  BY NextTypes, NextLock, NextSave, NextClean, NextCount, NextOwn DEF IInv
<1> QED BY InitIInv, <1>1, PTL DEF Spec

\* Every variable keeps its type: a torn file is never staged or committed.
THEOREM TypeCorrect == Spec => []TypeOK
<1>1. IInv => TypeOK
  BY DEF IInv
<1> QED BY Inductive, <1>1, PTL

\* A save that returns (hash, True) to backup_device has its configuration at HEAD,
\* whatever failed or died before and whatever other devices committed since.
THEOREM SuccessCommitted == Spec => []SuccessIsCommitted
<1>1. IInv => SuccessIsCommitted
  BY DEF IInv, SaveInv, SuccessIsCommitted, At
<1> QED BY Inductive, <1>1, PTL

\* A save that reports "no changes" finds its configuration at HEAD, unless git
\* failed or the process died after the file was written.
THEOREM UnchangedCommitted == Spec => []NoChangesIsCommitted
<1>1. IInv => NoChangesIsCommitted
  BY DEF IInv, CleanInv, NoChangesIsCommitted, UnchangedIsCommitted, At
<1> QED BY Inductive, <1>1, PTL

\* The cached number of commits of a device is git's, save between a commit and the
\* invalidate_history_count of the save that made it.
THEOREM CountsFresh == Spec => []CountFresh
<1>1. IInv => CountFresh
  BY DEF IInv, CountInv
<1> QED BY Inductive, <1>1, PTL

\* A page of a device's history numbers its commits by their age as long as git counts
\* them (_get_config_history_sync: "oldest commit = 1, newest = N"), and a page with the
\* whole history does so without the count; no page ever numbers one too high.
THEOREM VersionsAreAges == Spec => []VersionsNumberCommits
<1>1. TypeOK => VersionsNumberCommits
  <2> SUFFICES ASSUME TypeOK PROVE VersionsNumberCommits
    OBVIOUS
  <2>1. Len(log) \in Nat /\ setup.maxLog \in Nat
    BY SetupsAssumption DEF TypeOK
  <2>2. /\ \A offset \in 0 .. setup.maxLog : offset \in Nat
        /\ \A limit \in 1 .. setup.maxLog : limit \in Nat
    BY <2>1
  <2> QED BY <2>1, <2>2, PagesNumberCommits DEF VersionsNumberCommits
<1> QED BY TypeCorrect, <1>1, PTL

\* The commit of a backup changes no other device's file, although all devices of a
\* group share one index.
THEOREM CommitsOwn == Spec => []CommitIsOwn
<1>1. IInv => CommitIsOwn
  BY DEF IInv
<1> QED BY Inductive, <1>1, PTL
=============================================================================
