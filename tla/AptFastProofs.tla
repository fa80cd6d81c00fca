--------------------------- MODULE AptFastProofs ---------------------------
(***************************************************************************)
(* What the lock of lm-apt-fast gives, for any number of runs and any      *)
(* options: type correctness, lock accounting, the meaning of "no" and a   *)
(* clean /tmp whatever signals arrive; a list only its holder touches when *)
(* none does, and sessions that are AptSession's; and, for two runs,       *)
(* mutual exclusion and whole downloads.                                   *)
(* (MCAptFast shows that a third run breaks mutual exclusion, and a signal *)
(* the list.)                                                              *)
(***************************************************************************)
EXTENDS AptFast, TLAPS

LEMMA ListTypes == NoList \in ListFile
  BY DEF NoList, ListFile

LEMMA ListWith ==
  ASSUME NEW u \in Users, NEW S \in SUBSET Runs
  PROVE  [exists |-> TRUE, owner |-> u, entries |-> S] \in ListFile
  BY DEF ListFile

LEMMA ListFields ==
  TypeOK => list.owner \in Users /\ list.entries \in SUBSET Runs
<1>1. ASSUME NEW l \in ListFile PROVE l.owner \in Users /\ l.entries \in SUBSET Runs
  <2>1. CASE l = NoList
    BY <2>1, RootAssumption DEF NoList
  <2>2. CASE l \in [exists : {TRUE}, owner : Users, entries : SUBSET Runs]
    BY <2>2
  <2> QED
    BY <2>1, <2>2 DEF ListFile
<1> QED
  BY <1>1 DEF TypeOK

\* Every variable keeps its type: labels, inodes, the list file and the
\* per-run notes stay in the sets the script's states are made of.
THEOREM TypeCorrect == Spec => []TypeOK
<1> USE OptionsAssumption, SignalsAssumption, ListTypes
    DEF TypeOK, Labels, Working, Cleaning, Ended, given
<1>1. Init => TypeOK
  BY DEF Init
<1>2. TypeOK /\ [Next]_vars => TypeOK'
  <2> SUFFICES ASSUME TypeOK, [Next]_vars PROVE TypeOK'
    OBVIOUS
  <2>1. ASSUME NEW r \in Runs, OpenLock(r) PROVE TypeOK'
    BY <2>1 DEF OpenLock, Exec, Goto, runVars
  <2>2. ASSUME NEW r \in Runs, TakeLock(r) PROVE TypeOK'
    BY <2>2 DEF TakeLock, Goto, runVars
  <2>3. ASSUME NEW r \in Runs, Check(r) PROVE TypeOK'
    BY <2>3 DEF Check, Goto, lockVars
  <2>4. ASSUME NEW r \in Runs, StartList(r) PROVE TypeOK'
    BY <2>4, ListWith DEF StartList, Goto, lockVars, runVars
  <2>5. ASSUME NEW r \in Runs, FillList(r) PROVE TypeOK'
    <3> USE <2>5 DEF FillList
    <3>1. list' \in ListFile
      <4>1. \/ list' = list
            \/ list' = [exists |-> TRUE, owner |-> ListOwner(r),
                        entries |-> list.entries \cup {r}]
        BY Zenon
      <4>2. ListOwner(r) \in Users /\ list.entries \cup {r} \in SUBSET Runs
        BY ListFields DEF ListOwner
      <4>3. [exists |-> TRUE, owner |-> ListOwner(r),
             entries |-> list.entries \cup {r}] \in ListFile
        BY <4>2, ListWith
      <4> QED
        BY <4>1, <4>3, Zenon
    <3>2. wants' \in [Runs -> BOOLEAN]
      OBVIOUS
    <3>3. pc' \in [Runs -> Labels]
      BY DEF Goto
    <3> QED
      BY <3>1, <3>2, <3>3 DEF lockVars
  <2>6. ASSUME NEW r \in Runs, Ask(r) PROVE TypeOK'
    BY <2>6 DEF Ask, Goto, lockVars
  <2>7. ASSUME NEW r \in Runs, Fetch(r) PROVE TypeOK'
    BY <2>7, ListFields DEF Fetch, Goto, lockVars
  <2>8. ASSUME NEW r \in Runs, Manager(r) PROVE TypeOK'
    BY <2>8 DEF Manager, Goto, lockVars
  <2>9. ASSUME NEW r \in Runs, Clean(r) PROVE TypeOK'
    BY <2>9 DEF Clean, Goto, lockVars
  <2>10. ASSUME NEW r \in Runs, RemoveList(r) PROVE TypeOK'
    BY <2>10 DEF RemoveList, Goto, lockVars, runVars
  <2>11. ASSUME NEW r \in Runs, Unlock(r) PROVE TypeOK'
    BY <2>11 DEF Unlock, Release, Goto, runVars
  <2>12. ASSUME NEW r \in Runs, RemoveLock(r) PROVE TypeOK'
    BY <2>12 DEF RemoveLock, Goto
  <2>13. ASSUME NEW r \in Runs, Interrupt(r) PROVE TypeOK'
    BY <2>13 DEF Interrupt, Goto, lockVars
  <2>14. ASSUME NEW r \in Runs, Kill(r) PROVE TypeOK'
    BY <2>14 DEF Kill, Release, Goto, runVars
  <2>15. ASSUME NEW r \in Runs, OrphanEnds(r) PROVE TypeOK'
    BY <2>15 DEF OrphanEnds, Release, Goto, runVars
  <2>16. CASE UNCHANGED vars
    BY <2>16 DEF vars, runVars
  <2> QED
    BY <2>1, <2>2, <2>3, <2>4, <2>5, <2>6, <2>7, <2>8, <2>9, <2>10, <2>11,
       <2>12, <2>13, <2>14, <2>15, <2>16 DEF Next, Step
<1> QED
  BY <1>1, <1>2, PTL DEF Spec

-----------------------------------------------------------------------------
(***************************************************************************)
(* The lock of a single run, under every signal.                           *)
(***************************************************************************)

Opened  == {"wait"} \cup Working \cup Cleaning
Holding == Critical \cup {"rmlist", "unlock"}

\* A working run has the lock file open and holds the lock of its inode, and
\* only a run that has not passed `flock -u' holds any.
LockInv ==
    /\ \A r \in Runs : pc[r] \in Critical => fd[r] \in Runs /\ holder[fd[r]] = r
    /\ \A i, r \in Runs : holder[i] = r => pc[r] \in Holding

LEMMA LockInvInit == Init => LockInv
  BY NoneAssumption
     DEF Init, LockInv, Opened, Holding, Critical, Working, Cleaning

\* The steps that change nothing but labels inside the critical section, the
\* list and the run's notes.
LEMMA LabelStep ==
  ASSUME TypeOK, LockInv, UNCHANGED lockVars,
         NEW r \in Runs, pc[r] \in Working \cup {"rmlist"},
         NEW l \in Working \cup {"rmlist", "unlock"}, Goto(r, l),
         pc[r] \in Working \/ l = "unlock"
  PROVE  LockInv'
  BY DEF TypeOK, LockInv, lockVars, Goto, Opened, Holding, Critical, Working,
         Cleaning

LEMMA LockInvStep == TypeOK /\ LockInv /\ [Next]_vars => LockInv'
<1> SUFFICES ASSUME TypeOK, LockInv, [Next]_vars PROVE LockInv'
  OBVIOUS
<1> USE NoneAssumption
<1>1. ASSUME NEW r \in Runs, OpenLock(r) PROVE LockInv'
  BY <1>1 DEF OpenLock, Exec, Goto, TypeOK, LockInv, Opened, Holding, Critical,
              Working, Cleaning
<1>2. ASSUME NEW r \in Runs, TakeLock(r) PROVE LockInv'
  BY <1>2 DEF TakeLock, Goto, TypeOK, LockInv, Opened, Holding, Critical,
              Working, Cleaning
<1>3. ASSUME NEW r \in Runs, Check(r) PROVE LockInv'
  BY <1>3, LabelStep DEF Check, Working
<1>4. ASSUME NEW r \in Runs, StartList(r) PROVE LockInv'
  BY <1>4, LabelStep DEF StartList, Working
<1>5. ASSUME NEW r \in Runs, FillList(r) PROVE LockInv'
  BY <1>5, LabelStep DEF FillList, Working
<1>6. ASSUME NEW r \in Runs, Ask(r) PROVE LockInv'
  BY <1>6, LabelStep DEF Ask, Working
<1>7. ASSUME NEW r \in Runs, Fetch(r) PROVE LockInv'
  BY <1>7, LabelStep DEF Fetch, Working
<1>8. ASSUME NEW r \in Runs, Manager(r) PROVE LockInv'
  BY <1>8, LabelStep DEF Manager, Working
<1>9. ASSUME NEW r \in Runs, Clean(r) PROVE LockInv'
  BY <1>9, LabelStep DEF Clean, Working
<1>10. ASSUME NEW r \in Runs, RemoveList(r) PROVE LockInv'
  BY <1>10, LabelStep DEF RemoveList, Working
<1>11. ASSUME NEW r \in Runs, Unlock(r) PROVE LockInv'
  BY <1>11 DEF Unlock, Release, Goto, TypeOK, LockInv, Opened, Holding,
               Critical, Working, Cleaning
<1>12. ASSUME NEW r \in Runs, RemoveLock(r) PROVE LockInv'
  BY <1>12 DEF RemoveLock, Goto, TypeOK, LockInv, Opened, Holding, Critical,
               Working, Cleaning
<1>13. ASSUME NEW r \in Runs, Interrupt(r) PROVE LockInv'
  BY <1>13 DEF Interrupt, lockVars, Goto, TypeOK, LockInv, Opened, Holding,
               Critical, Working, Cleaning
<1>14. ASSUME NEW r \in Runs, Kill(r) PROVE LockInv'
  BY <1>14 DEF Kill, Release, Goto, TypeOK, LockInv, Opened, Holding,
               Critical, Working, Cleaning
<1>15. ASSUME NEW r \in Runs, OrphanEnds(r) PROVE LockInv'
  BY <1>15 DEF OrphanEnds, Release, Goto, TypeOK, LockInv, Opened, Holding,
               Critical, Working, Cleaning
<1>16. CASE UNCHANGED vars
  BY <1>16 DEF vars, lockVars, LockInv
<1> QED
  BY <1>1, <1>2, <1>3, <1>4, <1>5, <1>6, <1>7, <1>8, <1>9, <1>10, <1>11,
     <1>12, <1>13, <1>14, <1>15, <1>16 DEF Next, Step

LEMMA LockInvAlways == Spec => []LockInv
  BY LockInvInit, LockInvStep, TypeCorrect, PTL DEF Spec

\* Whatever signals arrive and however many runs there are, a run that is at
\* work holds the lock it opened, and one that is not holds none.
THEOREM LockIsAccounted == Spec => []LockAccounted
<1>1. TypeOK /\ LockInv => LockAccounted
  BY NoneAssumption
     DEF TypeOK, LockInv, LockAccounted, Opened, Holding, Critical, Working,
         Cleaning, Ended, Labels
<1> QED
  BY <1>1, LockInvAlways, TypeCorrect, PTL

-----------------------------------------------------------------------------
(***************************************************************************)
(* Under every signal: the answer and /tmp.                                *)
(***************************************************************************)

\* A run that is not past its body has not run the package manager, and one
\* that has not been asked has no answer.
AnswerInv ==
    /\ \A r \in Runs : pc[r] \in Working \cup {"start", "wait"} =>
          ~managed[r] /\ ~(answer[r] = "no" /\ wants[r])
    /\ \A r \in Runs : pc[r] \in {"start", "wait", "check", "uris", "fill", "ask"} =>
          answer[r] = "none"
    /\ DeclineIsFinal

LEMMA AnswerStep == TypeOK /\ AnswerInv /\ [Next]_vars => AnswerInv'
<1> SUFFICES ASSUME TypeOK, AnswerInv, [Next]_vars PROVE AnswerInv'
  OBVIOUS
<1> USE DEF TypeOK, AnswerInv, DeclineIsFinal, Working, Goto
<1>1. ASSUME NEW r \in Runs,
             OpenLock(r) \/ TakeLock(r) \/ StartList(r) \/ RemoveList(r)
               \/ Unlock(r) \/ RemoveLock(r) \/ Interrupt(r) \/ Kill(r) \/ OrphanEnds(r)
      PROVE  AnswerInv'
  <2>1. UNCHANGED <<wants, answer, managed>> /\ \A q \in Runs \ {r} : pc'[q] = pc[q]
    BY <1>1 DEF OpenLock, TakeLock, StartList, RemoveList, Unlock, RemoveLock,
                Interrupt, Kill, OrphanEnds, runVars
  <2>2. /\ pc'[r] \in Working \cup {"start", "wait"} =>
              pc[r] \in Working \cup {"start", "wait"}
        /\ pc'[r] \in {"start", "wait", "check", "uris", "fill", "ask"} =>
              pc[r] \in {"start", "wait", "check", "uris", "fill", "ask"}
    BY <1>1 DEF OpenLock, TakeLock, StartList, RemoveList, Unlock, RemoveLock,
                Interrupt, Kill, OrphanEnds
  <2> QED
    BY <2>1, <2>2
<1>2. ASSUME NEW r \in Runs, Check(r) PROVE AnswerInv'
  <2>1. \A q \in Runs \ {r} : pc'[q] = pc[q] /\ managed'[q] = managed[q]
    BY <1>2 DEF Check
  <2>2. UNCHANGED <<wants, answer>> /\ answer[r] = "none"
        /\ (pc'[r] = "rmlist" \/ managed' = managed)
        /\ pc'[r] \in {"rmlist", "clean", "manager", "uris"} /\ ~managed[r]
    BY <1>2 DEF Check
  <2> QED
    BY <2>1, <2>2
<1>3. ASSUME NEW r \in Runs, FillList(r) PROVE AnswerInv'
  <2>1. \A q \in Runs \ {r} : pc'[q] = pc[q] /\ wants'[q] = wants[q]
    BY <1>3 DEF FillList
  <2>2. UNCHANGED <<managed, answer>> /\ answer[r] = "none" /\ ~managed[r]
    BY <1>3 DEF FillList
  <2>3. pc'[r] \in {"rmlist", "ask", "fetch"}
    BY <1>3 DEF FillList
  <2> QED
    BY <2>1, <2>2, <2>3
<1>4. ASSUME NEW r \in Runs, Ask(r) PROVE AnswerInv'
  BY <1>4 DEF Ask
<1>5. ASSUME NEW r \in Runs, Fetch(r) PROVE AnswerInv'
  BY <1>5 DEF Fetch
<1>6. ASSUME NEW r \in Runs, Manager(r) \/ Clean(r) PROVE AnswerInv'
  BY <1>6 DEF Manager, Clean
<1>7. CASE UNCHANGED vars
  BY <1>7 DEF vars, runVars
<1> QED
  BY <1>1, <1>2, <1>3, <1>4, <1>5, <1>6, <1>7 DEF Next, Step

\* Whatever the option, the other runs and the signals: after a "no" to a
\* download the package manager is never run.
THEOREM NoMeansNo == Spec => []DeclineIsFinal
<1>1. Init => AnswerInv
  BY DEF Init, AnswerInv, DeclineIsFinal
<1>2. AnswerInv => DeclineIsFinal
  BY DEF AnswerInv
<1> QED
  BY <1>1, <1>2, AnswerStep, TypeCorrect, PTL DEF Spec

\* A lock file in /tmp has the run that created it, and a list one of its owner,
\* still to come and remove it: nobody can refuse them.  Or they were killed.
DebrisInv ==
    /\ path # None => pc[path] \in Opened \cup {"orphan", "killed"}
    /\ list.exists => \E r \in Runs :
          /\ user[r] = list.owner
          /\ pc[r] \in Working \cup {"rmlist", "orphan", "killed"}

LEMMA DebrisStep == TypeOK /\ DebrisInv /\ [Next]_vars => DebrisInv'
<1> SUFFICES ASSUME TypeOK, DebrisInv, [Next]_vars PROVE DebrisInv'
  OBVIOUS
<1> USE NoneAssumption
    DEF TypeOK, DebrisInv, Opened, Working, Cleaning, Goto, given, runVars
<1>1. ASSUME NEW r \in Runs, OpenLock(r) PROVE DebrisInv'
  <2>1. path' \in {path, r} /\ pc' = [pc EXCEPT ![r] = "wait"] /\ pc[r] = "start"
    BY <1>1 DEF OpenLock, Exec
  <2>2. list' = list /\ user' = user
    BY <1>1 DEF OpenLock
  <2> QED
    BY <2>1, <2>2
\* The run that moves still cleans up, or is killed: it moves on to a label where
\* it is counted, and a list it writes is its own or stays whose it was.
<1>2. ASSUME NEW r \in Runs,
             TakeLock(r) \/ Check(r) \/ StartList(r) \/ FillList(r) \/ Ask(r)
               \/ Fetch(r) \/ Manager(r) \/ Clean(r) \/ Interrupt(r)
               \/ Kill(r) \/ OrphanEnds(r)
      PROVE  DebrisInv'
  <2>1. \E l \in Working \cup {"rmlist", "orphan", "killed"} : pc' = [pc EXCEPT ![r] = l]
    BY <1>2 DEF TakeLock, Check, StartList, FillList, Ask, Fetch, Manager, Clean,
                Interrupt, Kill, OrphanEnds
  <2>2. path' = path /\ user' = user
    BY <1>2 DEF TakeLock, Check, StartList, FillList, Ask, Fetch, Manager, Clean,
                Interrupt, Kill, OrphanEnds, lockVars
  <2>3. list'.exists => list'.owner = user[r] \/ (list.exists /\ list'.owner = list.owner)
    BY <1>2 DEF TakeLock, Check, StartList, FillList, ListOwner, Ask, Fetch,
                Manager, Clean, Interrupt, Kill, OrphanEnds, NoList
  <2>4. \A q \in Runs : pc'[q] = pc[q] \/ pc'[q] \in Working \cup {"rmlist", "orphan", "killed"}
    BY <2>1
  <2>5. pc'[r] \in Working \cup {"rmlist", "orphan", "killed"}
    BY <2>1
  <2>6. path' # None => pc'[path'] \in Opened \cup {"orphan", "killed"}
    BY <2>2, <2>4
  <2>7. ASSUME list'.exists
        PROVE  \E q \in Runs : /\ user'[q] = list'.owner
                               /\ pc'[q] \in Working \cup {"rmlist", "orphan", "killed"}
    BY <2>2, <2>3, <2>4, <2>5, <2>7
  <2> QED
    BY <2>6, <2>7
<1>3. ASSUME NEW r \in Runs, RemoveList(r) PROVE DebrisInv'
  <2>1. /\ UNCHANGED <<path, user>> /\ pc[r] = "rmlist"
        /\ pc' = [pc EXCEPT ![r] = "unlock"]
        /\ list' = NoList \/ (list' = list /\ user[r] # list.owner)
    BY <1>3 DEF RemoveList, lockVars, MayRemove
  <2> QED
    BY <2>1 DEF NoList
<1>4. ASSUME NEW r \in Runs, Unlock(r) PROVE DebrisInv'
  BY <1>4 DEF Unlock
<1>5. ASSUME NEW r \in Runs, RemoveLock(r) PROVE DebrisInv'
  <2>1. path' = None \/ (path' = path /\ path # r)
    BY <1>5 DEF RemoveLock, MayRemove
  <2>2. /\ UNCHANGED <<list, user>> /\ pc[r] = "rmlock"
        /\ \A q \in Runs \ {r} : pc'[q] = pc[q]
    BY <1>5 DEF RemoveLock
  <2> QED
    BY <2>1, <2>2
<1>6. CASE UNCHANGED vars
  BY <1>6 DEF vars
<1> QED
  BY <1>1, <1>2, <1>3, <1>4, <1>5, <1>6 DEF Next, Step

\* However many runs of however many users there are, and wherever INT and TERM
\* strike, when all of them have ended by themselves or by those signals /tmp is
\* clean, though many of them may not remove what others left.
THEOREM NothingIsLeft == Spec => []NoDebris
<1>1. Init => DebrisInv
  BY DEF Init, DebrisInv, NoList
<1>2. TypeOK /\ DebrisInv => NoDebris
  BY DEF TypeOK, DebrisInv, NoDebris, Opened, Working, Cleaning
<1> QED
  BY <1>1, <1>2, DebrisStep, TypeCorrect, PTL DEF Spec

-----------------------------------------------------------------------------
(***************************************************************************)
(* Without signals.                                                        *)
(***************************************************************************)

\* No run is interrupted or killed, and a run that is about to delete the list
\* or to unlock still holds its lock.
CalmInv ==
    /\ \A r \in Runs : pc[r] \notin {"orphan", "killed"} /\ ~interrupted[r]
    /\ \A r \in Runs : pc[r] \in Holding => fd[r] \in Runs /\ holder[fd[r]] = r
    /\ \A r \in Runs : pc[r] = "done" => fd[r] = None

LEMMA CalmStep ==
  Signals = {} /\ TypeOK /\ LockInv /\ CalmInv /\ [Next]_vars => CalmInv'
<1> SUFFICES ASSUME Signals = {}, TypeOK, LockInv, CalmInv, [Next]_vars
             PROVE  CalmInv'
  OBVIOUS
<1> USE NoneAssumption
    DEF TypeOK, LockInv, CalmInv, Opened, Holding, Critical, Working, Cleaning,
        Goto
<1>1. ASSUME NEW r \in Runs, OpenLock(r) PROVE CalmInv'
  BY <1>1 DEF OpenLock, Exec, runVars
<1>2. ASSUME NEW r \in Runs, TakeLock(r) PROVE CalmInv'
  BY <1>2 DEF TakeLock, runVars
<1>3. ASSUME NEW r \in Runs,
             Check(r) \/ StartList(r) \/ FillList(r) \/ Ask(r) \/ Fetch(r)
                \/ Manager(r) \/ Clean(r) \/ RemoveList(r)
      PROVE CalmInv'
  <2>1. \/ pc' = [pc EXCEPT ![r] = "clean"] \/ pc' = [pc EXCEPT ![r] = "manager"]
        \/ pc' = [pc EXCEPT ![r] = "uris"]  \/ pc' = [pc EXCEPT ![r] = "rmlist"]
        \/ pc' = [pc EXCEPT ![r] = "fill"]  \/ pc' = [pc EXCEPT ![r] = "ask"]
        \/ pc' = [pc EXCEPT ![r] = "fetch"] \/ pc' = [pc EXCEPT ![r] = "unlock"]
    BY <1>3 DEF Check, StartList, FillList, Ask, Fetch, Manager, Clean, RemoveList
  <2>2. UNCHANGED <<fd, holder, interrupted>>
    BY <1>3 DEF Check, StartList, FillList, Ask, Fetch, Manager, Clean,
                RemoveList, lockVars, runVars
  <2>3. pc[r] \in Holding
    BY <1>3 DEF Check, StartList, FillList, Ask, Fetch, Manager, Clean, RemoveList
  <2> QED
    BY <2>1, <2>2, <2>3
<1>4. ASSUME NEW r \in Runs, Unlock(r) PROVE CalmInv'
  BY <1>4 DEF Unlock, Release, runVars
<1>5. ASSUME NEW r \in Runs, RemoveLock(r) PROVE CalmInv'
  BY <1>5 DEF RemoveLock
<1>6. ASSUME NEW r \in Runs, Interrupt(r) \/ Kill(r) \/ OrphanEnds(r)
      PROVE  CalmInv'
  BY <1>6 DEF Interrupt, Kill, OrphanEnds
<1>7. CASE UNCHANGED vars
  BY <1>7 DEF vars, runVars
<1> QED
  BY <1>1, <1>2, <1>3, <1>4, <1>5, <1>6, <1>7 DEF Next, Step

LEMMA CalmAlways ==
  ASSUME Signals = {}
  PROVE  Spec => []CalmInv
<1>1. Init => CalmInv
  BY DEF Init, CalmInv, Holding, Critical, Working
<1>2. TypeOK /\ LockInv /\ CalmInv /\ [Next]_vars => CalmInv'
  BY CalmStep
<1> QED
  BY <1>1, <1>2, LockInvAlways, TypeCorrect, PTL DEF Spec

\* With no signals, however many runs there are, a run that deletes or writes
\* the list has the lock of the file it opened.
THEOREM CalmList ==
  ASSUME Signals = {}
  PROVE  Spec => OnlyHolderTouchesList
<1>1. ASSUME TypeOK, LockInv, CalmInv, [Next]_vars,
             NEW q \in Runs, list' # list, pc'[q] # pc[q]
      PROVE  fd[q] # None /\ holder[fd[q]] = q
  <2>1. PICK r \in Runs : Step(r)
    BY <1>1 DEF Next, Interrupt, Kill, vars
  <2>2. pc[r] \in Holding
    BY <1>1, <2>1 DEF Step, OpenLock, TakeLock, Check, StartList, FillList, Ask,
       Fetch, Manager, Clean, RemoveList, Unlock, RemoveLock, OrphanEnds,
       Holding, Critical, Working
  <2>3. q = r
    BY <1>1, <2>1 DEF TypeOK, Step, OpenLock, TakeLock, Check, StartList,
       FillList, Ask, Fetch, Manager, Clean, RemoveList, Unlock, RemoveLock,
       OrphanEnds, Goto
  <2> QED
    BY <1>1, <2>2, <2>3, NoneAssumption
       DEF CalmInv, LockInv, Holding, Critical, Opened, Working, Cleaning
<1>2. TypeOK /\ LockInv /\ CalmInv /\ [Next]_vars =>
        [\A r \in Runs : list' # list /\ pc'[r] # pc[r] =>
            fd[r] # None /\ holder[fd[r]] = r]_vars
  BY <1>1
<1>3. Spec => []CalmInv
  BY CalmAlways
<1> QED
  BY <1>2, <1>3, LockInvAlways, TypeCorrect, PTL DEF Spec, OnlyHolderTouchesList

(***************************************************************************)
(* Until the first run is done, whoever opens the lock file finds the one  *)
(* inode it names.  Then `rm -f' comes after `flock -u', and another run   *)
(* can have got the lock in between.                                       *)
(***************************************************************************)
HasOpen(r) == pc[r] \in Opened /\ fd[r] # None

SameInode ==
    (\A q \in Runs : pc[q] # "done") => \A p \in Runs : HasOpen(p) => fd[p] = path

LEMMA SameInodeStep ==
  ASSUME Signals = {}, TypeOK, LockInv, CalmInv, SameInode, [Next]_vars
  PROVE  SameInode'
<1> USE NoneAssumption
    DEF TypeOK, LockInv, CalmInv, SameInode, HasOpen, Opened, Working, Cleaning, Goto
<1>1. ASSUME NEW r \in Runs, OpenLock(r) PROVE SameInode'
  <2>1. CASE path = None
    BY <1>1, <2>1 DEF OpenLock, Exec
  <2>2. CASE path # None
    BY <1>1, <2>2 DEF OpenLock, Exec
  <2> QED
    BY <2>1, <2>2
<1>2. ASSUME NEW r \in Runs,
             TakeLock(r) \/ Check(r) \/ StartList(r) \/ FillList(r) \/ Ask(r)
               \/ Fetch(r) \/ Manager(r) \/ Clean(r) \/ RemoveList(r) \/ Unlock(r)
      PROVE  SameInode'
  <2>1. UNCHANGED <<path, fd>> /\ pc[r] \in Opened
    BY <1>2 DEF TakeLock, Check, StartList, FillList, Ask, Fetch, Manager,
                Clean, RemoveList, Unlock, lockVars
  <2>2. \A q \in Runs \ {r} : pc'[q] = pc[q]
    BY <1>2 DEF TakeLock, Check, StartList, FillList, Ask, Fetch, Manager,
                Clean, RemoveList, Unlock
  <2> QED
    BY <2>1, <2>2
<1>3. ASSUME NEW r \in Runs, RemoveLock(r) PROVE SameInode'
  BY <1>3 DEF RemoveLock
<1>4. ASSUME NEW r \in Runs, Interrupt(r) \/ Kill(r) \/ OrphanEnds(r)
      PROVE  SameInode'
  BY <1>4 DEF Interrupt, Kill, OrphanEnds
<1>5. CASE UNCHANGED vars
  BY <1>5 DEF vars
<1> QED
  BY <1>1, <1>2, <1>3, <1>4, <1>5 DEF Next, Step

LEMMA SameInodeAlways ==
  ASSUME Signals = {}
  PROVE  Spec => []SameInode
<1>1. Init => SameInode
  BY DEF Init, SameInode, HasOpen, Opened, Working, Cleaning
<1>2. TypeOK /\ LockInv /\ CalmInv /\ SameInode /\ [Next]_vars => SameInode'
  BY SameInodeStep
<1>3. Spec => []CalmInv
  BY CalmAlways
<1> QED
  BY <1>1, <1>2, <1>3, LockInvAlways, TypeCorrect, PTL DEF Spec

\* Two of the runs that hold their locks: if there is no third one to be done,
\* their locks are one.
AtMostTwo == \A p, q, r \in Runs : p = q \/ q = r \/ p = r

LEMMA OneHolds ==
  ASSUME AtMostTwo, TypeOK, CalmInv, SameInode,
         NEW p \in Runs, NEW q \in Runs, pc[p] \in Holding, pc[q] \in Holding
  PROVE  p = q
<1> SUFFICES ASSUME p # q PROVE FALSE
  OBVIOUS
<1>1. \A r \in Runs : pc[r] # "done"
  BY DEF AtMostTwo, Holding, Critical, Working
<1>2. fd[p] = path /\ fd[q] = path
  BY <1>1, NoneAssumption
     DEF CalmInv, SameInode, HasOpen, Holding, Critical, Opened, Working, Cleaning
<1> QED
  BY <1>2 DEF CalmInv

\* Two runs of the script, of any kind and in any interleaving, are never both
\* inside the lock as long as no signal arrives.
THEOREM TwoRunsExclude ==
  ASSUME AtMostTwo, Signals = {}
  PROVE  Spec => []MutualExclusion
<1>1. TypeOK /\ CalmInv /\ SameInode => MutualExclusion
  BY OneHolds DEF MutualExclusion, Holding
<1>2. Spec => []CalmInv
  BY CalmAlways
<1>3. Spec => []SameInode
  BY SameInodeAlways
<1> QED
  BY <1>1, <1>2, <1>3, LockInvAlways, TypeCorrect, PTL

-----------------------------------------------------------------------------
(***************************************************************************)
(* The list of two runs without signals.                                   *)
(***************************************************************************)

\* From the header line to the downloader the list is that of the one run
\* that is inside; who reaches the package manager with packages to download
\* has given them to the downloader.
ListOf(r) ==
    /\ pc[r] = "fill" => list.exists /\ list.owner = user[r] /\ list.entries = {}
    /\ pc[r] \in {"ask", "fetch"} =>
          list.exists /\ list.entries = (IF wants[r] THEN {r} ELSE {})
    /\ pc[r] \in {"start", "wait", "check", "uris", "fill", "clean"} => ~wants[r]
    /\ pc[r] \in {"start", "wait"} \cup Working => ~managed[r]
    /\ pc[r] = "manager" /\ wants[r] => fetched[r] = {r}
    /\ fetched[r] \in {{}, {r}}
    /\ managed[r] /\ wants[r] => fetched[r] = {r}

ListInv == \A r \in Runs : ListOf(r)

LEMMA ListInvStep ==
  ASSUME AtMostTwo, Signals = {}, TypeOK, CalmInv, SameInode, ListInv, [Next]_vars
  PROVE  ListInv'
<1> USE DEF TypeOK, ListInv, ListOf, Working, Goto, given
\* A step that leaves the list and the notes alone, for a label of no promise.
<1>1. ASSUME NEW r \in Runs,
             OpenLock(r) \/ TakeLock(r) \/ Unlock(r) \/ RemoveLock(r)
      PROVE  ListInv'
  <2>1. UNCHANGED <<user, list, wants, fetched, managed>>
    BY <1>1 DEF OpenLock, TakeLock, Unlock, RemoveLock, runVars
  <2>2. \A q \in Runs \ {r} : pc'[q] = pc[q]
    BY <1>1 DEF OpenLock, TakeLock, Unlock, RemoveLock
  <2>3. \/ pc[r] \in {"start", "wait"} /\ pc'[r] \in {"wait", "check"}
        \/ pc'[r] \in {"rmlock", "rmlist", "done"}
    BY <1>1 DEF OpenLock, TakeLock, Unlock, RemoveLock
  <2>4. CASE pc[r] \in {"start", "wait"} /\ pc'[r] \in {"wait", "check"}
    <3>1. ~wants[r] /\ ~managed[r]
      BY <2>4
    <3> QED
      BY <2>1, <2>2, <2>4, <3>1
  <2>5. CASE pc'[r] \in {"rmlock", "rmlist", "done"}
    BY <2>1, <2>2, <2>5
  <2> QED
    BY <2>3, <2>4, <2>5
<1>2. ASSUME NEW r \in Runs, Check(r) PROVE ListInv'
  <2>1. UNCHANGED <<user, list, wants, fetched>> /\ pc[r] = "check"
    BY <1>2 DEF Check
  <2>2. CASE pc' = [pc EXCEPT ![r] = "rmlist"] /\ managed' = [managed EXCEPT ![r] = TRUE]
    BY <2>1, <2>2
  <2>3. CASE managed' = managed /\ \E l \in {"rmlist", "clean", "manager", "uris"} :
                pc' = [pc EXCEPT ![r] = l]
    <3>1. ~wants[r] /\ ~managed[r]
      BY <2>1
    <3>2. \A q \in Runs \ {r} : pc'[q] = pc[q]
      BY <2>3
    <3>3. pc'[r] \in {"rmlist", "clean", "manager", "uris"}
      BY <2>3
    <3> QED
      BY <2>1, <2>3, <3>1, <3>2, <3>3
  <2> QED
    BY <1>2, <2>2, <2>3 DEF Check
<1>3. ASSUME NEW r \in Runs, StartList(r) \/ FillList(r) \/ Clean(r) \/ RemoveList(r),
             NEW q \in Runs, q # r
      PROVE  pc'[q] = pc[q] /\ pc[q] \notin {"fill", "ask", "fetch"}
  <2>1. pc[r] \in Holding /\ pc'[q] = pc[q]
    BY <1>3 DEF StartList, FillList, Clean, RemoveList, Holding, Critical
  <2> QED
    BY <1>3, <2>1, OneHolds DEF Holding, Critical
<1>4. ASSUME NEW r \in Runs, StartList(r) PROVE ListInv'
  <2>1. \A q \in Runs \ {r} : pc'[q] = pc[q] /\ pc[q] \notin {"fill", "ask", "fetch"}
    BY <1>3, <1>4
  <2> QED
    BY <1>4, <2>1 DEF StartList, runVars
<1>5. ASSUME NEW r \in Runs, FillList(r) PROVE ListInv'
  <2>1. \A q \in Runs \ {r} : pc'[q] = pc[q] /\ pc[q] \notin {"fill", "ask", "fetch"}
    BY <1>3, <1>5
  <2>2. UNCHANGED <<fetched, managed>> /\ \A q \in Runs \ {r} : wants'[q] = wants[q]
    BY <1>5 DEF FillList
  <2>3. ~managed[r] /\ ~wants[r] /\ list.exists /\ list.entries = {}
        /\ fetched[r] \in {{}, {r}} /\ ListOwner(r) = user[r]
    BY <1>5 DEF FillList, ListOwner
  <2>4. CASE pc'[r] = "rmlist"
    BY <2>1, <2>2, <2>3, <2>4
  <2>5. CASE pc'[r] \in {"ask", "fetch"}
    <3>1. list'.exists /\ list'.entries = (IF wants'[r] THEN {r} ELSE {})
      <4>1. PICK some \in BOOLEAN, ok \in Opens(r, ListOwner(r)) :
              /\ wants' = [wants EXCEPT ![r] = some]
              /\ list' = IF some /\ ok
                         THEN [exists |-> TRUE, owner |-> ListOwner(r),
                               entries |-> list.entries \cup {r}]
                         ELSE list
        BY <1>5, <2>5 DEF FillList
      <4>2. CASE some = TRUE
        <5>1. ok = TRUE
          BY <2>3, <4>1 DEF Opens
        <5> QED
          BY <2>3, <4>1, <4>2, <5>1
      <4>3. CASE some = FALSE
        BY <2>3, <4>1, <4>3
      <4> QED
        BY <4>2, <4>3
    <3>2. \A q \in Runs \ {r} :
             /\ pc'[q] \notin {"fill", "ask", "fetch"} /\ pc'[q] = pc[q]
             /\ UNCHANGED <<fetched[q], managed[q], wants[q]>>
      BY <2>1, <2>2
    <3>3. UNCHANGED <<fetched[r], managed[r]>>
      BY <2>2
    <3>4. ASSUME NEW q \in Runs, q # r PROVE ListOf(q)'
      BY <3>2, <3>4
    <3>5. ListOf(r)'
      BY <2>3, <2>5, <3>1, <3>3
    <3> HIDE DEF ListOf
    <3> QED
      BY <3>4, <3>5, Zenon
  <2>6. pc'[r] \in {"rmlist", "ask", "fetch"}
    BY <1>5 DEF FillList
  <2> QED
    BY <2>4, <2>5, <2>6
<1>6. ASSUME NEW r \in Runs, Ask(r) PROVE ListInv'
  <2>1. UNCHANGED <<user, list, wants, fetched, managed>> /\ pc[r] = "ask"
    BY <1>6 DEF Ask
  <2>2. \/ pc' = [pc EXCEPT ![r] = "fetch"]
        \/ pc' = [pc EXCEPT ![r] = "rmlist"]
        \/ pc' = [pc EXCEPT ![r] = "manager"] /\ ~wants[r]
    BY <1>6 DEF Ask
  <2>3. CASE pc' = [pc EXCEPT ![r] = "fetch"]
    BY <2>1, <2>3
  <2>4. CASE pc' = [pc EXCEPT ![r] = "rmlist"]
    BY <2>1, <2>4
  <2>5. CASE pc' = [pc EXCEPT ![r] = "manager"] /\ ~wants[r]
    BY <2>1, <2>5
  <2> QED
    BY <2>2, <2>3, <2>4, <2>5
<1>7. ASSUME NEW r \in Runs, Fetch(r) PROVE ListInv'
  <2>1. UNCHANGED <<user, list, wants, managed>> /\ pc[r] = "fetch"
    BY <1>7 DEF Fetch
  <2>2. list.exists /\ list.entries = (IF wants[r] THEN {r} ELSE {})
    BY <2>1
  <2>3. \A q \in Runs \ {r} : pc'[q] = pc[q] /\ fetched'[q] = fetched[q]
    BY <1>7 DEF Fetch
  <2>4. \/ pc'[r] = "rmlist" /\ fetched' = fetched
        \/ /\ pc'[r] \in {"rmlist", "manager"}
           /\ fetched'[r] = IF wants[r] THEN {r} ELSE fetched[r]
    <3>1. pc'[r] \in {"rmlist", "manager"}
      BY <1>7 DEF Fetch
    <3>2. HasLines = wants[r]
      BY <2>2 DEF HasLines
    <3>3. \/ pc'[r] = "rmlist" /\ fetched' = fetched
          \/ fetched' = IF wants[r] THEN [fetched EXCEPT ![r] = list.entries] ELSE fetched
      BY <1>7, <2>2, <3>2 DEF Fetch
    <3> QED
      BY <2>2, <3>1, <3>3
  <2>5. CASE pc'[r] = "rmlist" /\ fetched' = fetched
    BY <2>1, <2>3, <2>5
  <2>6. CASE /\ pc'[r] \in {"rmlist", "manager"}
             /\ fetched'[r] = IF wants[r] THEN {r} ELSE fetched[r]
    BY <2>1, <2>3, <2>6
  <2> QED
    BY <2>4, <2>5, <2>6
<1>8. ASSUME NEW r \in Runs, Manager(r) PROVE ListInv'
  BY <1>8 DEF Manager
<1>9. ASSUME NEW r \in Runs, Clean(r) PROVE ListInv'
  <2>1. \A q \in Runs \ {r} : pc'[q] = pc[q] /\ pc[q] \notin {"fill", "ask", "fetch"}
    BY <1>3, <1>9
  <2> QED
    BY <1>9, <2>1 DEF Clean
<1>10. ASSUME NEW r \in Runs, RemoveList(r) PROVE ListInv'
  <2>1. \A q \in Runs \ {r} : pc'[q] = pc[q] /\ pc[q] \notin {"fill", "ask", "fetch"}
    BY <1>3, <1>10
  <2> QED
    BY <1>10, <2>1 DEF RemoveList, runVars
<1>11. ASSUME NEW r \in Runs, Interrupt(r) \/ Kill(r) \/ OrphanEnds(r)
       PROVE  ListInv'
  BY <1>11 DEF Interrupt, Kill, OrphanEnds, CalmInv
<1>12. CASE UNCHANGED vars
  BY <1>12 DEF vars, runVars
<1> QED
  BY <1>1, <1>2, <1>4, <1>5, <1>6, <1>7, <1>8, <1>9, <1>10, <1>11, <1>12
     DEF Next, Step

\* Two runs of any kind share the list and still download what each of them
\* asked for, and all of it, as long as no signal arrives.
THEOREM EachDownloadsItsOwn ==
  ASSUME AtMostTwo, Signals = {}
  PROVE  Spec => []DownloadsOwnList
<1>1. Init => ListInv
  BY DEF Init, ListInv, ListOf
<1>2. TypeOK /\ LockInv /\ CalmInv /\ SameInode /\ ListInv /\ [Next]_vars => ListInv'
  BY ListInvStep
<1>3. ListInv => DownloadsOwnList
  BY DEF ListInv, ListOf, DownloadsOwnList
<1>4. Spec => []CalmInv
  BY CalmAlways
<1>5. Spec => []SameInode
  BY SameInodeAlways
<1> QED
  BY <1>1, <1>2, <1>3, <1>4, <1>5, LockInvAlways, TypeCorrect, PTL DEF Spec

-----------------------------------------------------------------------------
(***************************************************************************)
(* The script implements AptSession.                                       *)
(***************************************************************************)

LEMMA SessionStep ==
  ASSUME Signals = {}, TypeOK, LockInv, CalmInv, SameInode, [Next]_vars
  PROVE  [Session!Next]_Phase
<1> USE DEF Critical, Working
<1>1. ASSUME NEW r \in Runs, OpenLock(r) PROVE Phase' = Phase
  BY <1>1 DEF OpenLock, Goto, TypeOK, Phase
<1>2. ASSUME NEW r \in Runs, TakeLock(r)
      PROVE  Session!Enter(r) \/ Session!EnterBeside(r)
  <2>1. Phase[r] = "out" /\ Phase' = [Phase EXCEPT ![r] = "in"]
    BY <1>2 DEF TakeLock, Goto, TypeOK, Phase
  <2>2. ASSUME NEW q \in Runs, Phase[q] = "in" PROVE \E p \in Runs : Phase[p] = "over"
    <3>1. SUFFICES ASSUME \A p \in Runs : pc[p] # "done" PROVE FALSE
      BY DEF Phase
    <3>2. pc[q] \in Working
      BY <2>2 DEF Phase, CalmInv
    <3>3. holder[fd[q]] = q /\ fd[q] \in Runs
      BY <3>2 DEF LockInv
    <3>4. HasOpen(q) /\ HasOpen(r)
      BY <1>2, <3>2, <3>3, NoneAssumption DEF TakeLock, HasOpen, Opened
    <3>5. fd[q] = fd[r]
      BY <3>1, <3>4 DEF SameInode
    <3> QED
      BY <1>2, <3>3, <3>5, NoneAssumption DEF TakeLock
  <2> QED
    BY <2>1, <2>2 DEF Session!Enter, Session!EnterBeside
<1>3. ASSUME NEW r \in Runs,
             Check(r) \/ StartList(r) \/ FillList(r) \/ Ask(r) \/ Fetch(r)
                \/ Manager(r) \/ Clean(r)
      PROVE  Session!Leave(r) \/ Phase' = Phase
  <2>1. \/ pc' = [pc EXCEPT ![r] = "clean"] \/ pc' = [pc EXCEPT ![r] = "manager"]
        \/ pc' = [pc EXCEPT ![r] = "uris"]  \/ pc' = [pc EXCEPT ![r] = "rmlist"]
        \/ pc' = [pc EXCEPT ![r] = "fill"]  \/ pc' = [pc EXCEPT ![r] = "ask"]
        \/ pc' = [pc EXCEPT ![r] = "fetch"]
    BY <1>3 DEF Check, StartList, FillList, Ask, Fetch, Manager, Clean, Goto
  <2>2. pc[r] \in Critical
    BY <1>3 DEF Check, StartList, FillList, Ask, Fetch, Manager, Clean
  <2>3. CASE pc' = [pc EXCEPT ![r] = "rmlist"]
    BY <2>2, <2>3 DEF TypeOK, Phase, Session!Leave
  <2>4. CASE pc' # [pc EXCEPT ![r] = "rmlist"]
    BY <2>1, <2>2, <2>4 DEF TypeOK, Phase
  <2> QED
    BY <2>3, <2>4
<1>4. ASSUME NEW r \in Runs, RemoveList(r) \/ Unlock(r) \/ RemoveLock(r)
      PROVE  Phase' = Phase
  BY <1>4 DEF RemoveList, Unlock, RemoveLock, Goto, TypeOK, Phase, CalmInv
<1>5. ASSUME NEW r \in Runs, Interrupt(r) \/ Kill(r) \/ OrphanEnds(r)
      PROVE  FALSE
  BY <1>5 DEF Interrupt, Kill, OrphanEnds, CalmInv
<1>6. CASE UNCHANGED vars
  BY <1>6 DEF vars, Phase
<1> QED
  BY <1>1, <1>2, <1>3, <1>4, <1>5, <1>6 DEF Next, Step, Session!Next

\* Without signals the runs, however many, are sessions: what AptSession promises
\* to the scripts above is what lm-apt-fast does.
THEOREM RunsAreSessions ==
  ASSUME Signals = {}
  PROVE  Spec => IsSession
<1>1. Init => Session!Init
  BY DEF Init, Session!Init, Phase
<1>2. TypeOK /\ LockInv /\ CalmInv /\ SameInode /\ [Next]_vars => [Session!Next]_Phase
  BY SessionStep
<1>3. Spec => []CalmInv
  BY CalmAlways
<1>4. Spec => []SameInode
  BY SameInodeAlways
<1> QED
  BY <1>1, <1>2, <1>3, <1>4, LockInvAlways, TypeCorrect, PTL
     DEF Spec, IsSession, Session!Spec

-----------------------------------------------------------------------------
(***************************************************************************)
(* Every run ends: what EveryRunEnds rests on besides fairness.            *)
(***************************************************************************)

\* How many steps a run can have before it at most.  The body is left for the
\* traps from anywhere, and an interrupted run cleans up twice.
Before(label) ==
    CASE label = "start"   -> 15
      [] label = "wait"    -> 14
      [] label = "check"   -> 13
      [] label = "uris"    -> 12
      [] label = "fill"    -> 11
      [] label = "ask"     -> 10
      [] label = "fetch"   -> 9
      [] label = "clean"   -> 8
      [] label = "manager" -> 8
      [] label = "rmlist"  -> 3
      [] label = "unlock"  -> 2
      [] label = "rmlock"  -> 1
      [] label = "orphan"  -> 1
      [] OTHER             -> 0

StepsLeft ==
    [r \in Runs |-> Before(pc[r])
                    + (IF interrupted[r] /\ pc[r] \in Cleaning THEN 3 ELSE 0)]

\* Every step of the machine, signals included, is a step towards the end of
\* one run and leaves the others where they are.
OneGoesOn ==
    [][\E r \in Runs :
          /\ StepsLeft'[r] < StepsLeft[r]
          /\ \A q \in Runs \ {r} : StepsLeft'[q] = StepsLeft[q]]_vars

\* A run that could open the lock file waits only for a lock that is free or
\* that another run has, and that one is past its own wait: at work, an orphan,
\* or cleaning up.
NobodyStuck ==
    \A r \in Runs : pc[r] = "wait" /\ fd[r] # None =>
        \/ holder[fd[r]] = None
        \/ \E q \in Runs \ {r} : holder[fd[r]] = q /\ pc[q] \in Holding

LEMMA StepsLeftTypes == TypeOK => StepsLeft \in [Runs -> Nat]
<1>1. \A l \in Labels : Before(l) \in Nat
  BY DEF Before
<1> QED
  BY <1>1 DEF TypeOK, StepsLeft

\* A step of one run that gets it further on.
LEMMA OneStep ==
  ASSUME TypeOK, NEW r \in Runs, NEW l \in Labels, Goto(r, l),
         \A q \in Runs \ {r} : interrupted'[q] = interrupted[q],
         Before(l) + (IF interrupted'[r] /\ l \in Cleaning THEN 3 ELSE 0)
           < Before(pc[r]) + (IF interrupted[r] /\ pc[r] \in Cleaning THEN 3 ELSE 0)
  PROVE  \E p \in Runs :
            /\ StepsLeft'[p] < StepsLeft[p]
            /\ \A q \in Runs \ {p} : StepsLeft'[q] = StepsLeft[q]
<1>1. \A q \in Runs \ {r} : pc'[q] = pc[q]
  BY DEF TypeOK, Goto
<1>2. \A q \in Runs \ {r} : StepsLeft'[q] = StepsLeft[q]
  BY <1>1, Zenon DEF StepsLeft
<1>3. pc'[r] = l
  BY DEF TypeOK, Goto
<1>4. StepsLeft'[r] < StepsLeft[r]
  BY <1>3 DEF StepsLeft
<1> QED
  BY <1>2, <1>4

LEMMA GoesOn ==
  TypeOK /\ [Next]_vars =>
    [\E r \in Runs : /\ StepsLeft'[r] < StepsLeft[r]
                     /\ \A q \in Runs \ {r} : StepsLeft'[q] = StepsLeft[q]]_vars
<1> SUFFICES ASSUME TypeOK, NEW r \in Runs, Step(r) \/ Interrupt(r) \/ Kill(r)
             PROVE  \E p \in Runs :
                       /\ StepsLeft'[p] < StepsLeft[p]
                       /\ \A q \in Runs \ {p} : StepsLeft'[q] = StepsLeft[q]
  BY DEF Next
<1> USE DEF Before, Labels, Working, Cleaning, Ended
\* From the body of the script the traps are at most six steps from the end.
<1>1. ASSUME NEW l \in Labels, Goto(r, l), Before(l) < Before(pc[r]),
             UNCHANGED interrupted, pc[r] \notin Cleaning,
             l \in Cleaning => Before(pc[r]) >= 7
      PROVE  \E p \in Runs :
                /\ StepsLeft'[p] < StepsLeft[p]
                /\ \A q \in Runs \ {p} : StepsLeft'[q] = StepsLeft[q]
  <2>1. Before(l) + (IF interrupted'[r] /\ l \in Cleaning THEN 3 ELSE 0)
          < Before(pc[r]) + (IF interrupted[r] /\ pc[r] \in Cleaning THEN 3 ELSE 0)
    BY <1>1
  <2> QED
    BY <1>1, <2>1, OneStep
<1>2. CASE OpenLock(r)
  BY <1>1, <1>2 DEF OpenLock, runVars
<1>3. CASE TakeLock(r)
  BY <1>1, <1>3 DEF TakeLock, runVars
<1>4. CASE Check(r)
  BY <1>1, <1>4 DEF Check
<1>5. CASE StartList(r)
  BY <1>1, <1>5 DEF StartList, runVars
<1>6. CASE FillList(r)
  BY <1>1, <1>6 DEF FillList
<1>7. CASE Ask(r)
  BY <1>1, <1>7 DEF Ask
<1>8. CASE Fetch(r)
  BY <1>1, <1>8 DEF Fetch
<1>9. CASE Manager(r)
  BY <1>1, <1>9 DEF Manager
<1>10. CASE Clean(r)
  BY <1>1, <1>10 DEF Clean
<1>11. CASE RemoveList(r)
  BY <1>11, OneStep DEF RemoveList, runVars
<1>12. CASE Unlock(r)
  BY <1>12, OneStep DEF Unlock, runVars
<1>13. CASE RemoveLock(r)
  <2>1. pc[r] = "rmlock" /\ interrupted' = [interrupted EXCEPT ![r] = FALSE]
        /\ ~interrupted'[r]
        /\ \A q \in Runs \ {r} : interrupted'[q] = interrupted[q]
    BY <1>13 DEF RemoveLock, TypeOK
  <2>2. CASE interrupted[r]
    <3>1. Goto(r, "rmlist") /\ "rmlist" \in Labels
      BY <1>13, <2>2 DEF RemoveLock
    <3>2. Before("rmlist") + (IF interrupted'[r] /\ "rmlist" \in Cleaning THEN 3 ELSE 0)
            < Before(pc[r]) + (IF interrupted[r] /\ pc[r] \in Cleaning THEN 3 ELSE 0)
      BY <2>1, <2>2
    <3> HIDE DEF Before, Labels, Cleaning
    <3> QED
      BY <2>1, <3>1, <3>2, OneStep
  <2>3. CASE ~interrupted[r]
    <3>1. Goto(r, "done") /\ "done" \in Labels
      BY <1>13, <2>3 DEF RemoveLock
    <3>2. Before("done") + (IF interrupted'[r] /\ "done" \in Cleaning THEN 3 ELSE 0)
            < Before(pc[r]) + (IF interrupted[r] /\ pc[r] \in Cleaning THEN 3 ELSE 0)
      BY <2>1, <2>3
    <3> HIDE DEF Before, Labels, Cleaning
    <3> QED
      BY <2>1, <3>1, <3>2, OneStep
  <2> QED
    BY <2>2, <2>3
<1>14. CASE Interrupt(r)
  <2>1. /\ pc[r] \in Working \cup {"wait"} /\ Goto(r, "rmlist")
        /\ \A q \in Runs \ {r} : interrupted'[q] = interrupted[q]
    BY <1>14 DEF Interrupt, TypeOK
  <2>2. Before(pc[r]) >= 8
    BY <2>1
  <2> QED
    BY <2>1, <2>2, OneStep
<1>15. CASE Kill(r)
  BY <1>15, OneStep DEF Kill, runVars
<1>16. CASE OrphanEnds(r)
  BY <1>1, <1>16 DEF OrphanEnds, runVars
<1> QED
  BY <1>2, <1>3, <1>4, <1>5, <1>6, <1>7, <1>8, <1>9, <1>10, <1>11, <1>12,
     <1>13, <1>14, <1>15, <1>16 DEF Step

\* For any number of runs, any options and wherever INT, TERM and SIGKILL
\* strike: every step is one of at most fifteen of some run, and a run that waits
\* with the lock file open is never stuck behind one that waits too or has gone.
\* (One that could not open it waits for nobody: DiesOnFailure.)
THEOREM RunsGoOn == Spec => [](StepsLeft \in [Runs -> Nat] /\ NobodyStuck) /\ OneGoesOn
<1>1. TypeOK /\ LockInv => NobodyStuck
  <2> SUFFICES ASSUME TypeOK, LockInv, NEW r \in Runs, pc[r] = "wait",
                      fd[r] # None, holder[fd[r]] # None
               PROVE  \E q \in Runs \ {r} : holder[fd[r]] = q /\ pc[q] \in Holding
    BY DEF NobodyStuck
  <2>1. fd[r] \in Runs
    BY DEF TypeOK
  <2>2. PICK q \in Runs : holder[fd[r]] = q
    BY <2>1 DEF TypeOK
  <2>3. pc[q] \in Holding
    BY <2>1, <2>2 DEF LockInv
  <2>4. q # r
    BY <2>3 DEF Holding, Critical, Working
  <2> QED
    BY <2>2, <2>3, <2>4
<1> QED
  BY <1>1, StepsLeftTypes, GoesOn, LockInvAlways, TypeCorrect, PTL DEF Spec, OneGoesOn
=============================================================================
