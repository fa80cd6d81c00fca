------------------------- MODULE PackageToolsProofs -------------------------
(***************************************************************************)
(* PackageTools for any number of lminstalls and upgrades: the two locks   *)
(* are held exactly where they are needed, --delete-after-install spares   *)
(* the .deb of a package that is left unconfigured, and an upgrade nobody  *)
(* disturbed leaves an honest verdict.                                     *)
(***************************************************************************)
EXTENDS PackageTools, Naturals, TLAPS

(***************************************************************************)
(* The locks                                                               *)
(***************************************************************************)

LockInv ==
    /\ pc \in [Runs -> Labels]
    /\ session \in [Runs -> Session!Phases]
    /\ \A i \in Installs : pc[i] \notin {"grep", "write"}
    /\ LocksAccounted

\* A step of one run that moves neither lock and stays on the same side of both.
LEMMA PlainStep ==
  ASSUME LockInv, NEW r \in Runs, NEW l \in Labels, Goto(r, l),
         UNCHANGED lockVars,
         pc[r] \in {"unpack", "apt"} <=> l \in {"unpack", "apt"},
         pc[r] \in Inside <=> l \in Inside,
         r \in Installs => l \notin {"grep", "write"}
  PROVE  LockInv'
  BY DEF LockInv, LocksAccounted, Goto, lockVars, Runs

\* A step that ends a session.
LEMMA LeaveStep ==
  ASSUME LockInv, NEW r \in Runs, NEW ok, Session!Leave(r), Return(r, ok),
         pc[r] \in Inside,
         dpkg' = IF pc[r] = "apt" THEN Nobody ELSE dpkg
  PROVE  LockInv'
<1>1. \A q \in Runs : q # r => pc'[q] = pc[q] /\ session'[q] = session[q]
  BY DEF LockInv, Return, Goto, Session!Leave
<1>2. pc'[r] \in {"check", "grep"} /\ session'[r] = "over"
  BY DEF LockInv, Return, Goto, Session!Leave
<1>3. pc' \in [Runs -> Labels] /\ session' \in [Runs -> Session!Phases]
  BY DEF LockInv, Return, Goto, Session!Leave, Session!Phases, Labels
<1>4. \A i \in Installs : pc'[i] \notin {"grep", "write"}
  BY DEF LockInv, Return, Goto, Runs
<1>5. LocksAccounted'
  BY <1>1, <1>2, NobodyAssumption DEF LockInv, LocksAccounted, Inside, Runs
<1> QED
  BY <1>3, <1>4, <1>5 DEF LockInv

LEMMA LockStep == LockInv /\ [Next]_vars => LockInv'
<1> SUFFICES ASSUME LockInv, [Next]_vars PROVE LockInv'
  OBVIOUS
<1> USE NobodyAssumption, KindsAssumption DEF Runs
<1>1. ASSUME NEW i \in Installs,
             Refuse(i) \/ TestInstall(i) \/ DpkgBusy(i) \/ Check(i)
      PROVE  LockInv'
  BY <1>1, PlainStep DEF Refuse, TestInstall, DpkgBusy, Check, Labels, Inside, lockVars
<1>2. ASSUME NEW u \in Upgrades, OpenLog(u) \/ Grep(u) \/ WriteStatus(u)
      PROVE  LockInv'
  BY <1>2, PlainStep DEF OpenLog, Grep, WriteStatus, Labels, Inside, lockVars
<1>3. ASSUME NEW r \in Runs, Fetched(r) PROVE LockInv'
  BY <1>3, PlainStep DEF Fetched, Labels, Inside
<1>4. ASSUME NEW i \in Installs, DpkgBegin(i) PROVE LockInv'
  BY <1>4 DEF DpkgBegin, Goto, LockInv, LocksAccounted, Labels, Inside
<1>5. ASSUME NEW i \in Installs, DpkgEnd(i) PROVE LockInv'
  <2>1. \/ pc' = [pc EXCEPT ![i] = "check"]
        \/ pc' = [pc EXCEPT ![i] = "wait"]
    BY <1>5 DEF DpkgEnd, Goto
  <2>2. pc[i] = "unpack" /\ dpkg' = Nobody /\ UNCHANGED session
    BY <1>5 DEF DpkgEnd
  <2> QED
    BY <2>1, <2>2 DEF LockInv, LocksAccounted, Labels, Inside
<1>6. ASSUME NEW r \in Runs, Enter(r) \/ EnterBeside(r) PROVE LockInv'
  BY <1>6 DEF Enter, EnterBeside, Session!Enter, Session!EnterBeside, Session!Phases, Goto, LockInv,
              LocksAccounted, Labels, Inside
<1>7. ASSUME NEW r \in Runs, AptBegin(r) PROVE LockInv'
  BY <1>7 DEF AptBegin, Goto, LockInv, LocksAccounted, Labels, Inside
<1>8. ASSUME NEW r \in Runs, UrisFail(r) PROVE LockInv'
  BY <1>8, LeaveStep DEF UrisFail, Inside
<1>9. ASSUME NEW u \in Upgrades, Decline(u) PROVE LockInv'
  BY <1>9, LeaveStep DEF Decline, Inside
<1>10. ASSUME NEW r \in Runs, AptBusy(r) PROVE LockInv'
  BY <1>10, LeaveStep DEF AptBusy, Inside
<1>11. ASSUME NEW r \in Runs, AptEnd(r) PROVE LockInv'
  <2>1. PICK ok : Return(r, ok)
    BY <1>11 DEF AptEnd
  <2>2. Session!Leave(r) /\ pc[r] = "apt" /\ dpkg' = Nobody
    BY <1>11 DEF AptEnd
  <2> QED
    BY <2>1, <2>2, LeaveStep DEF Inside
<1>12. CASE CleanLog
  BY <1>12 DEF CleanLog, lockVars, LockInv, LocksAccounted
<1>13. CASE UNCHANGED vars
  BY <1>13 DEF vars, lockVars, LockInv, LocksAccounted
<1> QED
  BY <1>1, <1>2, <1>3, <1>4, <1>5, <1>6, <1>7, <1>8, <1>9, <1>10, <1>11,
     <1>12, <1>13 DEF Next, Install, Upgrade, Aptlm

LEMMA LockAlways == Spec => []LockInv
<1>1. Init => LockInv
  BY NobodyAssumption
     DEF Init, LockInv, LocksAccounted, Session!Init, Session!Phases, Labels,
         Inside, Runs
<1> QED
  BY <1>1, LockStep, PTL DEF Spec

\* However many runs there are and however they fail, dpkg's lock and the
\* session are held by exactly the runs that are at the steps in between.
THEOREM LocksAreAccounted == Spec => []LocksAccounted
<1>1. LockInv => LocksAccounted
  BY DEF LockInv
<1> QED
  BY <1>1, LockAlways, PTL

(***************************************************************************)
(* The packages                                                            *)
(***************************************************************************)

\* What $? = 0 tells an lminstall that is about to look at --delete-after-install.
WholeInv ==
    /\ db \in [Installs -> Packages]
    /\ good \in [Installs -> BOOLEAN]
    /\ deb \in [Installs -> BOOLEAN]
    /\ socks \in BOOLEAN
    /\ \A i \in Installs : pc[i] = "check" /\ good[i] /\ ~socks => db[i] # "broken"

LEMMA WholeStep == LockInv /\ WholeInv /\ [Next]_vars => WholeInv'
<1> SUFFICES ASSUME LockInv, WholeInv, [Next]_vars PROVE WholeInv'
  OBVIOUS
<1> USE DEF LockInv, WholeInv, Goto, Runs
<1>1. ASSUME NEW i \in Installs,
             Refuse(i) \/ TestInstall(i) \/ DpkgBusy(i) \/ DpkgBegin(i) \/ Check(i)
      PROVE  WholeInv'
  BY <1>1 DEF Refuse, TestInstall, DpkgBusy, DpkgBegin, Check, installVars, options
<1>2. ASSUME NEW i \in Installs, DpkgEnd(i) PROVE WholeInv'
  <2>1. CASE db' = [db EXCEPT ![i] = "new"] /\ good' = [good EXCEPT ![i] = TRUE]
    BY <1>2, <2>1 DEF DpkgEnd, options, Packages
  <2>2. CASE /\ db' \in {db, [db EXCEPT ![i] = "broken"]}
             /\ Goto(i, "wait") /\ UNCHANGED good
    BY <1>2, <2>2 DEF DpkgEnd, options, Packages
  <2> QED
    BY <1>2, <2>1, <2>2 DEF DpkgEnd
<1>3. ASSUME NEW u \in Upgrades, OpenLog(u) \/ Grep(u) \/ WriteStatus(u)
      PROVE  WholeInv'
  BY <1>3, KindsAssumption DEF OpenLog, Grep, WriteStatus, installVars, options
<1>4. ASSUME NEW r \in Runs, Enter(r) \/ EnterBeside(r) \/ Fetched(r) \/ AptBegin(r)
      PROVE  WholeInv'
  BY <1>4 DEF Enter, EnterBeside, Fetched, AptBegin, installVars, options
<1>5. ASSUME NEW r \in Runs, Return(r, FALSE), UNCHANGED <<db, deb, socks>>
      PROVE  WholeInv'
  BY <1>5 DEF Return
<1>6. ASSUME NEW r \in Runs, UrisFail(r) PROVE WholeInv'
  BY <1>5, <1>6 DEF UrisFail, options
<1>7. ASSUME NEW u \in Upgrades, Decline(u) PROVE WholeInv'
  BY <1>5, <1>7 DEF Decline, options
<1>8. ASSUME NEW r \in Runs, AptBusy(r) PROVE WholeInv'
  <2>1. UNCHANGED <<db, deb, socks>> /\ Return(r, socks)
    BY <1>8 DEF AptBusy, options
  <2>2. CASE socks = FALSE
    BY <1>5, <2>1, <2>2
  <2>3. CASE socks = TRUE
    BY <2>1, <2>3 DEF Return
  <2> QED
    BY <2>2, <2>3
<1>9. ASSUME NEW r \in Runs, AptEnd(r) PROVE WholeInv'
  <2>1. PICK ok \in BOOLEAN, repair \in Repaired :
          /\ ok => \A i \in Installs : Fixed(db[i], repair[i]) # "broken"
          /\ db' = [i \in Installs |-> Fixed(db[i], repair[i])]
          /\ Return(r, ok \/ socks)
    BY <1>9 DEF AptEnd
  <2>2. UNCHANGED <<deb, socks>>
    BY <1>9 DEF AptEnd, options
  <2>3. db' \in [Installs -> Packages]
    BY <2>1 DEF Fixed, Repaired
  <2>4. \A i \in Installs : db[i] # "broken" => db'[i] # "broken"
    BY <2>1 DEF Fixed
  <2>5. good' \in [Installs -> BOOLEAN]
    <3>1. \E b \in BOOLEAN : Return(r, b)
      BY <2>1
    <3> QED
      BY <3>1 DEF Return
  <2>6. ASSUME NEW i \in Installs, pc'[i] = "check", good'[i], ~socks
        PROVE  db'[i] # "broken"
    <3>1. CASE i = r
      BY <2>1, <2>6, <3>1 DEF Return
    <3>2. CASE i # r
      BY <2>1, <2>4, <2>6, <3>2 DEF Return
    <3> QED
      BY <3>1, <3>2
  <2> QED
    BY <2>2, <2>3, <2>5, <2>6
<1>10. CASE CleanLog
  BY <1>10 DEF CleanLog, installVars, options
<1>11. CASE UNCHANGED vars
  BY <1>11 DEF vars, installVars, options
<1> QED
  BY <1>1, <1>2, <1>3, <1>4, <1>6, <1>7, <1>8, <1>9, <1>10, <1>11
     DEF Next, Install, Upgrade, Aptlm

\* However many lminstalls interleave and repair each other's packages, none
\* deletes the .deb of a package that is left unconfigured.
THEOREM DebIsKept == Spec => DebKept
<1>1. Init => WholeInv
  BY DEF Init, WholeInv, Packages, Runs
<1>2. ASSUME LockInv, WholeInv, [Next]_vars,
             NEW i \in Installs, deb[i], ~deb'[i], ~socks
      PROVE  db[i] # "broken"
  <2>1. PICK j \in Installs : Check(j)
    BY <1>2 DEF Next, Install, Upgrade, Aptlm, Refuse, TestInstall, DpkgBusy,
       DpkgBegin, DpkgEnd, OpenLog, Decline, Grep, WriteStatus, Enter,
       EnterBeside, UrisFail,
       Fetched, AptBegin, AptBusy, AptEnd, CleanLog, vars, installVars
  <2>2. i = j
    BY <1>2, <2>1 DEF Check, WholeInv
  <2>3. pc[i] = "check" /\ good[i]
    BY <1>2, <2>1, <2>2 DEF Check
  <2> QED
    BY <1>2, <2>3 DEF WholeInv
<1>3. LockInv /\ WholeInv /\ [Next]_vars =>
        [\A i \in Installs : deb[i] /\ ~deb'[i] /\ ~socks => db[i] # "broken"]_vars
  BY <1>2
<1> QED
  BY <1>1, <1>3, WholeStep, LockAlways, PTL DEF Spec, DebKept

(***************************************************************************)
(* The upgrades' verdicts                                                  *)
(***************************************************************************)

\* The types of what LockInv and WholeInv do not speak of.
LogType ==
    /\ dpkg \in Runs \cup {Nobody}
    /\ delete \in [Installs -> BOOLEAN]
    /\ tried \in [Installs -> BOOLEAN]
    /\ log \subseteq Upgrades
    /\ tee \subseteq Upgrades
    /\ failed \subseteq Upgrades
    /\ grepped \subseteq Upgrades
    /\ status \in {"none", "clean", "error"}
    /\ alone \subseteq Upgrades

LEMMA LogTypeStep == LogType /\ [Next]_vars => LogType'
<1> SUFFICES ASSUME LogType, [Next]_vars PROVE LogType'
  OBVIOUS
<1> USE DEF LogType, Runs
<1>1. ASSUME NEW i \in Installs,
             Refuse(i) \/ TestInstall(i) \/ DpkgBusy(i) \/ DpkgBegin(i)
               \/ DpkgEnd(i) \/ Check(i)
      PROVE  LogType'
  <2>1. tried' \in [Installs -> BOOLEAN]
    BY <1>1 DEF Refuse, TestInstall, DpkgBusy, DpkgBegin, DpkgEnd, Check, installVars
  <2>2. dpkg' \in Runs \cup {Nobody}
    BY <1>1 DEF Refuse, TestInstall, DpkgBusy, DpkgBegin, DpkgEnd, Check, lockVars
  <2>3. UNCHANGED <<options, upgradeVars>>
    BY <1>1 DEF Refuse, TestInstall, DpkgBusy, DpkgBegin, DpkgEnd, Check
  <2> QED
    BY <2>1, <2>2, <2>3 DEF options, upgradeVars
<1>2. ASSUME NEW u \in Upgrades, OpenLog(u) \/ Grep(u) \/ WriteStatus(u)
      PROVE  LogType'
  BY <1>2 DEF OpenLog, Grep, WriteStatus, lockVars, installVars, options
<1>3. ASSUME NEW u \in Upgrades, Decline(u) PROVE LogType'
  BY <1>3 DEF Decline, options, upgradeVars
<1>4. ASSUME NEW r \in Runs,
             Enter(r) \/ EnterBeside(r) \/ Fetched(r) \/ AptBegin(r)
               \/ AptBusy(r) \/ AptEnd(r)
      PROVE  LogType'
  <2>1. dpkg' \in {dpkg, r, Nobody}
    BY <1>4 DEF Enter, EnterBeside, Fetched, AptBegin, AptBusy, AptEnd, lockVars
  <2>2. UNCHANGED <<tried, options, upgradeVars>>
    BY <1>4 DEF Enter, EnterBeside, Fetched, AptBegin, AptBusy, AptEnd, installVars
  <2> QED
    BY <2>1, <2>2 DEF options, upgradeVars
<1>5. ASSUME NEW r \in Runs, UrisFail(r) PROVE LogType'
  <2>1. log' \subseteq Upgrades
    BY <1>5 DEF UrisFail
  <2>2. failed' \subseteq Upgrades
    BY <1>5 DEF UrisFail
  <2> QED
    BY <1>5, <2>1, <2>2 DEF UrisFail, options
<1>6. CASE CleanLog
  BY <1>6 DEF CleanLog, lockVars, installVars, options
<1>7. CASE UNCHANGED vars
  BY <1>7 DEF vars, lockVars, installVars, options, upgradeVars
<1> QED
  BY <1>1, <1>2, <1>3, <1>4, <1>5, <1>6, <1>7 DEF Next, Install, Upgrade, Aptlm

\* Any number of runs, with any options and any failures of apt and dpkg, keep
\* every package, lock and file in a state the scripts know.
THEOREM TypeCorrect == Spec => []TypeOK
<1>1. Init => WholeInv
  BY DEF Init, WholeInv, Packages, Runs
<1>2. Init => LogType
  BY DEF Init, LogType
<1>3. LockInv /\ WholeInv /\ LogType => TypeOK
  BY DEF LockInv, WholeInv, LogType, TypeOK
<1> QED
  BY <1>1, <1>2, <1>3, WholeStep, LogTypeStep, LockAlways, PTL DEF Spec

\* What stands in the log of an upgrade that is alone is its own: a run whose
\* tee is open has not written its verdict, and an upgrade at work beside
\* another one is not alone.
Reading == {"wait", "grep"} \cup Inside

VerdictInv ==
    /\ tee \subseteq {u \in Upgrades : pc[u] \in Reading}
    /\ \A u \in Upgrades : pc[u] \in {"start", "wait"} \cup Inside =>
          u \notin failed /\ u \notin grepped
    /\ \A u \in Upgrades : pc[u] = "grep" => u \notin grepped
    /\ \A u \in alone, v \in Upgrades :
          pc[u] \in Logging /\ pc[v] \in Logging => u = v
    /\ \A u \in alone : pc[u] \in Reading =>
          u \in tee /\ log = (IF u \in failed THEN {u} ELSE {})
    /\ \A u \in alone : pc[u] = "write" => (u \in grepped <=> u \in failed)

LEMMA VerdictStep ==
  LockInv /\ LogType /\ VerdictInv /\ [Next]_vars => VerdictInv'
<1> SUFFICES ASSUME LockInv, LogType, VerdictInv, [Next]_vars PROVE VerdictInv'
  OBVIOUS
<1> USE KindsAssumption DEF LockInv, LogType, VerdictInv, Goto, Runs, Reading, Logging, Inside
\* A step of an lminstall.
<1>1. ASSUME \A u \in Upgrades : pc'[u] = pc[u], UNCHANGED upgradeVars
      PROVE  VerdictInv'
  BY <1>1 DEF upgradeVars
<1>2. ASSUME NEW i \in Installs,
             Refuse(i) \/ TestInstall(i) \/ DpkgBusy(i) \/ DpkgBegin(i)
               \/ DpkgEnd(i) \/ Check(i)
      PROVE  VerdictInv'
  BY <1>1, <1>2 DEF Refuse, TestInstall, DpkgBusy, DpkgBegin, DpkgEnd, Check
\* A step of an upgrade that neither ends its session nor touches the files.
<1>3. ASSUME NEW u \in Upgrades, NEW l \in {"uris", "lock", "apt"},
             pc[u] \in {"wait"} \cup Inside, Goto(u, l), UNCHANGED upgradeVars
      PROVE  VerdictInv'
  BY <1>3 DEF upgradeVars
<1>4. ASSUME NEW r \in Runs, Enter(r) \/ EnterBeside(r) \/ Fetched(r) \/ AptBegin(r)
      PROVE  VerdictInv'
  <2>1. CASE r \in Installs
    BY <1>1, <1>4, <2>1 DEF Enter, EnterBeside, Fetched, AptBegin
  <2>2. CASE r \in Upgrades
    BY <1>3, <1>4, <2>2 DEF Enter, EnterBeside, Fetched, AptBegin
  <2> QED
    BY <2>1, <2>2
<1>5. ASSUME NEW r \in Runs, NEW ok, pc[r] \in Inside, Return(r, ok),
             UNCHANGED upgradeVars
      PROVE  VerdictInv'
  <2>1. CASE r \in Installs
    BY <1>1, <1>5, <2>1 DEF Return
  <2>2. CASE r \in Upgrades
    <3>1. pc' = [pc EXCEPT ![r] = "grep"]
      BY <1>5, <2>2 DEF Return
    <3> QED
      BY <1>5, <2>2, <3>1 DEF upgradeVars
  <2> QED
    BY <2>1, <2>2
<1>6. ASSUME NEW u \in Upgrades, Decline(u) PROVE VerdictInv'
  <2>1. PICK ok : Return(u, ok)
    BY <1>6 DEF Decline
  <2>2. pc[u] \in Inside /\ UNCHANGED upgradeVars
    BY <1>6 DEF Decline
  <2> QED
    BY <1>5, <2>1, <2>2
<1>7. ASSUME NEW r \in Runs, AptBusy(r) \/ AptEnd(r) PROVE VerdictInv'
  <2>1. PICK ok : Return(r, ok)
    BY <1>7 DEF AptBusy, AptEnd
  <2> QED
    BY <1>5, <1>7, <2>1 DEF AptBusy, AptEnd
<1>8. ASSUME NEW r \in Runs, UrisFail(r) PROVE VerdictInv'
  <2>1. CASE r \in Installs
    <3>1. \A u \in Upgrades : pc'[u] = pc[u]
      BY <1>8, <2>1 DEF UrisFail, Return
    <3>2. UNCHANGED upgradeVars
      BY <1>8, <2>1 DEF UrisFail, upgradeVars
    <3> QED
      BY <1>1, <3>1, <3>2
  <2>2. CASE r \in Upgrades
    <3>1. pc[r] = "uris" /\ pc' = [pc EXCEPT ![r] = "grep"]
          /\ failed' = failed \cup {r} /\ UNCHANGED <<tee, grepped, alone>>
      BY <1>8, <2>2 DEF UrisFail, Return
    <3>2. r \in tee => \E kept \in SUBSET log : log' = kept \cup {r}
      BY <1>8 DEF UrisFail
    <3>3. r \notin failed
      BY <3>1
    <3>4. ASSUME NEW u \in alone', pc'[u] \in Reading
          PROVE  u \in tee' /\ log' = (IF u \in failed' THEN {u} ELSE {})
      <4>1. u = r
        BY <3>1, <3>4, <2>2
      <4>2. r \in tee /\ log = {}
        BY <3>1, <3>3, <3>4, <4>1
      <4> QED
        BY <3>1, <3>2, <4>1, <4>2
    <3> QED
      BY <2>2, <3>1, <3>3, <3>4
  <2> QED
    BY <2>1, <2>2
<1>9. ASSUME NEW u \in Upgrades, OpenLog(u) PROVE VerdictInv'
  BY <1>9 DEF OpenLog
<1>10. ASSUME NEW u \in Upgrades, Grep(u) PROVE VerdictInv'
  BY <1>10 DEF Grep
<1>11. ASSUME NEW u \in Upgrades, WriteStatus(u) PROVE VerdictInv'
  BY <1>11 DEF WriteStatus
<1>12. CASE CleanLog
  BY <1>12 DEF CleanLog
<1>13. CASE UNCHANGED vars
  BY <1>1, <1>13 DEF vars
<1> QED
  BY <1>2, <1>4, <1>6, <1>7, <1>8, <1>9, <1>10, <1>11, <1>12, <1>13
     DEF Next, Install, Upgrade, Aptlm

\* However many upgrades and lminstalls there are: an upgrade whose files no
\* other one touched since it began leaves the verdict of its own run.
THEOREM VerdictIsHonest == Spec => StatusHonest
<1>1. Init => LogType
  BY DEF Init, LogType
<1>2. Init => VerdictInv
  BY DEF Init, VerdictInv, Runs, Reading, Inside
<1>3. ASSUME LockInv, LogType, VerdictInv, [Next]_vars,
             NEW u \in Upgrades, pc[u] = "write", pc'[u] = "done", u \in alone
      PROVE  status' = "error" <=> u \in failed
  <2>1. PICK v \in Upgrades : WriteStatus(v)
    BY <1>3, KindsAssumption DEF LockInv, Runs, Goto, Return, Next, Install,
       Upgrade, Aptlm, Refuse, TestInstall, DpkgBusy, DpkgBegin, DpkgEnd, Check,
       OpenLog, Decline, Grep, Enter, EnterBeside, UrisFail, Fetched, AptBegin, AptBusy,
       AptEnd, CleanLog, vars
  <2>2. u = v
    BY <1>3, <2>1 DEF WriteStatus, Goto, LockInv
  <2> QED
    BY <1>3, <2>1, <2>2 DEF WriteStatus, VerdictInv
<1>4. LockInv /\ LogType /\ VerdictInv /\ [Next]_vars =>
        [\A u \in Upgrades : pc[u] = "write" /\ pc'[u] = "done" /\ u \in alone =>
           (status' = "error" <=> u \in failed)]_vars
  BY <1>3
<1> QED
  BY <1>1, <1>2, <1>4, LogTypeStep, VerdictStep, LockAlways, PTL DEF Spec, StatusHonest

(***************************************************************************)
(* Every run ends: what EveryRunEnds rests on besides fairness.            *)
(***************************************************************************)

\* How many steps a run can have before it at most.
Before(label) ==
    CASE label = "start"  -> 9
      [] label = "dpkg"   -> 8
      [] label = "unpack" -> 7
      [] label = "wait"   -> 6
      [] label = "uris"   -> 5
      [] label = "lock"   -> 4
      [] label = "apt"    -> 3
      [] label = "grep"   -> 2
      [] label \in {"check", "write"} -> 1
      [] OTHER            -> 0

StepsLeft == [r \in Runs |-> Before(pc[r])]

\* Every step but a clean-log is a step towards the end of one run and leaves
\* the others where they are.
OneGoesOn ==
    [][\/ CleanLog
       \/ \E r \in Runs : /\ StepsLeft'[r] < StepsLeft[r]
                          /\ \A q \in Runs \ {r} : StepsLeft'[q] = StepsLeft[q]]_vars

\* A run waits for its session only behind one that is inside and held up by
\* nobody: before "apt" an insider waits for nothing (apt gives up if dpkg's lock
\* is taken), and at "apt" it has dpkg's lock itself.  So the two locks are never
\* waited for in a circle, though several runs may be inside.
NobodyStuck ==
    \A r \in Runs : pc[r] = "wait" =>
        \/ session[r] = "out" /\ \A q \in Runs : session[q] # "in"
        \/ \E q \in Runs \ {r} :
              /\ session[q] = "in"
              /\ pc[q] \in {"uris", "lock"} \/ (pc[q] = "apt" /\ dpkg = q)

\* A run calls aptlm once.
SessionInv ==
    \A r \in Runs : pc[r] \in {"start", "dpkg", "unpack", "wait"} => session[r] = "out"

LEMMA SessionStep == LockInv /\ SessionInv /\ [Next]_vars => SessionInv'
<1> SUFFICES ASSUME LockInv, SessionInv, [Next]_vars PROVE SessionInv'
  OBVIOUS
<1> USE DEF LockInv, SessionInv, Goto, Runs
<1>1. ASSUME NEW i \in Installs,
             Refuse(i) \/ TestInstall(i) \/ DpkgBusy(i) \/ DpkgBegin(i)
               \/ DpkgEnd(i) \/ Check(i)
      PROVE  SessionInv'
  <2>1. session' = session /\ \A q \in Runs \ {i} : pc'[q] = pc[q]
    BY <1>1 DEF Refuse, TestInstall, DpkgBusy, DpkgBegin, DpkgEnd, Check, lockVars
  <2>2. pc'[i] \in {"start", "dpkg", "unpack", "wait"} =>
            pc[i] \in {"start", "dpkg", "unpack", "wait"}
    BY <1>1 DEF Refuse, TestInstall, DpkgBusy, DpkgBegin, DpkgEnd, Check
  <2> QED
    BY <2>1, <2>2
<1>2. ASSUME NEW u \in Upgrades, OpenLog(u) \/ Grep(u) \/ WriteStatus(u)
      PROVE  SessionInv'
  BY <1>2 DEF OpenLog, Grep, WriteStatus, lockVars
<1>3. ASSUME NEW r \in Runs, Fetched(r) \/ AptBegin(r) PROVE SessionInv'
  BY <1>3 DEF Fetched, AptBegin, lockVars
<1>4. ASSUME NEW r \in Runs, Enter(r) \/ EnterBeside(r) PROVE SessionInv'
  BY <1>4 DEF Enter, EnterBeside, Session!Enter, Session!EnterBeside
<1>5. ASSUME NEW r \in Runs, NEW ok, Session!Leave(r), Return(r, ok)
      PROVE  SessionInv'
  BY <1>5 DEF Session!Leave, Return
<1>6. ASSUME NEW r \in Runs, UrisFail(r) \/ AptBusy(r) PROVE SessionInv'
  BY <1>5, <1>6 DEF UrisFail, AptBusy
<1>7. ASSUME NEW u \in Upgrades, Decline(u) PROVE SessionInv'
  BY <1>5, <1>7 DEF Decline
<1>8. ASSUME NEW r \in Runs, AptEnd(r) PROVE SessionInv'
  <2>1. PICK ok : Return(r, ok)
    BY <1>8 DEF AptEnd
  <2> QED
    BY <1>5, <1>8, <2>1 DEF AptEnd
<1>9. CASE UNCHANGED <<pc, lockVars>>
  BY <1>9 DEF lockVars
<1>10. CASE CleanLog \/ UNCHANGED vars
  BY <1>9, <1>10 DEF CleanLog, vars
<1> QED
  BY <1>1, <1>2, <1>3, <1>4, <1>6, <1>7, <1>8, <1>10 DEF Next, Install, Upgrade, Aptlm

LEMMA GoesOn ==
  LockInv /\ [Next]_vars =>
    [\/ CleanLog
     \/ \E r \in Runs : /\ StepsLeft'[r] < StepsLeft[r]
                        /\ \A q \in Runs \ {r} : StepsLeft'[q] = StepsLeft[q]]_vars
<1> SUFFICES ASSUME LockInv, Next, ~CleanLog
             PROVE  \E r \in Runs : /\ StepsLeft'[r] < StepsLeft[r]
                                    /\ \A q \in Runs \ {r} : StepsLeft'[q] = StepsLeft[q]
  OBVIOUS
<1>1. ASSUME NEW r \in Runs, NEW l \in Labels, Goto(r, l), Before(l) < Before(pc[r])
      PROVE  \E p \in Runs : /\ StepsLeft'[p] < StepsLeft[p]
                             /\ \A q \in Runs \ {p} : StepsLeft'[q] = StepsLeft[q]
  <2>1. pc'[r] = l /\ \A q \in Runs \ {r} : pc'[q] = pc[q]
    BY <1>1 DEF Goto, LockInv
  <2>2. \A q \in Runs \ {r} : StepsLeft'[q] = StepsLeft[q]
    BY <2>1, Zenon DEF StepsLeft
  <2>3. StepsLeft'[r] < StepsLeft[r]
    BY <1>1, <2>1 DEF StepsLeft
  <2> QED
    BY <2>2, <2>3
<1> USE DEF Labels, Inside, Before, Runs
<1>2. ASSUME NEW r \in Runs, NEW ok, pc[r] \in Inside, Return(r, ok)
      PROVE  \E p \in Runs : /\ StepsLeft'[p] < StepsLeft[p]
                             /\ \A q \in Runs \ {p} : StepsLeft'[q] = StepsLeft[q]
  <2>1. PICK l \in {"check", "grep"} : Goto(r, l)
    BY <1>2 DEF Return
  <2> QED
    BY <1>1, <1>2, <2>1
<1>3. ASSUME NEW i \in Installs,
             Refuse(i) \/ TestInstall(i) \/ DpkgBusy(i) \/ DpkgBegin(i)
               \/ DpkgEnd(i) \/ Check(i)
      PROVE  \E p \in Runs : /\ StepsLeft'[p] < StepsLeft[p]
                             /\ \A q \in Runs \ {p} : StepsLeft'[q] = StepsLeft[q]
  BY <1>1, <1>3 DEF Refuse, TestInstall, DpkgBusy, DpkgBegin, DpkgEnd, Check
<1>4. ASSUME NEW u \in Upgrades,
             OpenLog(u) \/ Grep(u) \/ WriteStatus(u)
      PROVE  \E p \in Runs : /\ StepsLeft'[p] < StepsLeft[p]
                             /\ \A q \in Runs \ {p} : StepsLeft'[q] = StepsLeft[q]
  BY <1>1, <1>4 DEF OpenLog, Grep, WriteStatus
<1>5. ASSUME NEW r \in Runs,
             Enter(r) \/ EnterBeside(r) \/ Fetched(r) \/ AptBegin(r)
      PROVE  \E p \in Runs : /\ StepsLeft'[p] < StepsLeft[p]
                             /\ \A q \in Runs \ {p} : StepsLeft'[q] = StepsLeft[q]
  BY <1>1, <1>5 DEF Enter, EnterBeside, Fetched, AptBegin
<1>6. ASSUME NEW u \in Upgrades,
             Decline(u)
      PROVE  \E p \in Runs : /\ StepsLeft'[p] < StepsLeft[p]
                             /\ \A q \in Runs \ {p} : StepsLeft'[q] = StepsLeft[q]
  <2>1. u \in Runs /\ Return(u, FALSE) /\ pc[u] \in Inside
    BY <1>6 DEF Decline
  <2> HIDE DEF Labels, Inside, Before, Runs
  <2> QED
    BY <1>2, <2>1
<1>7. ASSUME NEW r \in Runs,
             UrisFail(r) \/ AptBusy(r)
      PROVE  \E p \in Runs : /\ StepsLeft'[p] < StepsLeft[p]
                             /\ \A q \in Runs \ {p} : StepsLeft'[q] = StepsLeft[q]
  <2>1. pc[r] \in Inside /\ (Return(r, FALSE) \/ Return(r, socks))
    BY <1>7 DEF UrisFail, AptBusy
  <2> HIDE DEF Labels, Inside, Before, Runs
  <2> QED
    BY <1>2, <2>1
<1>8. ASSUME NEW r \in Runs, AptEnd(r)
      PROVE  \E p \in Runs : /\ StepsLeft'[p] < StepsLeft[p]
                             /\ \A q \in Runs \ {p} : StepsLeft'[q] = StepsLeft[q]
  <2>1. PICK ok : Return(r, ok)
    BY <1>8 DEF AptEnd
  <2> QED
    BY <1>2, <1>8, <2>1 DEF AptEnd
<1> QED
  BY <1>3, <1>4, <1>5, <1>6, <1>7, <1>8 DEF Next, Install, Upgrade, Aptlm

\* For any number of lminstalls and upgrades, and however many lm-apt-fast lets in
\* at once: apart from clean-logs every step is one of at most nine of some run,
\* and whoever waits for a session waits for a run that can go on.
THEOREM RunsGoOn == Spec => []NobodyStuck /\ OneGoesOn
<1>1. Init => SessionInv
  BY DEF Init, SessionInv, Session!Init
<1>2. LockInv /\ SessionInv => NobodyStuck
  <2> SUFFICES ASSUME LockInv, SessionInv, NEW r \in Runs, pc[r] = "wait",
                      NEW q \in Runs, session[q] = "in"
               PROVE  /\ q # r
                      /\ pc[q] \in {"uris", "lock"} \/ (pc[q] = "apt" /\ dpkg = q)
    BY DEF NobodyStuck, SessionInv
  <2> QED
    BY DEF LockInv, LocksAccounted, SessionInv, Inside
<1> QED
  BY <1>1, <1>2, SessionStep, GoesOn, LockAlways, PTL DEF Spec, OneGoesOn
=============================================================================
