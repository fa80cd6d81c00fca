---------------------------- MODULE PackageTools ----------------------------
(***************************************************************************)
(* The scripts above lm-apt-fast: tools/lminstall/lminstall, which installs *)
(* a .deb file, and tools/update-upgrade/lm-do-upgrade-worker.sh           *)
(* upgrade-app, which upgrades installed packages and leaves its verdict   *)
(* in /tmp.  Any number of them run at once; they meet at lm-apt-fast's    *)
(* lock (a session), at dpkg's lock and at the worker's two files in /tmp. *)
(* They are all root's, and so is the lock file: each of them can open it. *)
(* Every lminstall has a .deb of its own, whose package bears its name.    *)
(***************************************************************************)
CONSTANTS
    Installs,  \* executions of lminstall
    Upgrades,  \* executions of lm-do-upgrade-worker.sh upgrade-app
    Nobody     \* a free dpkg lock

ASSUME KindsAssumption == Installs \cap Upgrades = {}
ASSUME NobodyAssumption == Nobody \notin Installs \cup Upgrades

Runs == Installs \cup Upgrades

VARIABLES
    pc,       \* the next step of each run
    session,  \* each run's session of lm-apt-fast
    dpkg,     \* the run that holds dpkg's lock, or Nobody
    db,       \* dpkg's record of each lminstall's package
    deb,      \* the .deb file of each lminstall exists
    delete,   \* --delete-after-install was given
    good,     \* $? of `dpkg -i || aptlm install -yf'
    tried,    \* the dry run of test-install-app succeeded
    socks,    \* apt is configured with a socks proxy
    log,      \* upgrades whose error line is in lingmoos-app-upgrade-log.txt
    tee,      \* upgrades whose tee has that very file open
    failed,   \* upgrades that have printed "Package manager quit with exit code."
    grepped,  \* $IS_UPGRADE_ERROR is not empty
    status,   \* spark-store-app-upgrade-status.txt
    alone     \* history: upgrades whose files nobody touched since they began

lockVars    == <<session, dpkg>>
installVars == <<db, deb, good, tried>>
options     == <<delete, socks>>
upgradeVars == <<log, tee, failed, grepped, status, alone>>
vars        == <<pc, lockVars, installVars, options, upgradeVars>>

Session == INSTANCE AptSession WITH phase <- session

\* "broken" is unpacked and not configured; "config" is removed, its
\* configuration files kept.
Packages == {"absent", "config", "old", "new", "broken"}
Inside   == {"uris", "lock", "apt"}
Labels   == {"start", "dpkg", "unpack", "wait", "check", "grep", "write", "done"} \cup Inside
Logging  == {"wait", "grep", "write"} \cup Inside

TypeOK ==
    /\ pc \in [Runs -> Labels]
    /\ session \in [Runs -> Session!Phases]
    /\ dpkg \in Runs \cup {Nobody}
    /\ db \in [Installs -> Packages]
    /\ deb \in [Installs -> BOOLEAN]
    /\ delete \in [Installs -> BOOLEAN]
    /\ good \in [Installs -> BOOLEAN]
    /\ tried \in [Installs -> BOOLEAN]
    /\ socks \in BOOLEAN
    /\ log \subseteq Upgrades
    /\ tee \subseteq Upgrades
    /\ failed \subseteq Upgrades
    /\ grepped \subseteq Upgrades
    /\ status \in {"none", "clean", "error"}
    /\ alone \subseteq Upgrades

Init ==
    /\ pc = [r \in Runs |-> "start"]
    /\ Session!Init
    /\ dpkg = Nobody
    /\ db \in [Installs -> {"absent", "config", "old"}]
    /\ deb \in [Installs -> BOOLEAN]
    /\ delete \in [Installs -> BOOLEAN]
    /\ good = [i \in Installs |-> FALSE]
    /\ tried = [i \in Installs |-> FALSE]
    /\ socks \in BOOLEAN
    /\ log = {} /\ tee = {} /\ failed = {} /\ grepped = {} /\ alone = {}
    /\ status = "none"

Goto(r, label) == pc' = [pc EXCEPT ![r] = label]

-----------------------------------------------------------------------------
(***************************************************************************)
(* lminstall                                                               *)
(***************************************************************************)

\* No such file, or not root: exit 1.
Refuse(i) ==
    /\ pc[i] = "start"
    /\ Goto(i, "done")
    /\ UNCHANGED <<lockVars, installVars, options, upgradeVars>>

\* The dry run; try_run_ret is assigned twice, and the second time it is the
\* status of the first assignment, 0: neither retry nor exit is ever taken.
TestInstall(i) ==
    /\ pc[i] = "start" /\ deb[i]
    /\ \E ok \in BOOLEAN : tried' = [tried EXCEPT ![i] = ok]
    /\ Goto(i, "dpkg")
    /\ UNCHANGED <<lockVars, db, deb, good, options, upgradeVars>>

\* `dpkg -i' does not wait for dpkg's lock: it fails, and `||' goes on.
DpkgBusy(i) ==
    /\ pc[i] = "dpkg" /\ dpkg # Nobody
    /\ Goto(i, "wait")
    /\ UNCHANGED <<lockVars, installVars, options, upgradeVars>>

DpkgBegin(i) ==
    /\ pc[i] = "dpkg" /\ dpkg = Nobody
    /\ dpkg' = i
    /\ Goto(i, "unpack")
    /\ UNCHANGED <<session, installVars, options, upgradeVars>>

\* Mutant: `|| true' instead of `|| aptlm install -yf'.
DpkgEndAnyway(i) ==
    /\ pc[i] = "unpack"
    /\ dpkg' = Nobody
    /\ \E result \in {"new", "broken", db[i]} : db' = [db EXCEPT ![i] = result]
    /\ good' = [good EXCEPT ![i] = TRUE]
    /\ Goto(i, "check")
    /\ UNCHANGED <<session, deb, tried, options, upgradeVars>>

\* dpkg installs the package, leaves it unconfigured because a dependency is
\* missing, or refuses the file; in the last two cases `aptlm install -yf'.
DpkgEnd(i) ==
    /\ pc[i] = "unpack"
    /\ dpkg' = Nobody
    /\ \/ /\ db' = [db EXCEPT ![i] = "new"]
          /\ good' = [good EXCEPT ![i] = TRUE]
          /\ Goto(i, "check")
       \/ /\ db' \in {db, [db EXCEPT ![i] = "broken"]}
          /\ Goto(i, "wait")
          /\ UNCHANGED good
    /\ UNCHANGED <<session, deb, tried, options, upgradeVars>>

\* `dpkg -s' knows every package it has not forgotten, whatever its state; the
\* .deb goes if it was asked for and $? was 0.  Every branch ends with exit 0.
Check(i) ==
    /\ pc[i] = "check"
    /\ deb' = IF good[i] /\ delete[i] /\ db[i] # "absent"
              THEN [deb EXCEPT ![i] = FALSE]
              ELSE deb
    /\ Goto(i, "done")
    /\ UNCHANGED <<lockVars, db, good, tried, options, upgradeVars>>

-----------------------------------------------------------------------------
(***************************************************************************)
(* upgrade-app                                                             *)
(***************************************************************************)

\* Mutant: tee -a.
OpenLogAppend(u) ==
    /\ pc[u] = "start"
    /\ tee' = tee \cup {u}
    /\ alone' = IF \E v \in Upgrades : pc[v] \in Logging THEN {} ELSE {u}
    /\ Goto(u, "wait")
    /\ UNCHANGED <<lockVars, installVars, options, log, failed, grepped, status>>

\* tee creates the log, or empties it under a tee that is still writing.
OpenLog(u) ==
    /\ pc[u] = "start"
    /\ log' = {}
    /\ tee' = tee \cup {u}
    /\ alone' = IF \E v \in Upgrades : pc[v] \in Logging THEN {} ELSE {u}
    /\ Goto(u, "wait")
    /\ UNCHANGED <<lockVars, installVars, options, failed, grepped, status>>

\* Mutant: nothing after the grep.
GrepExit(u) ==
    /\ pc[u] = "grep"
    /\ grepped' = IF log # {} THEN grepped \cup {u} ELSE grepped
    /\ tee' = tee \ {u}
    /\ Goto(u, "exit")
    /\ UNCHANGED <<lockVars, installVars, options, log, failed, status, alone>>

\* grep of whatever the path names now.
Grep(u) ==
    /\ pc[u] = "grep"
    /\ grepped' = IF log # {} THEN grepped \cup {u} ELSE grepped
    /\ tee' = tee \ {u}
    /\ Goto(u, "write")
    /\ UNCHANGED <<lockVars, installVars, options, log, failed, status, alone>>

WriteStatus(u) ==
    /\ pc[u] = "write"
    /\ status' = IF u \in grepped THEN "error" ELSE "clean"
    /\ Goto(u, "done")
    /\ UNCHANGED <<lockVars, installVars, options, log, tee, failed, grepped, alone>>

\* clean-log: rm -f of the log and the status, at any time.
CleanLog ==
    /\ log' = {} /\ tee' = {} /\ alone' = {} /\ status' = "none"
    /\ UNCHANGED <<pc, lockVars, installVars, options, failed, grepped>>

-----------------------------------------------------------------------------
(***************************************************************************)
(* aptlm install: a session of lm-apt-fast                                 *)
(***************************************************************************)

\* Where a run goes on after its session, and what an lminstall knows of it.
Return(r, ok) ==
    /\ Goto(r, IF r \in Installs THEN "check" ELSE "grep")
    /\ good' = IF r \in Installs THEN [good EXCEPT ![r] = ok] ELSE good

Enter(r) ==
    /\ pc[r] = "wait"
    /\ Session!Enter(r)
    /\ Goto(r, "uris")
    /\ UNCHANGED <<dpkg, installVars, options, upgradeVars>>

\* From the third run on lm-apt-fast may let a run in beside another one.
EnterBeside(r) ==
    /\ pc[r] = "wait"
    /\ Session!EnterBeside(r)
    /\ Goto(r, "uris")
    /\ UNCHANGED <<dpkg, installVars, options, upgradeVars>>

\* Mutant: a run that stays in the session after get_uris failed.
UrisFailStays(r) ==
    /\ pc[r] = "uris" /\ ~socks
    /\ failed' = IF r \in Upgrades THEN failed \cup {r} ELSE failed
    /\ log' = IF r \in tee THEN log \cup {r} ELSE log
    /\ Return(r, FALSE)
    /\ UNCHANGED <<lockVars, db, deb, tried, options, tee, grepped, status, alone>>

\* get_uris: apt-get --print-uris fails and says so.  What another tee that has
\* the file open has written may be overwritten: both write where they are.
UrisFail(r) ==
    /\ pc[r] = "uris" /\ ~socks
    /\ Session!Leave(r)
    /\ failed' = IF r \in Upgrades THEN failed \cup {r} ELSE failed
    /\ IF r \in tee THEN \E kept \in SUBSET log : log' = kept \cup {r}
                    ELSE log' = log
    /\ Return(r, FALSE)
    /\ UNCHANGED <<dpkg, db, deb, tried, options, tee, grepped, status, alone>>

\* upgrade-app does not say -y: the download is declined or nobody answers.
Decline(u) ==
    /\ pc[u] = "uris" /\ ~socks
    /\ Session!Leave(u)
    /\ Return(u, FALSE)
    /\ UNCHANGED <<dpkg, db, deb, tried, options, upgradeVars>>

\* The packages are fetched and the package manager is started.
Fetched(r) ==
    /\ pc[r] = "uris"
    /\ Goto(r, "lock")
    /\ UNCHANGED <<lockVars, installVars, options, upgradeVars>>

\* apt waits for dpkg's lock, or gives up.
AptBegin(r) ==
    /\ pc[r] = "lock" /\ dpkg = Nobody
    /\ dpkg' = r
    /\ Goto(r, "apt")
    /\ UNCHANGED <<session, installVars, options, upgradeVars>>

\* With a socks proxy lm-apt-fast exits with 0 whatever apt did.
AptBusy(r) ==
    /\ pc[r] = "lock" /\ dpkg # Nobody
    /\ Session!Leave(r)
    /\ Return(r, socks)
    /\ UNCHANGED <<dpkg, db, deb, tried, options, upgradeVars>>

\* Fix-Broken: apt completes an unconfigured package or removes it, any run's.
Repaired == [Installs -> Packages \ {"old"}]
Fixed(p, q) == IF p = "broken" THEN q ELSE p

AptEnd(r) ==
    /\ pc[r] = "apt"
    /\ dpkg' = Nobody
    /\ Session!Leave(r)
    /\ \E ok \in BOOLEAN, repair \in Repaired :
        /\ ok => \A i \in Installs : Fixed(db[i], repair[i]) # "broken"
        /\ db' = [i \in Installs |-> Fixed(db[i], repair[i])]
        /\ Return(r, ok \/ socks)
    /\ UNCHANGED <<deb, tried, options, upgradeVars>>

-----------------------------------------------------------------------------
Install(i) == DpkgBusy(i) \/ DpkgBegin(i) \/ DpkgEnd(i) \/ Check(i)
Upgrade(u) == Grep(u) \/ WriteStatus(u)
Aptlm(r)   == Enter(r) \/ UrisFail(r) \/ Fetched(r) \/ AptBegin(r) \/ AptBusy(r) \/ AptEnd(r)

Next ==
    \/ \E i \in Installs : Refuse(i) \/ TestInstall(i) \/ Install(i)
    \/ \E u \in Upgrades : OpenLog(u) \/ Decline(u) \/ Upgrade(u)
    \/ \E r \in Runs : Aptlm(r) \/ EnterBeside(r)
    \/ CleanLog

Spec == Init /\ [][Next]_vars

\* Every run is a process the kernel schedules; nobody has to start one, and no
\* run can count on being let in beside another.
FairSpec ==
    /\ Spec
    /\ \A i \in Installs : WF_vars(Install(i))
    /\ \A u \in Upgrades : WF_vars(Upgrade(u))
    /\ \A r \in Runs : WF_vars(Aptlm(r))

-----------------------------------------------------------------------------
(***************************************************************************)
(* Properties                                                              *)
(***************************************************************************)

\* dpkg's lock and the session are held by the runs at the steps that need
\* them and by no other: no way out of a session, of the many there are, keeps
\* a lock, and dpkg's lock is never asked for the second time by its holder.
LocksAccounted ==
    \A r \in Runs :
        /\ dpkg = r <=> pc[r] \in {"unpack", "apt"}
        /\ session[r] = "in" <=> pc[r] \in Inside

\* --delete-after-install never deletes the .deb of a package that is left
\* unconfigured, however the repair runs of several lminstalls interleave;
\* unless a socks proxy hides apt's failure.
DebKept ==
    [][\A i \in Installs : deb[i] /\ ~deb'[i] /\ ~socks => db[i] # "broken"]_vars

\* The verdict an upgrade leaves is about itself when no other upgrade and no
\* clean-log touched the two files in /tmp since it began: "error" exactly if
\* its own package manager could not list the packages.
StatusHonest ==
    [][\A u \in Upgrades : pc[u] = "write" /\ pc'[u] = "done" /\ u \in alone =>
           (status' = "error" <=> u \in failed)]_vars

\* No run waits forever, whatever order the two locks are asked for in.
EveryRunEnds == \A r \in Runs : (pc[r] \in {"dpkg", "wait"}) ~> (pc[r] = "done")

-----------------------------------------------------------------------------
\* lminstall's message: "--delete-after-install option is given and the
\* installation is succeeded, delete the deb file."  The .deb that is deleted
\* has been installed; the socks proxy's exit 0 apart.
DeletedIsInstalled ==
    [][\A i \in Installs : deb[i] /\ ~deb'[i] /\ ~socks => db[i] = "new"]_vars
=============================================================================
