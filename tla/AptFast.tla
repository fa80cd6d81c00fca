------------------------------ MODULE AptFast ------------------------------
(***************************************************************************)
(* tools/apt-fast/lm-apt-fast: the download accelerator that `aptlm        *)
(* install | upgrade | full-upgrade | download' runs.  Every run of the    *)
(* script on a machine shares one lock file, /tmp/apt-fast.lock.lock, and  *)
(* one download list, /tmp/apt-fast.list.                                  *)
(*                                                                         *)
(* A run is one execution of the script.  File descriptor 99 refers to an  *)
(* inode, not to a path: `rm -f' of the lock file leaves the inode with    *)
(* whoever has it open, and the next run that opens the path creates a new *)
(* one.  A run opens the lock file once, so it creates at most one inode   *)
(* and an inode is named by the run that created it.                       *)
(*                                                                         *)
(* Both files belong to the user whose run created them, and /tmp lets     *)
(* nobody but that user and root remove or write them.                     *)
(***************************************************************************)
EXTENDS FiniteSets, Naturals

CONSTANTS
    Runs,     \* executions of the script
    Users,    \* users who run it
    Root,     \* the user who may remove any file
    None,     \* "no run": a free lock, an absent lock file, a closed descriptor
    Options,  \* the values of $option (lines 36-59) the runs may be started with
    Signals   \* which of "INT" (INT or TERM: trapped) and "KILL" can arrive

ASSUME NoneAssumption == None \notin Runs
ASSUME RootAssumption == Root \in Users
ASSUME OptionsAssumption ==
    Options \subseteq {"install", "clean", "download", "source", "other"}
ASSUME SignalsAssumption == Signals \subseteq {"INT", "KILL"}

VARIABLES
    pc,        \* the next step of each run
    user,      \* the user of each run
    option,    \* $option of each run
    path,      \* the inode /tmp/apt-fast.lock.lock names, or None
    fd,        \* the inode descriptor 99 of each run refers to, or None if closed
    holder,    \* the run whose open descriptor has the flock of each inode
    list,      \* the owner and content of /tmp/apt-fast.list, or NoList
    wants,     \* the run's apt-get --print-uris printed packages (DOWNLOAD_SIZE)
    answer,    \* what the user said to "download the packages? [Y/n]"
    fetched,   \* whose list entries the run's downloader was given
    managed,   \* the package manager was run at the end
    interrupted \* the INT/TERM trap is running: the EXIT trap is still to come

given    == <<user, option>>
lockVars == <<path, fd, holder>>
runVars  == <<given, wants, answer, fetched, managed, interrupted>>
vars     == <<pc, path, fd, holder, list, runVars>>

(***************************************************************************)
(* The list file: whether it exists, whose it is, and the runs whose       *)
(* entries have been appended to it since it was created.                  *)
(***************************************************************************)
NoList   == [exists |-> FALSE, owner |-> Root, entries |-> {}]
ListFile == {NoList} \cup [exists : {TRUE}, owner : Users, entries : SUBSET Runs]

Working   == {"check", "uris", "fill", "ask", "fetch", "clean", "manager"}
Cleaning  == {"rmlist", "unlock", "rmlock"}
Ended     == {"done", "killed"}
Labels    == {"start", "wait", "orphan"} \cup Working \cup Cleaning \cup Ended

\* Between taking the flock and `flock -u' (or the end of the last child that
\* inherited the descriptor).
Critical == Working \cup {"orphan"}

TypeOK ==
    /\ pc \in [Runs -> Labels]
    /\ user \in [Runs -> Users]
    /\ option \in [Runs -> Options]
    /\ path \in Runs \cup {None}
    /\ fd \in [Runs -> Runs \cup {None}]
    /\ holder \in [Runs -> Runs \cup {None}]
    /\ list \in ListFile
    /\ wants \in [Runs -> BOOLEAN]
    /\ answer \in [Runs -> {"none", "yes", "no"}]
    /\ fetched \in [Runs -> SUBSET Runs]
    /\ managed \in [Runs -> BOOLEAN]
    /\ interrupted \in [Runs -> BOOLEAN]

\* Any option with any user: $root is 0 as soon as one argument is `download',
\* `source' or `changelog', whatever $option the others give.
Init ==
    /\ pc = [r \in Runs |-> "start"]
    /\ user \in [Runs -> Users]
    /\ option \in [Runs -> Options]
    /\ path = None
    /\ fd = [r \in Runs |-> None]
    /\ holder = [r \in Runs |-> None]
    /\ list = NoList
    /\ wants = [r \in Runs |-> FALSE]
    /\ answer = [r \in Runs |-> "none"]
    /\ fetched = [r \in Runs |-> {}]
    /\ managed = [r \in Runs |-> FALSE]
    /\ interrupted = [r \in Runs |-> FALSE]

Goto(r, label) == pc' = [pc EXCEPT ![r] = label]

\* Closing the descriptor drops the flock of the open file it refers to.
Release(r) == holder' = [i \in Runs |-> IF holder[i] = r THEN None ELSE holder[i]]

(***************************************************************************)
(* Files of others in /tmp, which is sticky                                *)
(***************************************************************************)

MayRemove(r, owner) == user[r] \in {Root, owner}

\* Whether opening a file that exists for writing may succeed and may fail: a
\* user can write his own files only; root's attempt on another's, in such a
\* directory, is up to the kernel's fs.protected_regular.
Opens(r, owner) ==
    {ok \in BOOLEAN : IF ok THEN MayRemove(r, owner) ELSE user[r] # owner}

(***************************************************************************)
(* _create_lock                                                            *)
(***************************************************************************)

\* `exec 99> lockfile' creates an inode or opens the one the path names.
Exec(r) ==
    \/ /\ path = None
       /\ path' = r
       /\ fd' = [fd EXCEPT ![r] = r]
    \/ /\ path # None
       /\ \E ok \in Opens(r, user[path]) : fd' = [fd EXCEPT ![r] = IF ok THEN path ELSE None]
       /\ UNCHANGED path

\* Mutants: a lock file per run; a fresh start that removes a leftover list.
OpenOwnLock(r) ==
    /\ pc[r] = "start"
    /\ fd' = [fd EXCEPT ![r] = r]
    /\ path' = r
    /\ Goto(r, "wait")
    /\ UNCHANGED <<holder, list, runVars>>

OpenLockFresh(r) ==
    /\ pc[r] = "start"
    /\ Exec(r)
    /\ list' = NoList
    /\ Goto(r, "wait")
    /\ UNCHANGED <<holder, runVars>>

\* The EXIT and INT/TERM traps are set before the lock is taken.  If the file
\* could not be opened bash only says so, and the run goes on without 99.
OpenLock(r) ==
    /\ pc[r] = "start"
    /\ Exec(r)
    /\ Goto(r, "wait")
    /\ UNCHANGED <<holder, list, runVars>>

\* Mutant: the exit status of flock is not looked at.
TakeLockAnyway(r) ==
    /\ pc[r] = "wait" /\ fd[r] # None
    /\ holder' = [holder EXCEPT ![fd[r]] = IF @ = None THEN r ELSE @]
    /\ Goto(r, "check")
    /\ UNCHANGED <<path, fd, list, runVars>>

\* Mutant: the inode must still be the path's, and is never opened again.
TakeLockStillNamed(r) ==
    /\ pc[r] = "wait" /\ fd[r] # None
    /\ path = fd[r] /\ holder[fd[r]] = None
    /\ holder' = [holder EXCEPT ![fd[r]] = r]
    /\ Goto(r, "check")
    /\ UNCHANGED <<path, fd, list, runVars>>

\* `until $(flock -xn 99); do sleep 1; done': a failed attempt changes nothing,
\* and without a descriptor every attempt fails.
TakeLock(r) ==
    /\ pc[r] = "wait" /\ fd[r] # None
    /\ holder[fd[r]] = None
    /\ holder' = [holder EXCEPT ![fd[r]] = r]
    /\ Goto(r, "check")
    /\ UNCHANGED <<path, fd, list, runVars>>

(***************************************************************************)
(* The body of the script, under the lock                                  *)
(***************************************************************************)

\* The downloader or the package manager is not installed: exit 1.  A socks
\* proxy: the package manager does everything.  Otherwise $option decides.
Check(r) ==
    /\ pc[r] = "check"
    /\ \/ Goto(r, "rmlist") /\ UNCHANGED managed
       \/ Goto(r, "rmlist") /\ managed' = [managed EXCEPT ![r] = TRUE]
       \/ /\ Goto(r, CASE option[r] = "clean" -> "clean"
                       [] option[r] = "other" -> "manager"
                       [] OTHER -> "uris")
          /\ UNCHANGED managed
    /\ UNCHANGED <<lockVars, list, given, wants, answer, fetched, interrupted>>

\* get_uris: remove the old list and write the header line.  Another user's list
\* can neither be removed nor touched: exit 1; so it is without a directory.
StartList(r) ==
    /\ pc[r] = "uris"
    /\ \/ /\ Goto(r, "rmlist")
          /\ UNCHANGED list
       \/ /\ list.exists => MayRemove(r, list.owner)
          /\ list' = [exists |-> TRUE, owner |-> user[r], entries |-> {}]
          /\ Goto(r, "fill")
    /\ UNCHANGED <<lockVars, runVars>>

\* Whose the list is once the run has appended to it.
ListOwner(r) == IF list.exists THEN list.owner ELSE user[r]

\* get_uris: apt-get --print-uris fails and the script exits with its code, or
\* its entries, if any, are appended.  `>>' creates the file if it is gone; if
\* it has become another user's, the script goes on without its entries in it.
FillList(r) ==
    /\ pc[r] = "fill"
    /\ \/ /\ Goto(r, "rmlist")
          /\ UNCHANGED <<list, wants>>
       \/ \E some \in BOOLEAN, ok \in Opens(r, ListOwner(r)) :
            /\ wants' = [wants EXCEPT ![r] = some]
            /\ list' = IF some /\ ok
                       THEN [exists |-> TRUE, owner |-> ListOwner(r),
                             entries |-> list.entries \cup {r}]
                       ELSE list
            /\ Goto(r, IF option[r] = "install" THEN "ask" ELSE "fetch")
    /\ UNCHANGED <<lockVars, given, answer, fetched, managed, interrupted>>

\* More than one line in the list.
HasLines == list.exists /\ list.entries # {}

\* Mutant: no exit 1 after "n".
AskOnly(r) ==
    /\ pc[r] = "ask"
    /\ \/ answer' = [answer EXCEPT ![r] = "yes"] /\ Goto(r, "fetch")
       \/ HasLines /\ answer' = [answer EXCEPT ![r] = "no"] /\ Goto(r, "manager")
       \/ HasLines /\ Goto(r, "rmlist") /\ UNCHANGED answer
    /\ UNCHANGED <<lockVars, list, given, wants, fetched, managed, interrupted>>

\* With more than one line in the list and no --yes, ask; no answer within
\* APT_FAST_TIMEOUT is exit 1, and so is "n" when there is something to download.
Ask(r) ==
    /\ pc[r] = "ask"
    /\ \/ /\ answer' = [answer EXCEPT ![r] = "yes"]
          /\ Goto(r, "fetch")
       \/ /\ HasLines
          /\ answer' = [answer EXCEPT ![r] = "no"]
          /\ Goto(r, IF wants[r] THEN "rmlist" ELSE "manager")
       \/ /\ HasLines
          /\ Goto(r, "rmlist")
          /\ UNCHANGED answer
    /\ UNCHANGED <<lockVars, list, given, wants, fetched, managed, interrupted>>

\* install reads the list when it downloads anything and the file is not empty;
\* download and source when the list has more than the header line.  Then
\* install and source go on to the package manager, and so does download if that
\* is aptitude.  An install that cannot enter the download directory exits.
Fetch(r) ==
    /\ pc[r] = "fetch"
    /\ \/ /\ option[r] = "install" /\ wants[r] /\ list.exists
          /\ Goto(r, "rmlist")
          /\ UNCHANGED fetched
       \/ /\ fetched' = IF \/ option[r] = "install" /\ wants[r] /\ list.exists
                           \/ option[r] # "install" /\ HasLines
                        THEN [fetched EXCEPT ![r] = list.entries]
                        ELSE fetched
          /\ \/ Goto(r, "manager")
             \/ option[r] = "download" /\ Goto(r, "rmlist")
    /\ UNCHANGED <<lockVars, list, given, wants, answer, managed, interrupted>>

\* The package manager runs, unless an install was --download-only.
Manager(r) ==
    /\ pc[r] = "manager"
    /\ \/ managed' = [managed EXCEPT ![r] = TRUE]
       \/ option[r] = "install" /\ UNCHANGED managed
    /\ Goto(r, "rmlist")
    /\ UNCHANGED <<lockVars, list, given, wants, answer, fetched, interrupted>>

\* clean: `apt-get clean', and if it succeeds delete the downloads and the list
\* (or try to: `|| true').
Clean(r) ==
    /\ pc[r] = "clean"
    /\ managed' = [managed EXCEPT ![r] = TRUE]
    /\ list' \in {list, IF MayRemove(r, list.owner) THEN NoList ELSE list}
    /\ Goto(r, "rmlist")
    /\ UNCHANGED <<lockVars, given, wants, answer, fetched, interrupted>>

(***************************************************************************)
(* cleanup_aptfast, run by the EXIT trap of every run that passed          *)
(* _create_lock's first line, whether or not it ever got the lock, and     *)
(* twice after INT or TERM (their trap calls it and then exits).           *)
(***************************************************************************)

\* Mutant: the file goes, what was read of it stays.
RemoveListName(r) ==
    /\ pc[r] = "rmlist"
    /\ list' = [list EXCEPT !.exists = FALSE]
    /\ Goto(r, "unlock")
    /\ UNCHANGED <<lockVars, runVars>>

\* cleanup_dllist: the mv never succeeds (its braces are quoted), so rm -f; a
\* list of another user stays, and the script says so.
RemoveList(r) ==
    /\ pc[r] = "rmlist"
    /\ list' = IF MayRemove(r, list.owner) THEN NoList ELSE list
    /\ Goto(r, "unlock")
    /\ UNCHANGED <<lockVars, runVars>>

\* Mutant: the file is removed first, while the lock is held.
UnlockLater(r) ==
    /\ pc[r] = "unlock"
    /\ Goto(r, "rmlock")
    /\ UNCHANGED <<lockVars, list, runVars>>

\* _remove_lock, first line: flock -u 99.
Unlock(r) ==
    /\ pc[r] = "unlock"
    /\ Release(r)
    /\ Goto(r, "rmlock")
    /\ UNCHANGED <<path, fd, list, runVars>>

\* _remove_lock, second line: rm -f of whatever the path names by now, if the
\* run may.
RemoveLock(r) ==
    /\ pc[r] = "rmlock"
    /\ path' = IF path # None /\ ~MayRemove(r, user[path]) THEN path ELSE None
    /\ interrupted' = [interrupted EXCEPT ![r] = FALSE]
    /\ IF interrupted[r]
       THEN Goto(r, "rmlist") /\ UNCHANGED fd
       ELSE Goto(r, "done") /\ fd' = [fd EXCEPT ![r] = None]
    /\ UNCHANGED <<holder, list, given, wants, answer, fetched, managed>>

(***************************************************************************)
(* Signals                                                                 *)
(***************************************************************************)

\* Mutant: the trap exits without cleaning up.
InterruptExit(r) ==
    /\ "INT" \in Signals
    /\ pc[r] \in Working \cup {"wait"}
    /\ Goto(r, "done")
    /\ Release(r)
    /\ fd' = [fd EXCEPT ![r] = None]
    /\ UNCHANGED <<path, list, runVars>>

\* INT or TERM between two commands, or during the sleep or the read.
Interrupt(r) ==
    /\ "INT" \in Signals
    /\ pc[r] \in Working \cup {"wait"}
    /\ interrupted' = [interrupted EXCEPT ![r] = TRUE]
    /\ Goto(r, "rmlist")
    /\ UNCHANGED <<lockVars, list, given, wants, answer, fetched, managed>>

\* SIGKILL runs no trap.  The script's child (the downloader, the package
\* manager, ...) inherited descriptor 99 and lives on: the lock stays taken
\* until it ends.  Between two children there is none.
Kill(r) ==
    /\ "KILL" \in Signals
    /\ pc[r] \in Working \cup Cleaning \cup {"wait"}
    /\ \/ /\ pc[r] \in Working
          /\ Goto(r, "orphan")
          /\ UNCHANGED <<fd, holder>>
       \/ /\ Goto(r, "killed")
          /\ Release(r)
          /\ fd' = [fd EXCEPT ![r] = None]
    /\ UNCHANGED <<path, list, runVars>>

OrphanEnds(r) ==
    /\ pc[r] = "orphan"
    /\ Goto(r, "killed")
    /\ Release(r)
    /\ fd' = [fd EXCEPT ![r] = None]
    /\ UNCHANGED <<path, list, runVars>>

Step(r) ==
    \/ OpenLock(r)  \/ TakeLock(r)   \/ Check(r)   \/ StartList(r)
    \/ FillList(r)  \/ Ask(r)        \/ Fetch(r)   \/ Manager(r)
    \/ Clean(r)     \/ RemoveList(r) \/ Unlock(r)  \/ RemoveLock(r)
    \/ OrphanEnds(r)

Next == \E r \in Runs : Step(r) \/ Interrupt(r) \/ Kill(r)

Spec == Init /\ [][Next]_vars

\* Every run is a process the kernel schedules; signals need not come.
FairSpec == Spec /\ \A r \in Runs : WF_vars(Step(r))

-----------------------------------------------------------------------------
(***************************************************************************)
(* Properties                                                              *)
(***************************************************************************)

\* Where a run is, for those who only wait for it to end: AptSession's phase.
Phase == [r \in Runs |-> IF pc[r] \in {"start", "wait"} THEN "out"
                         ELSE IF pc[r] \in Critical THEN "in" ELSE "over"]

Session == INSTANCE AptSession WITH phase <- Phase

\* The script gives the scripts above it sessions: two runs are never inside at
\* a time, nor more before one of them is past its session, and once a run has
\* left its session it never is inside again.
IsSession == Session!Spec

\* The lock is there "because we only have one download list file": no two
\* runs are ever between taking the lock and giving it back.
MutualExclusion ==
    \A p, q \in Runs : pc[p] \in Critical /\ pc[q] \in Critical => p = q

\* A downloader is given the packages of its own run and no others, though
\* every run writes the same file; and a run that has packages to download and
\* reaches the package manager has given them to the downloader: no other run
\* emptied the list in between.
DownloadsOwnList ==
    \A r \in Runs :
        /\ fetched[r] \in {{}, {r}}
        /\ managed[r] /\ wants[r] => fetched[r] = {r}

\* Declining the download of an `install' that has packages to fetch means
\* that the package manager is not run either.
DeclineIsFinal ==
    \A r \in Runs : answer[r] = "no" /\ wants[r] => ~managed[r]

\* When every run has ended by itself or by INT/TERM, neither the list nor
\* the lock file is left in /tmp, in whatever order the runs cleaned up and
\* whichever of the files each of them was allowed to remove.
NoDebris ==
    (\A r \in Runs : pc[r] = "done") => path = None /\ ~list.exists

\* Whoever deletes the list or rewrites it has the lock: a run that is still
\* waiting never touches the list of the run it waits for.
OnlyHolderTouchesList ==
    [][\A r \in Runs : list' # list /\ pc'[r] # pc[r] =>
           fd[r] # None /\ holder[fd[r]] = r]_vars

\* A run in the critical section has the flock of the inode its descriptor 99
\* refers to, and no run that has left it has kept one.
LockAccounted ==
    \A r \in Runs :
        /\ pc[r] \in Critical => fd[r] # None /\ holder[fd[r]] = r
        /\ pc[r] \in Ended \cup {"start", "wait", "rmlock"} =>
               \A i \in Runs : holder[i] # r

\* A run that has the lock file open ends: it is never stuck behind a run that
\* has gone, been interrupted or been killed (the lock goes with the descriptor).
EveryRunEnds == \A r \in Runs : (pc[r] = "wait" /\ fd[r] # None) ~> (pc[r] \in Ended)

-----------------------------------------------------------------------------
\* lm-apt-fast, line 229: "create the lock file and lock it, die on failure".
\* A run that could not open the lock file ends.
DiesOnFailure ==
    \A r \in Runs : (pc[r] = "wait" /\ fd[r] = None) ~> (pc[r] \in Ended)
=============================================================================
