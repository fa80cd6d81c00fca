# lingmo-settings in TLA+

Models, checks and proofs for the settings program of LingmoOS (`src/src`) and
for the package scripts it ships (`src/tools`). Every module names the source
it translates in its header; `PROJECT.json` ("map") gives the lines of every
definition.

Contents: [inventory](#inventory), [modules](#modules), [runs](#runs),
[disagreements found](#disagreements-found), [fairness](#fairness),
[proofs](#proofs), [simplifications](#simplifications),
[not modelled](#not-modelled), [plan](#plan).

## Inventory

The repository holds two systems that share nothing but an installer.

**The program** is one Qt process. `main.cpp` takes a bus name; the winner
builds a window, a later launch forwards its `-m` option to it and ends.
`main.qml` keeps a `StackView` of pages; `SideBar.qml` selects one. A page owns
its C++ objects: they are created with the page and destroyed when another
page is chosen. Each of those objects caches values that really live in a
settings file, in a daemon on the session or system bus, or in both. All of it
runs on the GUI thread, one event at a time, except the font thread.

**The scripts** are run by root, by the user or by a graphical front end, any
number of them at once. They share files in `/tmp`, `lm-apt-fast`'s lock and
dpkg's lock.

| component | state | operations | what is hard | what makes it correct |
|---|---|---|---|---|
| `tools/apt-fast/lm-apt-fast` | lock file and its inodes, descriptor 99, the one download list, who owns both files, traps | lock, list, ask, fetch, run the manager, clean up | several runs; INT, TERM, SIGKILL at any point; `rm` of a locked file; children that inherit the lock; a lock file one may not open | one run at a time on the list, each downloader gets its own list, a declined install stays declined, nobody waits forever |
| `tools/lminstall`, `tools/aptlm`, `tools/update-upgrade` | dpkg's database and lock, the `.deb`, the log and status files in `/tmp` | dry run, `dpkg -i`, repair, delete the `.deb`; upgrade with its log, grep and verdict | two locks, one of them not waited for; exit statuses that are overwritten; one log for all upgrades | the `.deb` goes only when its package is whole, the verdict is about the upgrade that leaves it, nobody waits forever |
| `networkproxy.cpp`, `qml/Proxy` | cached settings, unwritten changes, 50 ms timers, text fields, the daemon's configuration | edit, save, radio buttons, flush, ask the daemon | the timer dies with the page; three setters write one logical change; the daemon comes and goes | the daemon ends up with what the page saved; the file never contradicts itself |
| `main.cpp`, `application.cpp`, `main.qml`, `SideBar.qml` | bus name, registered object, queued calls, stack of pages, selected entry | launch, forward, switch page, close | launches that race; an owner that starts or quits while it is called | one window, no caller left hanging, no page lost beside a window that runs |
| `qml/User`, `password.cpp` | the form, the accounts, announcements on their way | add, announce, set password, change, delete | the announcement arrives later and is compared with the form as it is then; other programs add accounts | the confirmed password reaches its account and no other |
| `fontsmodel.cpp`, `qml/Appearance` | two lists, the worker thread, the page's combo boxes | list the fonts, sort, announce, read | a thread writes what the page reads without a lock; the page may be left before the thread ends | a page that stays shows the finished lists |
| `appearance.cpp`, `qml/Dock`, `accessibility.cpp`, `powermanager.cpp`, `fonts/` | one cached value per setting, files of the dock, of KWin, of the theme | setters with an early return, sync, calls to daemons that may be absent | cache, file and daemon drift; tab bars write back while a page is built | shown, stored and effective values agree |
| `datetime/`, `qml/DateTime` | time zone list, selection, cached NTP switch | choose on a map, set, switch NTP | blocking calls, a selection that outlives its dialog | what is set is what is shown |
| `cursor/mouse.cpp`, `touchpad.cpp`, `notifications.cpp`, `brightness.cpp`, the switches of `qml/WLAN` and `qml/Wired` | what a control shows, calls and notifications in flight, the 100 ms brightness timer | switch, slide, read, notify, refresh | a switch that sends back what it was told; a read that blocks behind calls; notifications that start after the read; a timer that dies with the page | a page at rest shows the property, the last decision stands, echoes end |
| `background.cpp`, `language.cpp` | the remembered path and language | choose | as for the dock | shown and effective values agree |
| `defaultapplications.cpp`, `qml/DefaultApp` | four lists read once, an index each, `mimeapps.list` | scan, choose | the lists are stale when they are used; two files of one name | the combo boxes name the defaults |
| `battery.cpp`, `batteryhistorymodel.cpp` | history values | load | one call, one reply: the page never changes what it asks for | the graph is that of the battery |
| `cursor/cursorthememodel.cpp` | the themes found | scan, choose | nothing beyond the call | |
| other pages | none of their own | single calls | nothing beyond the call | |

The repository has no tests and few comments; what the code promises is taken
from its messages and comments where they exist.

## Modules

| module | models | abstract specification |
|---|---|---|
| `AptSession` | what callers may assume of `lm-apt-fast`: a run has at most one session, and has it alone until some run is past its own | it is the abstract specification |
| `AptFast` (`MCAptFast`) | `lm-apt-fast` | implements `AptSession` for any number of runs, without signals (`IsSession`) |
| `PackageTools` | `lminstall`, `aptlm install`, the upgrade worker | calls `lm-apt-fast` through `AptSession`'s own actions |
| `NetworkProxy` | the proxy page, `NetworkProxy`, QSettings, the session daemon | |
| `SettingsInstance` (`MCSettingsInstance`) | `main.cpp`, `application.cpp`, page navigation | |
| `AccountBook` | what the user page promises: adding an account and giving it its password is one step | it is the abstract specification |
| `UserAccounts` | the user page over the accounts service | implements `AccountBook` (`AddIsAtomic`) |
| `DaemonSettings` (`MCDaemonSettings`) | the remembered settings of `appearance.cpp`, `accessibility.cpp`, `powermanager.cpp`, `fonts/fonts.cpp`, `background.cpp`, `language.cpp` and their pages | |
| `FontsModel` | the font thread and the appearance page's lists | |
| `LiveControls` | the switches and sliders that follow a property of a service: mouse, touchpad, brightness, notifications, wireless | |
| `DefaultApps` | the default applications page | |
| `Pages` (`MCPages`) | composes the three above for one run: a behaviour is that of one of them while the others rest, as none touches what another one has | implements the specification of each (`PagesImplementEach`) |
| `AptFastProofs`, `PackageToolsProofs`, `NetworkProxyProofs`, `SettingsInstanceProofs`, `UserAccountsProofs`, `DaemonSettingsProofs`, `LiveControlsProofs`, `PagesProofs` | the theorems | |

**AptFast.** A run is one execution; `pc[r]` is the next command group of it.
`path` is what `/tmp/apt-fast.lock.lock` names, `fd[r]` the inode behind
descriptor 99, `holder[i]` the run whose open descriptor has the flock of
inode i. A path and an inode have to be told apart because `_remove_lock`
unlocks first and removes the path second. `list` remembers whether the list
file exists and whose entries are in it. Both files belong to
the user whose run created them (`user`, the owner in `list`), and `/tmp` is
sticky: another user can neither remove nor write them, root may remove them,
and whether root may write them is the kernel's choice (`MayRemove`, `Opens`).
A run that cannot open the lock file goes on with `fd[r]` = `None` and waits
for ever. The user's answer, apt's failures,
the missing downloader and the socks proxy are nondeterministic. INT and TERM
run `cleanup_aptfast` twice, as the traps do; SIGKILL runs nothing, and while a
child is alive the flock stays (`orphan`).

**PackageTools.** One action per command of `lminstall` and of `upgrade-app`.
`Enter` and `EnterBeside` are `AptSession`'s own: with three runs, one may be
let into `lm-apt-fast` beside another, as `aptfast_three` shows.
`dpkg` is dpkg's own lock: `dpkg -i` fails on it at once, apt waits for it or
gives up. `db` is dpkg's record of each `lminstall`'s package. `log` holds the
upgrades whose error line is in the log, `tee` those that have that file open:
a second `tee` truncates it under the first. `alone` is a history variable that
says which upgrades were undisturbed.

**NetworkProxy.** `mem` is the object, `file` the settings file, `draft` the
text fields, `dirty` the posted flush of QSettings, `timers` the pending
single-shot timers, `calls` the messages to the daemon, `applied` what the
daemon last put into effect. `SetAll` is one handler: every changed setting
starts a timer of its own. `abandoned` is a history variable: a page was
destroyed before its timer.

**SettingsInstance.** `stage` walks each launch through `main()`. `owner`,
`object` and `mailbox` are the bus name, the registered object and the calls
that wait in the owner's event loop; `bar`, `index` and `stack` the side bar,
its selection and the pages; `RemoveItem` is what the side bar does to the
entries whose hardware is missing. It does so after the stack has got its
initial page (`main.qml:73`), so when the first entry goes, the window begins
with a page on top that is not that of the entry selected. `Switched` and `SwitchFromName` are
`switchPageFromIndex` and `switchPageFromName`.

**UserAccounts.** `form` is what is in the three fields, `accounts` the
service's accounts with their passwords, `news` the announcements on their way
to the page, whoever created the account. `promise` is a history variable: the
password confirmed for an account, dropped as soon as the user changes the form,
cancels or leaves before the announcement, or deletes the account. `Passwd`,
`Announced` and `Sure` are what `AccountBook` sees: an account with a promise on
its way has its password there already, and `Disturb` is the user who takes a
hand in it before it is announced.

**FontsModel.** `thread` and `next` are the worker's position in `run()`,
`general` and `fixed` its lists (`Sorted` is any rearrangement in ascending order), `unread` the bindings the page has yet to
evaluate, `posted` the queued `loadFinished`, `seen` what the combo boxes got.
Copying a list while it is written is undefined behaviour: `TornRead` lets the
program die, `ReadList` lets it go on. `CloseFonts` destroys the thread, which
Qt answers with an abort while it runs.

**DaemonSettings.** Twenty setters follow one pattern and differ in a few
respects, which a *kind* lists: where the constructor reads the value, who
writes the file, whether the call waits for its answer, whether the setter
returns early on the value it remembers, and whether a tab bar of sizes shows
it. `Set` is the setter of every kind, `Read` its constructor; a behaviour is
that of one setting of one kind, as settings do not depend on each other.
`shown`, `file` and `effective` are the value in the object, in the settings
file and in the daemon, `calls` the asynchronous calls in flight. `OpenPage`
includes what a tab bar writes back while it is created. `excused` is a history
variable: the page could not know, because it chose without the daemon, another
program chose too, or it read a file that the daemon had yet to save.

**LiveControls.** The other pattern: nothing is cached, the control follows a
property of a service. A *kind* says when the page hears the service's
notifications (before its first read, after it, never, or through a library that
remembers) and on what it calls the service (every change of the control, a
click, press and release, a comparison with a fresh read, a timer, a difference
from what the library remembers). `task` is what the GUI thread is at; in the
tasks of `Blocking` it waits for an answer, which comes after the calls sent
before, so that nothing else of the page runs meanwhile. `calls` and `signals`
are the two directions of the bus. `decided` and `raced` are history variables:
what was decided last, and whether that was a decision that met calls in
flight, was denied or swallowed, or was left with its timer; `missed` says that
nobody will tell the page that the property is another.

**DefaultApps.** `scanned` are the four lists, in any order the directory has,
`current` the combo boxes, `defaults` the entries of `mimeapps.list` (for
browsers those of both schemes, of which the page reads one) and of the
program's own settings for the terminal. `settled` is a history variable: a
category was read, chosen on the page, or overruled by another program since.

## Runs

| run | instance | what it shows |
|---|---|---|
| `aptfast_two` | two runs of any of three users, every option, no signals | the lock excludes (`IsSession`, which leaves two runs no room to overlap), a downloader gets all of its own list and nothing else, before the package manager runs (`DownloadsOwnList`), "no" is final (`DeclineIsFinal`), only the holder writes the list (`OnlyHolderTouchesList`) |
| `aptfast_signals` | two runs of root or a user, every option, INT and SIGKILL at any point | `LockAccounted`, `NoDebris`, and `EveryRunEnds` (of the runs that have the lock file open) behind a holder that was killed |
| `aptfast_three` | three runs, install, no signals | violated: `MutualExclusion` |
| `aptfast_interrupt` | two runs, INT | violated: `OnlyHolderTouchesList` |
| `aptfast_refused` | two runs, of root and of a user | violated: `DiesOnFailure` |
| `package_tools` | one lminstall, two upgrades, clean-log | `LocksAccounted`, `DebKept`, `StatusHonest`, `EveryRunEnds` |
| `package_deleted` | two lminstalls | violated: `DeletedIsInstalled` |
| `network_proxy` | two texts, at most 4 timers, 3 user actions that reach a setter | `StaleIsPending`, `SameMeansSame`, `DaemonCatchesUp` |
| `settings_instance` | three launches, two entries, one of which may be missing | `MailboxAnswered` (one window, which owns the name, and no call left behind), `AnsweredIsShown`, `RunningWindowAnswers`, `LaunchSettles` |
| `user_accounts` | three users (one logged in), two passwords | `PromiseKept`, `FormForgets`, `AddIsAtomic`, `PromiseFulfilled` |
| `daemon_settings` | each of the ten kinds, five values, a tab bar of two sizes, two calls in flight | `ShownIsTarget`, `FileIsEffective`, `LookingIsHarmless`, `TakesEffect` |
| `pages` | fonts: two families, up to three faces in any order | `ViewIsModel`, `ListsComplete`, `FontsAppear` |
| | live controls: each of the seven kinds, six moves of the user and of others | `ShownIsValue`, `DecisionStands`, `Settles` |
| | default applications: any set of four desktop files, three changes by others | `ShownIsDefault` |

Each run of a component also checks its type invariant, except where another run of the same
module does.

Why the bounds are enough:

- *AptFast.* Two runs are the smallest number that contend, and the largest
  for which the lock works: the third breaks it (`aptfast_three`). Root and two
  other users make "my file", "another's file" and "I may remove anything"
  different things; with signals, where states abound, root and one user. Any
  number of runs and users is covered by the proofs of `LockAccounted`,
  `NoDebris`, `DeclineIsFinal`, `OnlyHolderTouchesList` and `IsSession`.
- *PackageTools.* One lminstall and two upgrades cover both locks, dpkg's by
  two kinds of holder, and two tees on one log. `LocksAccounted` and `DebKept`
  are proved for any number of runs.
- *NetworkProxy.* One click changes at most one setting and one Save at most
  three, so `MaxTimers` = 4 admits a Save on top of a pending click, and
  `MaxEdits` = 3 lets a change, its reversal and another change overlap. Two
  texts tell equal from different, which is all the setters look at.
- *SettingsInstance.* Three launches: an owner, one that talks to it and one
  that takes the name when the owner is gone. Two entries, the first removable,
  make the selected entry, the initial page and a name that is not listed
  different things.
- *UserAccounts.* Two names to be added let an announcement of one meet the
  form of the other. Every account is added at most once before it is deleted,
  so the queue of announcements is bounded by the model itself.
- *FontsModel.* Three faces of two families: a repetition, a repetition with
  another family in between, and the order that sorting must change. The
  theorems hold for any number of either.
- *LiveControls.* Six moves open a page, leave it and open it again with two
  decisions of the user and two of another program among them; the theorems
  hold for any number. A switch has two values, a slider two positions: the
  code only tells equal from different.
- *DefaultApps.* The four files are two of one name, one that passes the tests
  of two lists and one of the second of these; three changes install, remove
  and overrule around any number of choices and reopenings; `ShownIsDefault` is
  proved for any files and changes.

- *DaemonSettings.* Five values lie below, at, between and above two sizes;
  the missing daemon's point size lies between them, as 11 does in the code.
  Two calls in flight let a choice be taken back before the first arrives.
  `ShownIsTarget` and `FileIsEffective` are proved for any bounds.

Deadlock is checked except in `AptFast` and `SettingsInstance`, where all runs or
launches may have ended, and in `Pages`, where a control that has used up its
moves rests.

## Disagreements found

- `lm-apt-fast:250`. The flock is given up before the lock file is removed. A
  waiter locks the old inode, the path is removed, and a third run creates and
  locks a new inode: two runs on the one list the comment at 115-116 protects
  (`aptfast_three`).
- `lm-apt-fast:236`. The traps are set before the lock is taken, so Ctrl-C in a
  waiting run deletes the list of the run it waits for (`aptfast_interrupt`).
- `lminstall:102`. `$?` is that of `dpkg -i || aptlm install -yf`. The `.deb` is
  deleted with the message that the installation succeeded when dpkg was busy,
  or refused the file, and the repair had nothing to do (`package_deleted`).
- `lm-apt-fast:232`. A run that needs no root (`download`, `source`,
  `changelog`) cannot open another user's lock file for writing, and root may be
  refused too. bash prints the error of `exec 99>` and goes on, so every
  `flock -xn 99` of line 239 fails and the run waits for ever, against "die on
  failure" in line 229 (`aptfast_refused`).

One more is seen by reading alone. `lminstall:85-86` executes
`try_run_ret="$?"` twice; the second `$?` is the status of the first assignment,
so a dry run that fails stops nothing and the guard of lines 94-97 is never
taken. `TestInstall` goes on whatever the dry run says (`tried`).

Two more outcomes are in the models without a property against them, because
nothing in the repository promises otherwise: a second launch ends silently when
the owner has its name but not its object (`Probe`; `RunningWindowAnswers` says that it does so only between
two windows or while one starts), and leaving the appearance
page while the font thread runs ends the program (`CloseFonts`).

More of what the models show that no comment speaks of, each excepted by name
in the property it would break:

- A brightness chosen in the last 100 ms before the page is left is lost
  (`raced` in `LiveControls!ClosePage`).
- A second click on the wireless switch before the first is announced is
  compared with the library's old value and swallowed; a call NetworkManager
  denies leaves the switch wrong (`Toggle`, `Refuse`).
- The do-not-disturb switch does not hear of a change between its first read
  and the connection of its notifications (`Subscribe`).
- A switch that sends every change echoes what it was told, and the echo may
  undo what another program set meanwhile (`Refresh`, `OtherSets`).
- A choice made while the daemon is away is remembered as made: the setter
  returns early when the user repeats it (`excused` in `DaemonSettings`).
- A default chosen for a file in a subdirectory is stored under its file name,
  which another file may share; the page then shows the first of them.

## Fairness

Only steps the system takes by itself are fair; users, signals, other programs,
launches and daemons that start or stop are not.

- `AptFast`, `PackageTools`: weak fairness of every run's own steps: the kernel
  schedules the process, a user asked a question answers or the read times out,
  and children end. `EnterBeside` of `PackageTools` is not fair: no run can
  count on being let in beside another.
- `NetworkProxy`: the flush, the timers and the delivery of a call: the event
  loop turns and the bus delivers. `DaemonCatchesUp` therefore names the cases
  in which nobody owes anything: page left, daemon gone.
- `SettingsInstance`: each launch's own steps, with the D-Bus timeout that ends
  a blocking call.
- `UserAccounts`: the page handles the announcements that have arrived.
- `DaemonSettings`: a daemon that is on the bus handles the calls it gets.
- `FontsModel`: the worker runs, a page under construction is finished and the
  queued signal is handled.
- `LiveControls`: the event loop handles what has arrived, the timer fires, a
  slider that was grabbed is let go (`Pending`), and the service handles the
  calls it gets (`Serving`). Decisions are not fair: users may stop.
- `DefaultApps` has no liveness: everything it does is done in one handler.

## Proofs

`tlapm` checks every theorem for all values of the constants, under the named
assumptions of the module: distinct sentinels, natural bounds, and for
`DefaultApps` that a scan finds finitely many files (`AppsAssumption`). Every
invariant and action property a run checks is a theorem; the models of the
theorems and of the runs are the same modules.

**Invariants, action properties, refinements**

- **AptFast.** `TypeCorrect`. `LockIsAccounted`: `LockAccounted` alone is not
  inductive, since a run that cleans up holds its lock for two more steps;
  `LockInv` ties `holder` to the steps in `Holding` for every inode. It holds
  under every signal and for any number of runs. `CalmList`: without signals only a
  holder touches the list; `CalmInv` says that nobody is interrupted and that
  whoever cleans up holds its lock. `SameInode`: without signals, until some run is done, whoever has the lock
  file open has the inode the path names, and an inode has one holder.
  `RunsAreSessions`: so every step of any number of runs maps to a step of
  `AptSession` or to a stutter; a run that enters while another one is inside
  has a run past its session to thank for it (`EnterBeside`).
  `TwoRunsExclude`: with two runs there is none left to be past its session, so
  they exclude each other; the third run is exactly what this lacks.
  `EachDownloadsItsOwn`: for two runs without signals too; `ListInv` says whose entries the list
  has at each step between its header and the downloader, which the exclusion
  keeps from the other run. `NoMeansNo` and `NothingIsLeft` need neither: under
  every signal and for any number of runs an answer is only given at the
  question (`AnswerInv`), and whatever is
  in `/tmp` has a run of its owner, or of root, that will still remove it, or
  that was killed (`DebrisInv`).
- **PackageTools.** `LocksAreAccounted`: `LockInv` is the property with
  the types it needs. `DebIsKept`: `WholeInv` says that a run on its way to the deletion
  with `$?` = 0 finds its package configured, whichever run repaired it. `VerdictIsHonest`:
  `VerdictInv` follows the log of an upgrade that is alone from its `tee` to its
  verdict. `TypeCorrect` collects the types these need.
- **NetworkProxy.** `TypeCorrect` (with what `SetAll` does to the number of
  timers as a lemma). `StaleOnlyIfAbandoned`: `UpdateInv` adds that the
  file is behind memory only while the flush is posted, that a flush is posted
  only while a timer is pending, and that without a page there are no timers. `NoHalfSave`: the
  invariant needs the text fields too, which obey the flag before it is saved.
- **SettingsInstance.** `SingleInstance` (never a second window): `OwnerInv` says that a launch is at a
  window's stage exactly if it owns the name. `CallersAreAnswered` adds `MailInv`:
  calls wait only where there is an object, and a waiting launch has its call
  there. `TypeCorrect` splits into `BusType` and `NavType` (the selection is an
  entry; the stack never has more than two pages). `RequestsAreCarriedOut` is an
  action property; `WindowInv` adds that a window that runs has entries to
  select. `RefusedInTheGap`: the object is registered before the window loads
  and stays until it quits (`Registered`), so no request is refused beside a
  window that has begun to load.
- **UserAccounts.** `TypeCorrect`. `ConfirmedIsSet`: the invariant adds `NewsInv`
  (what is announced exists) and `FormInv` (an announced account with a promise
  is the one in the form, with the password that was confirmed). `FormIsCleared`
  (`FormForgets`) follows a name through the queue of announcements.
  `PageKeepsTheBook` (`AddIsAtomic`): every step maps to a step of `AccountBook`
  or to a stutter. `UserAdded` maps to `Appear`, which for an account nobody
  disturbed changes no password; that needs the invariant, and `UnsetInv`, which
  says that an account with a promise still to be announced has no password yet.
- **DaemonSettings.** `TypeCorrect` (that the tab bar's search finds a button
  needs the well-founded order of the naturals), `ShownIsOnItsWay` and
  `FileTakesEffect`, all from `SettingInv`: with or without a page, a daemon
  that owns its file agrees with it, a daemon that is gone has no calls in
  flight, and a page that could know shows the file's value while the daemon is
  gone. `OpeningChangesNothing` (`LookingIsHarmless`) needs that the sizes of a
  tab bar ascend (`SizesAscend`): then the button found for a size is that of
  the size itself, and what the bar writes back is what was there.
- **FontsModel** (in `PagesProofs`). `FontsTypeCorrect`. `FontListsComplete`
  (`ListsComplete`): `FillInv` says that the lists, while they are filled, hold
  exactly what the faces handled so far ask for, without repetition; that sorting
  keeps both is the lemma `SortedFacts`. `PageShowsTheLists` (`ViewIsModel`):
  `BindInv` says where bindings and the signal can be pending, `ReadInv` that a
  binding that was evaluated has the empty lists of a worker that has not begun,
  or the lists of one that is done, or else the signal is pending.
- **DefaultApps** (in `PagesProofs`). `AppsTypeCorrect`. `ComboNamesTheDefault`
  (`ShownIsDefault`) is inductive with the types; it rests on `FirstInList`, what
  the search for the default in a list returns, and on `ScanType`, that a scan
  lists installed files only.
- **Pages.** `PagesImplementEach`: the specification that is run implements that
  of each page, since a step of one page leaves the others' variables alone.
  `PagesAreFairToEach` is the same for the fair specifications, and
  `PagesTypeCorrect` (`TypesOK`) and `PagesShowWhatHolds` carry the pages'
  theorems over. `PagesFairSpec` adds to `PagesSpec` the fairness of each page.
- **LiveControls.** `TypeCorrect`, `ShowsTheValue` and `LastDecisionStands` for
  any number of moves. `LiveInv` says where the truth is while things are in
  flight: the last call is what a page shows (`Sent`), a page with nothing in
  flight shows the property (`Follows`), a library's last notification is the
  property and a switch that differs from the library has sent what it shows or
  will be told (`Library`), and the last decision is the property, the last
  call, or what a timer or a comparison is about to send (`Decides`).

**Coming to rest.** Liveness needs fairness and ENABLED, which stay with TLC.
What carries each liveness property is proved for any instance all the same: a
measure that every step of the system makes smaller, and a statement of which
step is there to be taken as long as the goal has not been reached. What is left
to TLC is that the fair step is taken.

| theorem | carries | measure | who takes the next step |
|---|---|---|---|
| `AptFastProofs!RunsGoOn` | `EveryRunEnds` | steps each run has left, fifteen at most, signals included; a step moves one run and no other (`OneGoesOn`) | a waiting run that has the lock file open has a free lock before it or one held by another run past its own wait (`NobodyStuck`) |
| `PackageToolsProofs!RunsGoOn` | `EveryRunEnds` | the same, nine at most, clean-log apart | whoever waits for a session finds nobody inside, or another run inside that waits for nothing: apt gives up on a lock that is taken, or has it (`NobodyStuck`, from `SessionInv`); several may be inside |
| `NetworkProxyProofs!UpdatesArrive` | `DaemonCatchesUp` | timers count twice, calls and the posted flush once; only an edit adds | flush, timer or call (`OnItsWay`) |
| `SettingsInstanceProofs!LaunchesGoOn` | `LaunchSettles` | the stage of a launch never goes back | a registered object has a window that waits for nobody (`ObjectInv`) |
| `SettingsInstanceProofs!RefusedInTheGap` | `RunningWindowAnswers` | as `LaunchesGoOn` | as `LaunchesGoOn`; the one bad end, a refusal, is excluded beside a window (`Registered`) |
| `UserAccountsProofs!PromisesComeInTurn` | `PromiseFulfilled` | the place of an announcement in the queue | the page, which is there while anything is announced (`Handles`) |
| `DaemonSettingsProofs!ShownTakesItsTurn` | `TakesEffect` | the place of a call in the queue, which later choices do not overtake | the daemon (`CallOnItsWay`) |
| `LiveControlsProofs!EchoesEnd` | `Settles` | calls, signals, echoes, tasks and the timer, weighed | page or service (`CanGoOn`) |
| `PagesProofs!ListsArrive` | `FontsAppear` | faces to handle, boxes to fill, the signal | worker, binding or event loop (`ListsOnTheirWay`) |

**Only model-checked:** the nine liveness properties themselves (`EveryRunEnds`
of both modules, `DaemonCatchesUp`, `RunningWindowAnswers`, `LaunchSettles`, `PromiseFulfilled`,
`TakesEffect`, `Settles`, `FontsAppear`); that a list can be sorted at all, which
takes induction over its length (without it `Sort` could not be taken; TLC
takes it); and what is expected to be violated. Exclusion fails for three runs
(`aptfast_three`), so the theorems that need it (`TwoRunsExclude`,
`EachDownloadsItsOwn`) have two (`AtMostTwo`).

## Simplifications

- A signal during the cleanup of `lm-apt-fast` is not modelled; SIGKILL is.
- `/tmp` is sticky and the files in it are created with a umask that lets nobody
  else write them, as both are by default. No other program
  touches the lock file or the list.
- The runs of `PackageTools` are all root's, as both scripts are run, and no
  other user's lock file is in their way: each of them can open it.
- The URI list, mirrors, checksums and priorities are data; only whose
  entries are in the list matters.
- `tee` of two upgrades on one file: what survives of the log is any subset, as
  both write at their own offset.
- Upgrades change packages other than the lminstalls'; repairs complete or
  remove any unconfigured package.
- The proxy page's host and port are one text; SOCKS and the script URL behave as
  the HTTP text does.
- `setPassword` (`qml/User/Main.qml:49`) is never refused, and the password mode
  set beside it (line 48) is left out.
- A remembered setting is read as it was written: `toInt()` and the
  multiplication by 1.0 in `appearance.cpp` change none of the values the page
  writes, and the system's language is one of the list (`language.cpp:71` gives
  -1 for another). `fonts.cpp:74-75` writes antialiasing and hinting together;
  here each is a setting of its own.
- Page-level objects are destroyed when the page leaves the stack; Qt
  delays this by a turn of the event loop.
- A setting's daemon has one file and one value for it; a value typed into
  KWin's file by hand and not announced is not modelled.
- A daemon of `LiveControls` is on the bus throughout; a slider has two
  positions, and the rounding of its number is left out.
- `DefaultApps` scans at once: what a package manager does during the scan is
  done before or after it. A key has one default, the first of a list, which is
  what the page reads.
- Which of the side bar's removable entries lack their hardware is any choice of
  up to three.
- Which font a combo box selects, account types, pictures and automatic login
  are left out.

## Not modelled

Every component with its status and reason is in `PROJECT.json`. In short:

- The network, bluetooth, sound and screen pages beyond their switches and the
  brightness are views of libraries that are not in this repository: what a
  pairing, a connection or a change of resolution does is decided there.
- Battery: the page shows what the services tell and sends nothing; its history
  model makes one call and gets one reply.
- Time zone, clock and automatic sync: a lookup in a table and single blocking
  calls. `Time::save` sends a relative time computed from a date and time that
  were never set; its value is Qt's and its effect timedated's.
- Cursor themes: a scan and one asynchronous call.
- About, host name, icons: strings read once. The background's type and colour,
  account types, pictures and automatic login: single calls with nothing
  remembered. `language.cpp:32` lacks a comma after `"id_ID"`, so that two
  locales become one string; the list of languages is data here.
- The system update pages are not reachable from the side bar; `KXftConfig`,
  `CScreenManager` and `CScreenOutput` are never constructed; `VPN` is an empty
  stub.
- The `.ts` files of the repository are Qt translation catalogues, which hold no
  logic; the program is C++, QML and shell, and that is what `map` covers.

## Plan

Written, in this order: `AptFast`, `AptSession`, `NetworkProxy`,
`SettingsInstance`, `PackageTools`, `UserAccounts`, `FontsModel`,
`DaemonSettings`, `LiveControls`, `DefaultApps`, `Pages`, `AccountBook`.

What could follow:

1. `DaemonSettings` as a register that takes what is chosen at once while the
   daemon stays up, and `NetworkProxy` likewise, as abstract specifications of
   their own that the pages implement.
2. The pages under the window's page stack, one page alive at a time and the
   services alive throughout: a composition of `Pages`, `UserAccounts` and
   `DaemonSettings` with `SettingsInstance`, in place of their single runs.
