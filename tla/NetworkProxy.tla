---------------------------- MODULE NetworkProxy ----------------------------
(***************************************************************************)
(* The proxy page (qml/Proxy/Main.qml), the NetworkProxy object behind it  *)
(* (networkproxy.cpp), the settings file both write through QSettings, and *)
(* the session daemon that applies the file when it is told to.            *)
(*                                                                         *)
(* All of the program's steps run on the GUI thread, one event at a time.  *)
(* A setter changes memory, queues the write of the file (QSettings flushes*)
(* it from a posted event) and starts a 50 ms single-shot timer that asks  *)
(* the daemon to reread the file.  The timer belongs to the object: a page *)
(* that is destroyed first takes the timer with it.                        *)
(*                                                                         *)
(* One text stands for a host and its port; SOCKS and the script URL are   *)
(* saved exactly as the HTTP text is and add no behaviour of their own.    *)
(***************************************************************************)
EXTENDS Naturals, FiniteSets

CONSTANTS
    Text,      \* what a text field can hold
    Blank,     \* the empty text
    MaxTimers, \* bound on the single-shot timers pending at a time
    MaxEdits   \* bound on the user actions that reach a setter

ASSUME BlankAssumption == Blank \in Text
ASSUME MaxTimersAssumption == MaxTimers \in Nat
ASSUME MaxEditsAssumption == MaxEdits \in Nat

VARIABLES
    mem,      \* the NetworkProxy object's m_ members (and QSettings' cache)
    dirty,    \* QSettings has a flush event posted
    file,     \* lingmoos/network.conf
    timers,   \* pending QTimer::singleShot(50, this, updateProxy)
    open,     \* the page (with its NetworkProxy) exists
    draft,    \* the text fields and the check box of the page
    needSave, \* proxyItem.needSave: the Save button is there
    calls,    \* updateNetworkProxy messages on their way to the daemon
    daemonUp, \* com.lingmo.Session is on the bus
    applied,  \* the configuration the daemon last put into effect
    edits,    \* user actions so far (bounded by MaxEdits)
    abandoned \* a page went with its timer and nothing has been applied since

pageVars   == <<open, draft, needSave>>
daemonVars == <<calls, daemonUp, applied>>
vars == <<mem, dirty, file, timers, pageVars, daemonVars, edits, abandoned>>

\* 0: no proxy, 2: manual.  (1, the script, has an invisible radio button.)
Flags  == {0, 2}
Config == [flag : Flags, same : BOOLEAN, http : Text, ftp : Text]
Draft  == [same : BOOLEAN, http : Text, ftp : Text]

TypeOK ==
    /\ mem \in Config
    /\ file \in Config
    /\ applied \in Config
    /\ draft \in Draft
    /\ dirty \in BOOLEAN
    /\ open \in BOOLEAN
    /\ needSave \in BOOLEAN
    /\ daemonUp \in BOOLEAN
    /\ abandoned \in BOOLEAN
    /\ timers \in Nat
    /\ calls \in Nat
    /\ edits \in Nat

\* The fallbacks of the constructor's m_settings.value(..).
Defaults == [flag |-> 0, same |-> FALSE, http |-> Blank, ftp |-> Blank]

\* What the page shows of a configuration.
Shown(c) == [same |-> c.same, http |-> c.http, ftp |-> c.ftp]

Init ==
    /\ mem = Defaults /\ file = Defaults /\ applied = Defaults
    /\ draft = Shown(Defaults)
    /\ dirty = FALSE /\ open = FALSE /\ needSave = FALSE /\ abandoned = FALSE
    /\ timers = 0 /\ calls = 0 /\ edits = 0
    /\ daemonUp \in BOOLEAN

-----------------------------------------------------------------------------
(***************************************************************************)
(* The page                                                                *)
(***************************************************************************)

\* NetworkProxy's constructor reads the settings, the bindings show them.
OpenPage ==
    /\ ~open
    /\ open' = TRUE
    /\ mem' = file
    /\ draft' = Shown(file)
    /\ needSave' = FALSE
    /\ UNCHANGED <<dirty, file, timers, daemonVars, edits, abandoned>>

\* Mutant: the object takes one timer with it, whether it has one or not.
ClosePageOne ==
    /\ open
    /\ open' = FALSE
    /\ needSave' = FALSE
    /\ file' = mem
    /\ dirty' = FALSE
    /\ timers' = timers - 1
    /\ abandoned' = (abandoned \/ timers > 0)
    /\ UNCHANGED <<mem, draft, daemonVars, edits>>

\* The page leaves the stack or the program quits: the object dies with its
\* timers, and QSettings' destructor writes what is still unwritten.
ClosePage ==
    /\ open
    /\ open' = FALSE
    /\ needSave' = FALSE
    /\ file' = mem
    /\ dirty' = FALSE
    /\ timers' = 0
    /\ abandoned' = (abandoned \/ timers > 0)
    /\ UNCHANGED <<mem, draft, daemonVars, edits>>

\* Mutant: no Binding.
EditHttpOnly(t) ==
    /\ open /\ mem.flag = 2 /\ t # draft.http
    /\ draft' = [draft EXCEPT !.http = t]
    /\ needSave' = TRUE
    /\ UNCHANGED <<mem, dirty, file, timers, open, daemonVars, edits, abandoned>>

\* The fields are there in manual mode only.  While "Also use this proxy for
\* FTP" is ticked, a Binding keeps the FTP text equal to the HTTP one.
EditHttp(t) ==
    /\ open /\ mem.flag = 2 /\ t # draft.http
    /\ draft' = [draft EXCEPT !.http = t, !.ftp = IF draft.same THEN t ELSE @]
    /\ needSave' = TRUE
    /\ UNCHANGED <<mem, dirty, file, timers, open, daemonVars, edits, abandoned>>

EditFtp(t) ==
    /\ open /\ mem.flag = 2 /\ ~draft.same /\ t # draft.ftp
    /\ draft' = [draft EXCEPT !.ftp = t]
    /\ needSave' = TRUE
    /\ UNCHANGED <<mem, dirty, file, timers, open, daemonVars, edits, abandoned>>

\* Unticking restores some earlier FTP text (Binding.RestoreValue).
ToggleSame(t) ==
    /\ open /\ mem.flag = 2
    /\ draft' = [draft EXCEPT !.same = ~@,
                              !.ftp = IF draft.same THEN t ELSE draft.http]
    /\ needSave' = TRUE
    /\ UNCHANGED <<mem, dirty, file, timers, open, daemonVars, edits, abandoned>>

(***************************************************************************)
(* The setters.  Each compares, assigns, calls QSettings::setValue and     *)
(* starts a timer of its own; several in one handler are one step of the   *)
(* event loop.                                                             *)
(***************************************************************************)
Changed(c) == {k \in {"flag", "same", "http", "ftp"} : c[k] # mem[k]}

\* Mutant: delayUpdateProxy() forgotten.
SetSilently(c) ==
    /\ timers + Cardinality(Changed(c)) <= MaxTimers
    /\ mem' = c
    /\ dirty' = (dirty \/ Changed(c) # {})
    /\ UNCHANGED timers

SetAll(c) ==
    /\ timers + Cardinality(Changed(c)) <= MaxTimers
    /\ mem' = c
    /\ dirty' = (dirty \/ Changed(c) # {})
    /\ timers' = timers + Cardinality(Changed(c))

\* A radio button: takes effect at once, without Save.
ClickFlag(f) ==
    /\ open /\ edits < MaxEdits
    /\ SetAll([mem EXCEPT !.flag = f])
    /\ edits' = edits + 1
    /\ UNCHANGED <<file, pageVars, daemonVars, abandoned>>

\* The Save button.
Save ==
    /\ open /\ needSave /\ mem.flag = 2 /\ edits < MaxEdits
    /\ SetAll([mem EXCEPT !.same = draft.same, !.http = draft.http,
                          !.ftp = draft.ftp])
    /\ needSave' = FALSE
    /\ edits' = edits + 1
    /\ UNCHANGED <<file, open, draft, daemonVars, abandoned>>

(***************************************************************************)
(* The event loop                                                          *)
(***************************************************************************)

\* QSettings' posted UpdateRequest: write the file.
Flush ==
    /\ dirty
    /\ file' = mem
    /\ dirty' = FALSE
    /\ UNCHANGED <<mem, timers, pageVars, daemonVars, edits, abandoned>>

\* Mutant: no delay, the daemon is told before the file is written.
UpdateProxyEarly ==
    /\ timers > 0
    /\ timers' = timers - 1
    /\ calls' = IF daemonUp THEN calls + 1 ELSE calls
    /\ UNCHANGED <<mem, dirty, file, pageVars, daemonUp, applied, edits, abandoned>>

\* updateProxy, when a timer is due.  Posted events go before timers.  Without
\* the daemon on the bus the request is dropped, and nothing repeats it.
UpdateProxy ==
    /\ timers > 0 /\ ~dirty
    /\ timers' = timers - 1
    /\ calls' = IF daemonUp THEN calls + 1 ELSE calls
    /\ UNCHANGED <<mem, dirty, file, pageVars, daemonUp, applied, edits, abandoned>>

(***************************************************************************)
(* The session daemon (not in this repository): applies the file when it   *)
(* starts and whenever updateNetworkProxy arrives.  A call in flight is    *)
(* lost when it goes away.                                                 *)
(***************************************************************************)
Deliver ==
    /\ daemonUp /\ calls > 0
    /\ calls' = calls - 1
    /\ applied' = file
    /\ abandoned' = FALSE
    /\ UNCHANGED <<mem, dirty, file, timers, pageVars, daemonUp, edits>>

DaemonStart ==
    /\ ~daemonUp
    /\ daemonUp' = TRUE
    /\ applied' = file
    /\ abandoned' = FALSE
    /\ UNCHANGED <<mem, dirty, file, timers, pageVars, calls, edits>>

DaemonStop ==
    /\ daemonUp
    /\ daemonUp' = FALSE
    /\ calls' = 0
    /\ UNCHANGED <<mem, dirty, file, timers, pageVars, applied, edits, abandoned>>

Next ==
    \/ OpenPage \/ ClosePage
    \/ \E t \in Text : EditHttp(t) \/ EditFtp(t) \/ ToggleSame(t)
    \/ \E f \in Flags : ClickFlag(f)
    \/ Save
    \/ Flush \/ UpdateProxy
    \/ Deliver \/ DaemonStart \/ DaemonStop

Spec == Init /\ [][Next]_vars

\* The GUI thread's event loop and a running daemon go on; the user need not.
FairSpec ==
    Spec /\ WF_vars(Flush) /\ WF_vars(UpdateProxy) /\ WF_vars(Deliver)

-----------------------------------------------------------------------------
(***************************************************************************)
(* Properties                                                              *)
(***************************************************************************)

\* A running daemon whose configuration is not the file's has a request coming
\* (a timer or a call), unless a page was destroyed within the 50 ms: the only
\* way to lose an update is to leave too soon.
StaleIsPending ==
    daemonUp /\ applied # file => timers > 0 \/ calls > 0 \/ dirty \/ abandoned

\* "Also use this proxy for FTP" is never in effect with two different
\* proxies, though the box and the two texts are three settings written by
\* three setters and read by another process at any time.
SameMeansSame ==
    \A c \in {mem, file, applied} : c.same => c.ftp = c.http

\* What the user last asked for is put into effect, if the page stays open and
\* the daemon stays up.  An update lost by leaving too soon is not made up for
\* until some setting really changes: every setter returns early on an equal
\* value, so choosing the same thing again starts no timer.
DaemonCatchesUp ==
    (open /\ daemonUp /\ applied # mem)
        ~> (applied = mem \/ ~open \/ ~daemonUp \/ abandoned)
=============================================================================
