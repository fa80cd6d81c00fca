---------------------------- MODULE DefaultApps ----------------------------
(***************************************************************************)
(* The default applications: defaultapplications.cpp and                   *)
(* qml/DefaultApp/Main.qml.                                                *)
(*                                                                         *)
(* The page scans the desktop files once, when it is built, and speaks of  *)
(* an application by its place in one of four lists.  Meanwhile packages   *)
(* are installed and removed, and other programs choose defaults too.      *)
(***************************************************************************)
EXTENDS Naturals, Sequences, SequencesExt

CONSTANTS
    Apps,      \* desktop files that may be installed: the name of the file,
               \* which need not be unique under /usr/share/applications, and
               \* the lists whose test it passes
    NoFile,    \* no default
    MaxChanges \* bound on what installers and other programs do

\* The tests are an else-if chain, in this order.
Tests      == <<"fileManager", "browser", "email", "terminal">>
Categories == ToSet(Tests)

ASSUME AppsAssumption ==
    /\ IsFiniteSet(Apps)
    /\ \A a \in Apps : a.fits \subseteq Categories /\ a.file # NoFile

ASSUME ChangesAssumption == MaxChanges \in Nat

\* What is set for a category, and the one of it that is read.
KeysOf(c) ==
    CASE c = "fileManager" -> {"inode/directory"}
      [] c = "browser"     -> {"x-scheme-handler/http", "x-scheme-handler/https"}
      [] c = "email"       -> {"x-scheme-handler/mailto"}
      [] OTHER             -> {"terminal"}

ReadKey(c) == IF c = "browser" THEN "x-scheme-handler/http"
              ELSE CHOOSE k \in KeysOf(c) : TRUE

Keys  == UNION {KeysOf(c) : c \in Categories}
Files == {a.file : a \in Apps}

VARIABLES
    installed, \* the desktop files there are
    defaults,  \* mimeapps.list, and the terminal of the program's own settings
    viewed,    \* the page exists
    scanned,   \* the page's four lists
    current,   \* currentIndex of the four combo boxes, from 1; 0 is none
    settled,   \* history: whether what is current was read, chosen on the
               \* page, or overruled by another program since
    changes    \* how often an installer or another program did something

appsVars == <<installed, defaults, viewed, scanned, current, settled, changes>>

AppsTypeOK ==
    /\ installed \subseteq Apps
    /\ defaults \in [Keys -> Files \cup {NoFile}]
    /\ viewed \in BOOLEAN
    /\ scanned \in [Categories -> Seq(Apps)]
    /\ current \in [Categories -> Nat]
    /\ \A c \in Categories : current[c] \in 0..Len(scanned[c])
    /\ settled \in [Categories -> {"read", "chosen", "overruled"}]
    /\ changes \in 0..MaxChanges

Nothing == [c \in Categories |-> <<>>]

AppsInit ==
    /\ installed \in SUBSET Apps
    /\ defaults = [k \in Keys |-> NoFile]
    /\ viewed = FALSE
    /\ scanned = Nothing
    /\ current = [c \in Categories |-> 0]
    /\ settled = [c \in Categories |-> "read"]
    /\ changes = 0

-----------------------------------------------------------------------------
\* An application is in one list, that of the first test it passes.
Takes(c, a) ==
    c = Tests[SelectInSeq(Tests, LAMBDA d : d \in a.fits)]

ListOf(c) == {a \in installed : a.fits # {} /\ Takes(c, a)}

\* The scan finds the applications of each list in any order; then the first
\* of the list with the default's name.
OpenApps ==
    /\ ~viewed
    /\ viewed' = TRUE
    /\ \E managers \in SetToSeqs(ListOf("fileManager")), browsers \in SetToSeqs(ListOf("browser")),
          emails \in SetToSeqs(ListOf("email")), terminals \in SetToSeqs(ListOf("terminal")) :
         scanned' = [fileManager |-> managers, browser |-> browsers,
                     email |-> emails, terminal |-> terminals]
    /\ current' = [c \in Categories |->
         SelectInSeq(scanned'[c], LAMBDA a : a.file = defaults[ReadKey(c)])]
    /\ settled' = [c \in Categories |-> "read"]
    /\ UNCHANGED <<installed, defaults, changes>>

CloseApps ==
    /\ viewed
    /\ viewed' = FALSE
    /\ scanned' = Nothing
    /\ current' = [c \in Categories |-> 0]
    /\ settled' = [c \in Categories |-> "read"]
    /\ UNCHANGED <<installed, defaults, changes>>

\* Mutant: the handler of secure links is forgotten.
PickDefaultHttp(c, i) ==
    /\ viewed /\ i \in DOMAIN scanned[c]
    /\ current' = [current EXCEPT ![c] = i]
    /\ defaults' = [defaults EXCEPT ![ReadKey(c)] = scanned[c][i].file]
    /\ settled' = [settled EXCEPT ![c] = "chosen"]
    /\ UNCHANGED <<installed, viewed, scanned, changes>>

\* onActivated of a combo box, then setDefaultBrowser and the like: what the
\* page knows under the index, whether it is still installed or not.
PickDefault(c, i) ==
    /\ viewed /\ i \in DOMAIN scanned[c]
    /\ current' = [current EXCEPT ![c] = i]
    /\ defaults' = [k \in Keys |->
         IF k \in KeysOf(c) THEN scanned[c][i].file ELSE defaults[k]]
    /\ settled' = [settled EXCEPT ![c] = "chosen"]
    /\ UNCHANGED <<installed, viewed, scanned, changes>>

-----------------------------------------------------------------------------
Change == changes < MaxChanges /\ changes' = changes + 1

\* A package comes or goes.
Install(a) ==
    /\ Change
    /\ installed' = IF a \in installed THEN installed \ {a} ELSE installed \cup {a}
    /\ UNCHANGED <<defaults, viewed, scanned, current, settled>>

\* Another program sets a default, or drops it.
OtherPicks(k, f) ==
    /\ Change
    /\ f # defaults[k]
    /\ defaults' = [defaults EXCEPT ![k] = f]
    /\ settled' = [c \in Categories |->
         IF viewed /\ k \in KeysOf(c) THEN "overruled" ELSE settled[c]]
    /\ UNCHANGED <<installed, viewed, scanned, current>>

AppsNext ==
    \/ OpenApps \/ CloseApps
    \/ \E c \in Categories : \E i \in DOMAIN scanned[c] : PickDefault(c, i)
    \/ \E a \in Apps : Install(a)
    \/ \E k \in Keys, f \in Files \cup {NoFile} : OtherPicks(k, f)

AppsSpec == AppsInit /\ [][AppsNext]_appsVars

-----------------------------------------------------------------------------
\* A combo box names the default of its category, whatever was installed or
\* removed since the scan and whatever order the scan had: what it shows is
\* set, for every key if it was chosen here, and if it shows none then no
\* application of its list is the default.  Excepted are the categories
\* another program touched since.
ShownIsDefault ==
    viewed => \A c \in Categories :
        CASE settled[c] = "overruled" -> TRUE
          [] settled[c] = "chosen" ->
               \A k \in KeysOf(c) : defaults[k] = scanned[c][current[c]].file
          [] OTHER ->
               \/ /\ current[c] = 0
                  /\ \A i \in DOMAIN scanned[c] : scanned[c][i].file # defaults[ReadKey(c)]
               \/ /\ current[c] # 0
                  /\ scanned[c][current[c]].file = defaults[ReadKey(c)]
=============================================================================
