-------------------------- MODULE SettingsInstance --------------------------
(***************************************************************************)
(* One lingmo-settings at a time: main.cpp, application.cpp, and the page  *)
(* navigation of qml/main.qml and qml/SideBar.qml.                         *)
(*                                                                         *)
(* A launch takes the bus name com.lingmo.SettingsUI and becomes the       *)
(* window, or finds it taken and asks the owner to show its module.  The   *)
(* object that answers is registered after the name, answers come from the *)
(* owner's event loop, and the owner may quit at any time.                 *)
(***************************************************************************)
EXTENDS Naturals, Sequences, SequencesExt

CONSTANTS
    Launches,  \* executions of the program
    Names,     \* module names a launch can ask for, listed or not
    NoModule,  \* no -m option
    Listed,    \* the sidebar's entries, in order (SideBar.qml's ListModel)
    Removable, \* entries removed at start when the hardware is missing
    NoOwner    \* the bus name is free

ASSUME ListedAssumption == Listed \in Seq(Names) /\ Listed # <<>>
ASSUME RemovableAssumption == Removable \subseteq Names
ASSUME NoOwnerAssumption == NoOwner \notin Launches
ASSUME NoModuleAssumption == NoModule \notin Names

VARIABLES
    stage,   \* how far each launch is
    module,  \* the -m argument of each launch
    outcome, \* how each launch's request ended
    owner,   \* the launch that owns com.lingmo.SettingsUI, or NoOwner
    object,  \* /SettingsUI is registered
    mailbox, \* switchToPage calls the owner's event loop has yet to handle
    bar,     \* the entries of the sidebar
    index,   \* sideBar.view.currentIndex, counted from 1
    stack    \* the pages of the StackView

busVars == <<owner, object, mailbox>>
navVars == <<bar, index, stack>>
vars == <<stage, module, outcome, busVars, navVars>>

\* Stages of a launch: the first row up to the bus name, the second of the
\* window, the third of a launch that found the name taken.
Stages == {"idle", "register",
           "named", "load", "run", "quit",
           "probe", "call", "wait",
           "done"}
Window   == {"named", "load", "run", "quit"}
Outcomes == {"none", "shown", "refused", "unanswered"}

TypeOK ==
    /\ stage \in [Launches -> Stages]
    /\ module \in [Launches -> Names \cup {NoModule}]
    /\ outcome \in [Launches -> Outcomes]
    /\ owner \in Launches \cup {NoOwner}
    /\ object \in BOOLEAN
    /\ mailbox \in Seq(Launches)
    /\ bar \in Seq(Names)
    /\ index \in 0..Len(bar)
    /\ stack \in Seq(Names) /\ Len(stack) <= 2

Init ==
    /\ stage = [p \in Launches |-> "idle"]
    /\ module \in [Launches -> Names \cup {NoModule}]
    /\ outcome = [p \in Launches |-> "none"]
    /\ owner = NoOwner
    /\ object = FALSE
    /\ mailbox = <<>>
    /\ bar = <<>> /\ index = 0 /\ stack = <<>>

Goto(p, s) == stage' = [stage EXCEPT ![p] = s]
Finish(p, o) ==
    /\ stage' = [stage EXCEPT ![p] = "done"]
    /\ outcome' = [outcome EXCEPT ![p] = o]

-----------------------------------------------------------------------------
(***************************************************************************)
(* Navigation                                                              *)
(***************************************************************************)

\* Mutant: push without pop().
Pushed(pages, page) == Append(pages, page)

\* switchPageFromIndex: pop() keeps the bottom page, then push.
Switched(pages, page) ==
    Append(IF Len(pages) > 1 THEN Front(pages) ELSE pages, page)

\* removeItem: the entry of that name goes, if there is one (the names are
\* distinct).
RemoveItem(entries, name) ==
    IF name \in ToSet(entries)
    THEN RemoveAt(entries, CHOOSE k \in DOMAIN entries : entries[k] = name)
    ELSE entries

\* Mutant: an index counted from the other end of the interval.
SwitchFromNameOff(name, entries, i, pages) ==
    LET at == {k \in DOMAIN entries : entries[k] = name}
    IN  IF at = {} THEN index' = i /\ stack' = pages
        ELSE \E k \in at : index' = k + 1 /\ stack' = Switched(pages, entries[k])

\* Mutant: i < sideBar.model.count - 1.
SwitchFromNameShort(name, entries, i, pages) ==
    LET at == {k \in DOMAIN entries : entries[k] = name /\ k < Len(entries)}
    IN  IF at = {} THEN index' = i /\ stack' = pages
        ELSE \E k \in at : index' = k /\ stack' = Switched(pages, entries[k])

\* switchPageFromName: every entry of that name is switched to and selected;
\* a name that is not listed changes nothing.  (Selecting switches once more
\* to the same page.)
SwitchFromName(name, entries, i, pages) ==
    LET at == {k \in DOMAIN entries : entries[k] = name}
    IN  IF at = {} THEN /\ index' = i
                        /\ stack' = pages
        ELSE \E k \in at : /\ \A j \in at : j <= k
                           /\ index' = k
                           /\ stack' = Switched(pages, entries[k])

-----------------------------------------------------------------------------
(***************************************************************************)
(* main()                                                                  *)
(***************************************************************************)

\* The program starts and parses its options.
Launch(p) ==
    /\ stage[p] = "idle"
    /\ Goto(p, "register")
    /\ UNCHANGED <<module, outcome, busVars, navVars>>

\* registerService: the bus gives the name to one connection.
RegisterService(p) ==
    /\ stage[p] = "register"
    /\ IF owner = NoOwner
       THEN owner' = p /\ Goto(p, "named")
       ELSE Goto(p, "probe") /\ UNCHANGED owner
    /\ UNCHANGED <<module, outcome, object, mailbox, navVars>>

\* Mutant: the object is never registered.
RegisterNothing(p) ==
    /\ stage[p] = "named"
    /\ Goto(p, "load")
    /\ UNCHANGED <<module, outcome, busVars, navVars>>

\* Application's constructor: registerObject.
RegisterObject(p) ==
    /\ stage[p] = "named"
    /\ object' = TRUE
    /\ Goto(p, "load")
    /\ UNCHANGED <<module, outcome, owner, mailbox, navVars>>

\* Application's constructor loads main.qml.  The initial page is the first
\* entry's, before the Component.onCompleted of the three objects that look for
\* hardware remove an entry each (or none); the list view may announce its
\* first currentIndex to a stack that already has it.  Then main() switches to
\* this launch's own module and enters exec().
LoadWindow(p) ==
    /\ stage[p] = "load"
    /\ \E battery, wlan, touchpad \in Removable \cup {NoModule},
          first \in {<<Listed[1]>>, <<Listed[1], Listed[1]>>} :
        /\ bar' = RemoveItem(RemoveItem(RemoveItem(Listed, battery), wlan), touchpad)
        /\ bar' # <<>>
        /\ SwitchFromName(module[p], bar', 1, first)
    /\ Goto(p, "run")
    /\ outcome' = [outcome EXCEPT ![p] = "shown"]
    /\ UNCHANGED <<module, busVars>>

\* Mutant: try until the owner answers.
ProbeAgain(p) ==
    /\ stage[p] = "probe"
    /\ owner # NoOwner /\ object
    /\ Goto(p, "call")
    /\ UNCHANGED <<module, outcome, busVars, navVars>>

\* isValid(): the introspection call fails when there is no owner any more or
\* it has not registered the object yet.  The launch ends without a word.
Probe(p) ==
    /\ stage[p] = "probe"
    /\ IF owner # NoOwner /\ object
       THEN Goto(p, "call") /\ UNCHANGED outcome
       ELSE Finish(p, "refused")
    /\ UNCHANGED <<module, busVars, navVars>>

\* iface.call("switchToPage", module) blocks until the owner answers.
Call(p) ==
    /\ stage[p] = "call"
    /\ IF owner # NoOwner /\ object
       THEN /\ mailbox' = Append(mailbox, p)
            /\ Goto(p, "wait")
            /\ UNCHANGED outcome
       ELSE Finish(p, "refused") /\ UNCHANGED mailbox
    /\ UNCHANGED <<module, owner, object, navVars>>

\* The call times out on this side; the message stays where it is.
Timeout(p) ==
    /\ stage[p] = "wait"
    /\ Finish(p, "unanswered")
    /\ UNCHANGED <<module, busVars, navVars>>

(***************************************************************************)
(* The owner's event loop                                                  *)
(***************************************************************************)

\* Application::switchToPage for the oldest call; its caller, if it still
\* waits, returns.
HandleCall(p) ==
    /\ stage[p] \in {"run", "quit"} /\ owner = p /\ mailbox # <<>>
    /\ LET q == Head(mailbox)
       IN  /\ SwitchFromName(module[q], bar, index, stack)
           /\ IF stage[q] = "wait" THEN Finish(q, "shown")
              ELSE UNCHANGED <<stage, outcome>>
    /\ mailbox' = Tail(mailbox)
    /\ UNCHANGED <<module, owner, object, bar>>

\* A click on the sidebar: only a different entry changes currentIndex.
ClickItem(p, i) ==
    /\ stage[p] = "run" /\ i # index
    /\ index' = i
    /\ stack' = Switched(stack, bar[i])
    /\ UNCHANGED <<stage, module, outcome, busVars, bar>>

\* onClosing accepts and leaves Qt.quit for a later turn of the event loop.
Close(p) ==
    /\ stage[p] = "run"
    /\ Goto(p, "quit")
    /\ UNCHANGED <<module, outcome, busVars, navVars>>

\* Mutant: a caller is left without an answer.
QuitSilently(p) ==
    /\ stage[p] = "quit"
    /\ Goto(p, "done")
    /\ owner' = NoOwner
    /\ object' = FALSE
    /\ UNCHANGED <<module, outcome, mailbox, navVars>>

\* exec() returns and the connection goes: calls not handled yet get an error.
Quit(p) ==
    /\ stage[p] = "quit"
    /\ stage' = [q \in Launches |->
                    IF q = p \/ stage[q] = "wait" THEN "done" ELSE stage[q]]
    /\ outcome' = [q \in Launches |->
                    IF stage[q] = "wait" THEN "unanswered" ELSE outcome[q]]
    /\ owner' = NoOwner
    /\ object' = FALSE
    /\ mailbox' = <<>>
    /\ bar' = <<>> /\ index' = 0 /\ stack' = <<>>
    /\ UNCHANGED module

Step(p) ==
    \/ RegisterService(p) \/ RegisterObject(p) \/ LoadWindow(p)
    \/ Probe(p) \/ Call(p) \/ Timeout(p)
    \/ HandleCall(p) \/ Quit(p)

Next ==
    \E p \in Launches :
        \/ Launch(p) \/ Step(p) \/ Close(p)
        \/ \E i \in DOMAIN bar : ClickItem(p, i)

Spec == Init /\ [][Next]_vars

\* Processes are scheduled and a blocking D-Bus call has a timeout; the user
\* need not click, close or launch anything.
FairSpec == Spec /\ \A p \in Launches : WF_vars(Step(p))

-----------------------------------------------------------------------------
(***************************************************************************)
(* Properties                                                              *)
(***************************************************************************)

\* The window's launch is the owner of the name, calls can only wait in the
\* mailbox of a window that will answer them, and the blocked callers do.
MailboxAnswered ==
    /\ \A p \in Launches : stage[p] \in Window <=> owner = p
    /\ mailbox # <<>> => object
    /\ \A p \in Launches : stage[p] = "wait" => \E k \in DOMAIN mailbox : mailbox[k] = p

\* A request the window took to its event loop and answered has been carried
\* out: a listed module is the one selected after the step that answers.
AnsweredIsShown ==
    [][\A q \in Launches :
         stage[q] = "wait" /\ outcome'[q] = "shown"
             => \/ \A k \in DOMAIN bar : bar[k] # module[q]
                \/ bar'[index'] = module[q] /\ Last(stack') = module[q]]_vars

\* A launch that begins beside a running window gets its module shown there, or
\* waits for an answer until the call times out, as long as that window is not
\* closed: its page is only ever lost between two windows or while one starts.
RunningWindowAnswers ==
    \A p, q \in Launches :
        (stage[p] = "run" /\ stage[q] = "register")
            ~> (stage[p] # "run" \/ outcome[q] \in {"shown", "unanswered"})

\* A launch that got past the bus name ends or becomes the window: a second
\* launch never hangs on a first one that is starting up or quitting.
LaunchSettles ==
    \A p \in Launches : (stage[p] = "register") ~> (stage[p] \in {"run", "done"})
=============================================================================
