---------------------------- MODULE LiveControls ----------------------------
(***************************************************************************)
(* The switches and sliders that show a property of a running service:     *)
(* cursor/mouse.cpp, touchpad.cpp, notifications.cpp, brightness.cpp, the  *)
(* switches of the network pages, and the QML of their pages.              *)
(*                                                                         *)
(* Calls to the service and its signals are asynchronous and in order; a   *)
(* read of the property blocks the page until the service has handled the  *)
(* calls before it and has answered.  Others set the property too.         *)
(*                                                                         *)
(* Controls do not depend on each other: a behaviour is that of one, of    *)
(* any kind.                                                               *)
(***************************************************************************)
EXTENDS Naturals, Sequences, SequencesExt

CONSTANT MaxMoves \* bound on what the user and other programs do

(***************************************************************************)
(* The kinds.  listens: when the page hears the service's signals, "first" *)
(* before it reads the property, "late" after, "never", or "library": the  *)
(* page shows what a library remembers, which hears them always.  sends:   *)
(* on what it calls the service, every "change" of the control, the user's *)
(* "click", "press" and release, a move that differs from the property by  *)
(* a read to "compare", a "timer" after the move, or a change of the       *)
(* control that "differs" from what the library remembers.                 *)
(***************************************************************************)
Mouse         == [listens |-> "first",   sends |-> "change"]
Touchpad      == [listens |-> "never",   sends |-> "change"]
PointerSpeed  == [listens |-> "never",   sends |-> "press"]
TouchpadSpeed == [listens |-> "never",   sends |-> "compare"]
Brightness    == [listens |-> "never",   sends |-> "timer"]
DoNotDisturb  == [listens |-> "late",    sends |-> "click"]
Wireless      == [listens |-> "library", sends |-> "differs"]

Kinds == {Mouse, Touchpad, PointerSpeed, TouchpadSpeed, Brightness,
          DoNotDisturb, Wireless}

VARIABLES
    kind,    \* which control
    task,    \* what the page is at; it is blocked at a task of Blocking
    shown,   \* the control: whether a switch is on, one of two slider positions
    memory,  \* what the library remembers
    value,   \* the property of the service
    calls,   \* values on their way to the service
    signals, \* its notifications on their way back, with the value they tell
    timer,   \* the brightness timer runs
    moves,   \* how often the user and other programs did something
    missed,  \* history: nobody will tell the page that the property is another
    decided, \* history: what the user or another program set last
    raced    \* history: that was swallowed, refused, or met calls in flight

control == <<task, shown, timer>>
service == <<value, calls, signals>>
past    == <<missed, decided, raced>>
vars    == <<kind, control, memory, service, moves, past>>

Blocking == {"load", "refresh", "compare"}

TypeOK ==
    /\ kind \in Kinds
    /\ task \in {"closed", "subscribe", "idle", "held"} \cup Blocking
    /\ shown \in BOOLEAN /\ memory \in BOOLEAN /\ value \in BOOLEAN
    /\ calls \in Seq(BOOLEAN) /\ signals \in Seq(BOOLEAN)
    /\ timer \in BOOLEAN
    /\ moves \in Nat
    /\ missed \in BOOLEAN /\ decided \in BOOLEAN /\ raced \in BOOLEAN
    /\ timer => kind = Brightness /\ task = "idle"
    /\ signals # <<>> => kind.listens = "library" \/ task # "closed"
    /\ kind.listens = "library" => task \in {"closed", "idle"}

Init ==
    /\ kind \in Kinds
    /\ task = "closed" /\ shown = FALSE /\ timer = FALSE
    /\ value \in BOOLEAN /\ memory = value /\ decided = value
    /\ calls = <<>> /\ signals = <<>>
    /\ moves = 0
    /\ missed = FALSE /\ raced = FALSE

\* A decision of the user or of another program.
Move == moves < MaxMoves /\ moves' = moves + 1

-----------------------------------------------------------------------------
(***************************************************************************)
(* The page                                                                *)
(***************************************************************************)
\* A switch is off until its binding, or Component.onCompleted, has read.
OpenPage ==
    /\ task = "closed"
    /\ Move
    /\ missed' = FALSE
    /\ IF kind.listens = "library"
       THEN task' = "idle" /\ shown' = memory
       ELSE task' = "load" /\ shown' = FALSE
    /\ UNCHANGED <<kind, timer, memory, service, decided, raced>>

\* The first read.  Turning the switch on is a change like any other.
Load ==
    /\ task = "load" /\ calls = <<>>
    /\ task' = IF kind.listens = "late" THEN "subscribe" ELSE "idle"
    /\ shown' = value
    /\ calls' = IF kind.sends = "change" /\ shown' # shown THEN <<shown'>> ELSE calls
    /\ UNCHANGED <<kind, timer, memory, value, signals, moves, past>>

\* Notifications reads before it connects.
Subscribe ==
    /\ task = "subscribe"
    /\ task' = "idle"
    /\ UNCHANGED <<kind, shown, timer, memory, service, moves, past>>

\* Mutant: the timer outlives the page.
ClosePageOnly ==
    /\ task \in {"idle", "held"}
    /\ task' = "closed"
    /\ signals' = IF kind.listens = "library" THEN signals ELSE <<>>
    /\ UNCHANGED <<kind, shown, timer, memory, value, calls, moves, past>>

\* The last brightness goes with the timer; the service handles the calls.
ClosePage ==
    /\ task \in {"idle", "held"}
    /\ task' = "closed" /\ timer' = FALSE
    /\ signals' = IF kind.listens = "library" THEN signals ELSE <<>>
    /\ raced' = (raced \/ timer)
    /\ UNCHANGED <<kind, shown, memory, value, calls, moves, missed, decided>>

\* The user sets the control to v and the page sends it at once.
Send(v) ==
    /\ shown' = v /\ calls' = Append(calls, v)
    /\ missed' = FALSE /\ decided' = v /\ raced' = FALSE

\* A switch is switched.
Click ==
    /\ kind.sends \in {"change", "click"} /\ task = "idle"
    /\ Move /\ Send(~shown)
    /\ UNCHANGED <<kind, task, timer, memory, value, signals>>

\* A change back to what the library remembers is not sent, even though the
\* change before it is on its way.
Toggle ==
    /\ kind.sends = "differs" /\ task = "idle"
    /\ Move
    /\ IF shown = memory
       THEN Send(~shown)
       ELSE /\ shown' = memory
            /\ missed' = FALSE /\ decided' = memory
            /\ raced' = (calls # <<>> \/ signals # <<>>)
            /\ UNCHANGED calls
    /\ UNCHANGED <<kind, task, timer, memory, value, signals>>

\* onPressedChanged: the slider's value is sent when it is grabbed, and again
\* when it is let go, wherever that is.
Press ==
    /\ kind.sends = "press" /\ task = "idle"
    /\ Move /\ Send(shown)
    /\ task' = "held"
    /\ UNCHANGED <<kind, timer, memory, value, signals>>

\* Mutant: sent on press only.
ReleaseSilently(v) ==
    /\ task = "held"
    /\ task' = "idle"
    /\ shown' = v /\ decided' = v
    /\ UNCHANGED <<kind, timer, memory, service, moves, missed, raced>>

Release(v) ==
    /\ task = "held"
    /\ Send(v)
    /\ task' = "idle"
    /\ UNCHANGED <<kind, timer, memory, value, signals, moves>>

\* onMoved of the other two sliders.
Slide ==
    /\ kind.sends \in {"compare", "timer"} /\ task = "idle"
    /\ Move
    /\ shown' = ~shown
    /\ task' = IF kind.sends = "compare" THEN "compare" ELSE task
    /\ timer' = (kind.sends = "timer")
    /\ missed' = FALSE /\ decided' = ~shown /\ raced' = FALSE
    /\ UNCHANGED <<kind, memory, service>>

\* touchpad.pointerAcceleration is read, and set if it is another.
Compare ==
    /\ task = "compare" /\ calls = <<>>
    /\ task' = "idle"
    /\ calls' = IF value = shown THEN calls ELSE <<shown>>
    /\ UNCHANGED <<kind, shown, timer, memory, value, signals, moves, past>>

\* Mutant: what the slider showed when the timer was started.
TriggerEarlier ==
    /\ timer
    /\ timer' = FALSE
    /\ calls' = Append(calls, ~shown)
    /\ UNCHANGED <<kind, task, shown, memory, value, signals, moves, past>>

Trigger ==
    /\ timer
    /\ timer' = FALSE
    /\ calls' = Append(calls, shown)
    /\ UNCHANGED <<kind, task, shown, memory, value, signals, moves, past>>

\* Mutant: the value the signal tells is taken for the property.
NotifiedOf ==
    /\ kind.listens \in {"first", "late"} /\ task = "idle" /\ signals # <<>>
    /\ signals' = Tail(signals)
    /\ shown' = Head(signals)
    /\ missed' = FALSE
    /\ calls' = IF kind.sends = "change" /\ shown' # shown THEN Append(calls, shown')
                                                           ELSE calls
    /\ UNCHANGED <<kind, task, timer, memory, value, moves, decided, raced>>

\* A signal only says that there is something to read.
Notified ==
    /\ kind.listens \in {"first", "late"} /\ task = "idle" /\ signals # <<>>
    /\ signals' = Tail(signals)
    /\ task' = "refresh"
    /\ UNCHANGED <<kind, shown, timer, memory, value, calls, moves, past>>

\* The switch follows; a switch that sends every change sends this one back.
Refresh ==
    /\ task = "refresh" /\ calls = <<>>
    /\ task' = "idle"
    /\ shown' = value
    /\ missed' = FALSE
    /\ calls' = IF kind.sends = "change" /\ shown' # shown THEN <<shown'>> ELSE calls
    /\ UNCHANGED <<kind, timer, memory, value, signals, moves, decided, raced>>

\* The library remembers what the signal tells, and the switch follows, if it
\* is news to the library.
Remember ==
    /\ kind.listens = "library" /\ signals # <<>>
    /\ signals' = Tail(signals)
    /\ memory' = Head(signals)
    /\ IF memory' = memory
       THEN UNCHANGED <<shown, missed>>
       ELSE shown' = memory' /\ missed' = FALSE
    /\ UNCHANGED <<kind, task, timer, value, calls, moves, decided, raced>>

-----------------------------------------------------------------------------
(***************************************************************************)
(* The service                                                             *)
(***************************************************************************)
Listening ==
    CASE kind.listens = "library" -> TRUE
      [] kind.listens = "first"   -> task # "closed"
      [] kind.listens = "late"    -> task \notin {"closed", "load", "subscribe"}
      [] OTHER                    -> FALSE

\* A change is announced; a call that changes nothing may be, too.
Take(v) ==
    /\ value' = v
    /\ \/ Listening /\ signals' = Append(signals, v)
       \/ (v = value \/ ~Listening) /\ UNCHANGED signals

Serve ==
    /\ calls # <<>>
    /\ calls' = Tail(calls)
    /\ Take(Head(calls))
    /\ UNCHANGED <<kind, control, memory, moves, past>>

\* NetworkManager may deny the call.  The answer is not looked at.
Refuse ==
    /\ kind = Wireless /\ calls # <<>>
    /\ calls' = Tail(calls)
    /\ missed' = TRUE /\ raced' = TRUE
    /\ UNCHANGED <<kind, control, memory, value, signals, moves, decided>>

\* A page at rest hears of it or never will.  Calls in flight overtake it.
OtherSets ==
    /\ Move
    /\ Take(~value)
    /\ decided' = ~value
    /\ raced' = (calls # <<>> \/ timer \/ task = "compare")
    /\ missed' = \/ missed
                 \/ ~Listening /\ task \in {"idle", "subscribe"}
                               /\ calls = <<>> /\ ~timer
    /\ UNCHANGED <<kind, control, memory, calls>>

-----------------------------------------------------------------------------
\* What happens without the user or another program.
Reading == Load \/ Subscribe \/ Compare \/ Notified \/ Refresh \/ Remember
Pending == Reading \/ Trigger \/ \E v \in BOOLEAN : Release(v)
Serving == Serve \/ Refuse

Next ==
    \/ OpenPage \/ ClosePage
    \/ Click \/ Toggle \/ Press \/ Slide
    \/ Pending \/ Serving \/ OtherSets

Spec == Init /\ [][Next]_vars

\* The event loop runs, a slider is let go, and the service handles its calls.
FairSpec == Spec /\ WF_vars(Pending) /\ WF_vars(Serving)

-----------------------------------------------------------------------------
Quiet ==
    task \in {"closed", "idle"} /\ calls = <<>> /\ signals = <<>> /\ ~timer

\* An open page at rest shows the property as it is, whatever the order of
\* clicks, calls, signals and reads, unless nobody would tell it: it does not
\* listen, did not listen yet, or its call was denied.
ShownIsValue == task = "idle" /\ Quiet /\ ~missed => shown = value

\* What the user or another program set last stands once everything has come
\* to rest: no echo of an older state undoes it.  Excepted are a decision that
\* met calls in flight, was denied or swallowed, or was left with its timer.
DecisionStands == Quiet /\ ~raced => value = decided

\* The page and the service come to rest when they are left alone: a switch
\* that answers every notification with a call does not keep itself busy.
Settles == <>[]Quiet
=============================================================================
