--------------------------- MODULE DaemonSettings ---------------------------
(***************************************************************************)
(* A setting of another program: appearance.cpp, accessibility.cpp,        *)
(* powermanager.cpp, fonts/fonts.cpp, background.cpp and language.cpp with *)
(* the pages that show them.                                               *)
(*                                                                         *)
(* An object that lives as long as its page reads the value once, from a   *)
(* settings file or from the daemon that applies it, remembers it, and     *)
(* compares what the user chooses with what it remembers.  The daemon may  *)
(* be absent, may be restarted, and takes values from others too.          *)
(*                                                                         *)
(* Settings do not depend on each other: a behaviour is that of one, of    *)
(* any kind.                                                               *)
(***************************************************************************)
EXTENDS Naturals, Sequences, SequencesExt

CONSTANTS
    MaxValue,  \* values are 1..MaxValue
    Sizes,     \* the values the buttons of a tab bar stand for, ascending
    PointsAre, \* m_fontPointSize of a page that has no daemon to ask
    MaxCalls   \* bound on the asynchronous calls in flight

ASSUME MaxValueAssumption == MaxValue \in Nat
ASSUME SizesAssumption == Sizes \in Seq(1..MaxValue) /\ Sizes # <<>>
ASSUME SizesAscend == \A i, j \in DOMAIN Sizes : i < j => Sizes[i] < Sizes[j]
ASSUME PointsAssumption == PointsAre \in 1..MaxValue
ASSUME MaxCallsAssumption == MaxCalls \in Nat

Values  == 1..MaxValue
Unknown == 0

(***************************************************************************)
(* The kinds.  reads: where the constructor gets the value; owner: who     *)
(* writes the file; waits: call or asyncCall; guarded: the setter returns  *)
(* early on the value it remembers; tabs: chosen with a tab bar of sizes;  *)
(* fallback: the value remembered when there is no daemon to ask.          *)
(***************************************************************************)
\* IconSize of the dock, and its style, direction and visibility.
DockSize  == [reads |-> "file", owner |-> "daemon", waits |-> TRUE,
              guarded |-> TRUE, tabs |-> TRUE, fallback |-> Unknown]
DockStyle == [DockSize EXCEPT !.tabs = FALSE]

\* systemFontPointSize of the theme daemon.
PointSize == [DockSize EXCEPT !.reads = "daemon", !.guarded = FALSE,
                               !.fallback = PointsAre]

\* kwinrc, then KWin's reconfigure.
Effect == [DockStyle EXCEPT !.owner = "program"]

\* The theme file, then applyXResources.
Xft == [Effect EXCEPT !.waits = FALSE]

\* The power manager: timeouts, the two switches, the CPU mode.
IdleTime == [DockStyle EXCEPT !.waits = FALSE]
LidClose == [IdleTime EXCEPT !.guarded = FALSE]
Mode     == [IdleTime EXCEPT !.reads = "daemon"]

\* The path of the picture behind the desktop, and the system's language.
Wallpaper == [Mode EXCEPT !.waits = TRUE]
Language  == [Mode EXCEPT !.guarded = FALSE]

Kinds == {DockSize, DockStyle, PointSize, Effect, Xft, IdleTime, LidClose, Mode,
          Wallpaper, Language}

VARIABLES
    kind,    \* which setting
    open,    \* its page exists
    setting, \* shown: the remembered value; file; effective: the daemon's;
             \* calls: asynchronous calls on their way to the daemon
    up,      \* the daemon is on the bus
    excused  \* history: the page was not told, or could not ask, so that what
             \* it shows need not be what the daemon has

vars == <<kind, open, setting, up, excused>>

\* A file has a value, or the member has an initializer.
HasDefault == kind.reads = "file" \/ kind.fallback # Unknown

TypeOK ==
    /\ kind \in Kinds
    /\ open \in BOOLEAN /\ up \in BOOLEAN /\ excused \in BOOLEAN
    /\ setting \in [shown : Values \cup {Unknown}, file : Values,
                    effective : Values, calls : Seq(Values)]
    /\ open /\ HasDefault => setting.shown # Unknown

Init ==
    /\ kind \in Kinds
    /\ open = FALSE /\ excused = FALSE
    /\ up \in BOOLEAN
    /\ \E v \in Values :
         setting = [shown |-> Unknown, file |-> v, effective |-> v, calls |-> <<>>]

-----------------------------------------------------------------------------
\* Mutant: the smallest size that is larger.
TabIndexNext(v) ==
    IF \E i \in DOMAIN Sizes : v < Sizes[i]
    THEN CHOOSE i \in DOMAIN Sizes : v < Sizes[i] /\ \A j \in 1..i - 1 : Sizes[j] <= v
    ELSE 1

\* currentIndex: the first button that is not too small, or else the first.
TabIndex(v) ==
    IF \E i \in DOMAIN Sizes : v <= Sizes[i]
    THEN CHOOSE i \in DOMAIN Sizes : v <= Sizes[i] /\ \A j \in 1..i - 1 : Sizes[j] < v
    ELSE 1

\* The daemon handles a call: it takes the value and saves it, or it reads the
\* file that the program has written.
Handled(s, v) ==
    IF kind.owner = "program" THEN [s EXCEPT !.effective = s.file]
                              ELSE [s EXCEPT !.effective = v, !.file = v]

\* What the daemon will have when it has handled every call.
Target(s) ==
    IF s.calls = <<>> THEN s.effective
    ELSE IF kind.owner = "program" THEN s.file
    ELSE Last(s.calls)

\* Mutant: reconfigure before sync.
SetUnsynced(s, v) ==
    IF kind.guarded /\ s.shown = v THEN s
    ELSE LET told == IF ~up THEN s
                     ELSE IF kind.waits THEN Handled(s, v)
                     ELSE [s EXCEPT !.calls = Append(@, v)]
         IN  [told EXCEPT !.shown = v,
                          !.file = IF kind.owner = "program" THEN v ELSE @]

\* Mutant: v is compared with what the daemon has, not with what was remembered.
SetCompared(s, v) ==
    IF kind.guarded /\ s.effective = v THEN [s EXCEPT !.shown = v]
    ELSE LET kept == [s EXCEPT !.shown = v,
                               !.file = IF kind.owner = "program" THEN v ELSE @]
         IN  IF ~up THEN kept
             ELSE IF kind.waits THEN Handled(kept, v)
             ELSE [kept EXCEPT !.calls = Append(@, v)]

\* A setter.  Without the daemon the value is remembered all the same.
Set(s, v) ==
    IF kind.guarded /\ s.shown = v THEN s
    ELSE LET kept == [s EXCEPT !.shown = v,
                               !.file = IF kind.owner = "program" THEN v ELSE @]
         IN  IF ~up THEN kept
             ELSE IF kind.waits THEN Handled(kept, v)
             ELSE [kept EXCEPT !.calls = Append(@, v)]

\* The setter does something, and it is not with the daemon.
Missed(s, v) == ~up /\ kind.owner = "daemon" /\ ~(kind.guarded /\ s.shown = v)

-----------------------------------------------------------------------------
\* Mutant: no initializer for the members a missing daemon leaves alone.
ReadUninitialized ==
    IF kind.reads = "file" THEN [setting EXCEPT !.shown = setting.file]
    ELSE IF ~up THEN [setting EXCEPT !.shown = Unknown]
    ELSE [setting EXCEPT !.shown = Target(setting), !.effective = Target(setting),
                         !.file = Target(setting), !.calls = <<>>]

\* The constructor.  Asking the daemon waits for its answer, which comes after
\* the calls sent before.
Read ==
    IF kind.reads = "file" THEN [setting EXCEPT !.shown = setting.file]
    ELSE IF ~up THEN [setting EXCEPT !.shown = kind.fallback]
    ELSE [setting EXCEPT !.shown = Target(setting), !.effective = Target(setting),
                         !.file = Target(setting), !.calls = <<>>]

\* A tab bar starts at its first button: any other index it is bound to is a
\* change, which sets the size that button stands for.
Rounds(s) == kind.tabs /\ TabIndex(s.shown) # 1

OpenPage ==
    /\ ~open
    /\ open' = TRUE
    /\ LET v == Sizes[TabIndex(Read.shown)]
       IN  /\ setting' = IF Rounds(Read) THEN Set(Read, v) ELSE Read
           /\ excused' = \/ kind.reads = "file" /\ kind.owner = "daemon"
                            /\ setting.calls # <<>>
                         \/ kind.reads = "daemon" /\ ~up
                         \/ Rounds(Read) /\ Missed(Read, v)
    /\ UNCHANGED <<kind, up>>

ClosePage ==
    /\ open
    /\ open' = FALSE
    /\ UNCHANGED <<kind, setting, up, excused>>

\* A click on a button, a switch, an entry; on another button of a tab bar.
Choose(v) ==
    /\ open /\ Len(setting.calls) < MaxCalls
    /\ kind.tabs => \E i \in DOMAIN Sizes : i # TabIndex(setting.shown) /\ v = Sizes[i]
    /\ setting' = Set(setting, v)
    /\ excused' = IF kind.guarded /\ setting.shown = v THEN excused
                  ELSE Missed(setting, v)
    /\ UNCHANGED <<kind, open, up>>

-----------------------------------------------------------------------------
(***************************************************************************)
(* The daemon                                                              *)
(***************************************************************************)
Deliver ==
    /\ up /\ setting.calls # <<>>
    /\ setting' = [Handled(setting, Head(setting.calls)) EXCEPT !.calls = Tail(@)]
    /\ UNCHANGED <<kind, open, up, excused>>

\* Another program sets the value, or the daemon's own menu does.
OtherSets(v) ==
    /\ up /\ v # setting.effective
    /\ setting' = [setting EXCEPT !.effective = v, !.file = v]
    /\ excused' = TRUE
    /\ UNCHANGED <<kind, open, up>>

DaemonStart ==
    /\ ~up
    /\ up' = TRUE
    /\ setting' = [setting EXCEPT !.effective = setting.file]
    /\ UNCHANGED <<kind, open, excused>>

\* Calls in flight are lost.
DaemonStop ==
    /\ up
    /\ up' = FALSE
    /\ setting' = [setting EXCEPT !.calls = <<>>]
    /\ excused' = (excused \/ (setting.calls # <<>> /\ kind.owner = "daemon"))
    /\ UNCHANGED <<kind, open>>

Next ==
    \/ OpenPage \/ ClosePage \/ Deliver \/ DaemonStart \/ DaemonStop
    \/ \E v \in Values : Choose(v) \/ OtherSets(v)

Spec == Init /\ [][Next]_vars

\* A running daemon handles the calls it gets.
FairSpec == Spec /\ WF_vars(Deliver)

-----------------------------------------------------------------------------
\* What a page shows is what its running daemon has or is about to get, for
\* every kind of setting and whatever the daemon went through, unless the page
\* could not know: the choice was made without the daemon, another program
\* made one too, or the file was read before the daemon had saved to it.
ShownIsTarget == open /\ up /\ ~excused => setting.shown = Target(setting)

\* A daemon that reads the program's file has the file's value once its calls
\* are handled, through any number of restarts.
FileIsEffective ==
    kind.owner = "program" /\ up /\ setting.calls = <<>> =>
        setting.effective = setting.file

\* To look at a setting does not change it, if it has one of the sizes the
\* page offers; any other size is rounded.
LookingIsHarmless ==
    [][~open /\ open' /\ up /\ (kind.tabs => setting.effective \in ToSet(Sizes)) =>
           Target(setting') = Target(setting)]_vars

\* What a page shows takes effect, if the page and the daemon stay and the user
\* does not choose again.
TakesEffect ==
    \A v \in Values :
        (open /\ up /\ ~excused /\ setting.shown = v)
            ~> (setting.effective = v \/ setting.shown # v \/ ~open \/ ~up \/ excused)
=============================================================================
