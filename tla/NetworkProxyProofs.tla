------------------------ MODULE NetworkProxyProofs ------------------------
(***************************************************************************)
(* NetworkProxy for any set of texts and any bounds: type correctness, the *)
(* condition under which the daemon may be behind the file, and that no    *)
(* half-saved configuration is ever seen.                                  *)
(***************************************************************************)
EXTENDS NetworkProxy, FiniteSetTheorems, TLAPS

LEMMA ConfigTypes ==
  /\ Defaults \in Config
  /\ \A c \in Config : Shown(c) \in Draft
  BY BlankAssumption DEF Defaults, Config, Shown, Draft, Flags

LEMMA ChangedCount ==
  ASSUME NEW c
  PROVE  /\ Cardinality(Changed(c)) \in Nat
         /\ Cardinality(Changed(c)) = 0 <=> Changed(c) = {}
<1>1. IsFiniteSet({"flag", "same", "http", "ftp"})
  <2>1. IsFiniteSet({"flag"}) /\ IsFiniteSet({"same"}) /\ IsFiniteSet({"http"})
        /\ IsFiniteSet({"ftp"})
    BY FS_Singleton
  <2>2. {"flag", "same", "http", "ftp"} =
        ({"flag"} \cup {"same"}) \cup ({"http"} \cup {"ftp"})
    OBVIOUS
  <2>3. IsFiniteSet({"flag"} \cup {"same"}) /\ IsFiniteSet({"http"} \cup {"ftp"})
    BY <2>1, FS_Union
  <2>4. IsFiniteSet(({"flag"} \cup {"same"}) \cup ({"http"} \cup {"ftp"}))
    BY <2>3, FS_Union, Zenon
  <2> QED
    BY <2>2, <2>4, Zenon
<1>2. IsFiniteSet(Changed(c))
  BY <1>1, FS_Subset DEF Changed
<1> QED
  BY <1>2, FS_CardinalityType, FS_EmptySet

\* A setter keeps the type of what it touches and, when it changes memory,
\* leaves a flush posted and a timer running.
LEMMA SetAllKeeps ==
  ASSUME TypeOK, NEW c \in Config, SetAll(c)
  PROVE  /\ mem' \in Config /\ dirty' \in BOOLEAN /\ timers' \in Nat
         /\ timers' >= timers
         /\ mem' # mem => dirty' /\ timers' > 0
         /\ mem' = mem => UNCHANGED <<dirty, timers>>
         /\ dirty => dirty'
<1>1. Cardinality(Changed(c)) \in Nat
  BY ChangedCount
<1>2. c # mem => Changed(c) # {}
  BY DEF Changed, TypeOK, Config
<1>3. c # mem => Cardinality(Changed(c)) > 0
  BY <1>1, <1>2, ChangedCount
<1>4. c = mem => Changed(c) = {} /\ Cardinality(Changed(c)) = 0
  BY ChangedCount DEF Changed
<1>5. mem' = c
  BY DEF SetAll
<1>6. dirty' \in BOOLEAN
  BY Zenon DEF SetAll, TypeOK
<1>7. timers' = timers + Cardinality(Changed(c)) /\ timers \in Nat
  BY DEF SetAll, TypeOK
<1>8. dirty => dirty'
  BY DEF SetAll
<1>9. c # mem => dirty'
  BY <1>2 DEF SetAll
<1>10. c = mem => dirty' = dirty
  BY <1>4, Zenon DEF SetAll, TypeOK
<1> QED
  BY <1>1, <1>3, <1>4, <1>5, <1>6, <1>7, <1>8, <1>9, <1>10

-----------------------------------------------------------------------------
LEMMA TypeStep == TypeOK /\ [Next]_vars => TypeOK'
<1> SUFFICES ASSUME TypeOK, [Next]_vars PROVE TypeOK'
  OBVIOUS
<1>1. CASE OpenPage
  BY <1>1, ConfigTypes DEF OpenPage, TypeOK, daemonVars
<1>2. CASE ClosePage
  BY <1>2 DEF ClosePage, TypeOK, daemonVars
<1>3. ASSUME NEW t \in Text, EditHttp(t) \/ EditFtp(t) \/ ToggleSame(t)
      PROVE  TypeOK'
  <2>1. draft' \in Draft
    BY <1>3 DEF EditHttp, EditFtp, ToggleSame, TypeOK, Draft
  <2>2. needSave' \in BOOLEAN
           /\ UNCHANGED <<mem, dirty, file, timers, open, daemonVars, edits, abandoned>>
    BY <1>3 DEF EditHttp, EditFtp, ToggleSame
  <2> QED
    BY <2>1, <2>2 DEF TypeOK, daemonVars
<1>4. ASSUME NEW f \in Flags, ClickFlag(f) PROVE TypeOK'
  <2>1. [mem EXCEPT !.flag = f] \in Config
    BY DEF TypeOK, Config
  <2> QED
    BY <1>4, <2>1, SetAllKeeps DEF ClickFlag, TypeOK, pageVars, daemonVars
<1>5. CASE Save
  <2>1. [mem EXCEPT !.same = draft.same, !.http = draft.http, !.ftp = draft.ftp]
           \in Config
    BY DEF TypeOK, Config, Draft
  <2>2. mem' \in Config /\ dirty' \in BOOLEAN /\ timers' \in Nat
    BY <1>5, <2>1, SetAllKeeps, Zenon DEF Save
  <2>3. edits' \in Nat
    BY <1>5 DEF Save, TypeOK
  <2>4. needSave' \in BOOLEAN
    BY <1>5, Zenon DEF Save
  <2> QED
    BY <1>5, <2>2, <2>3, <2>4 DEF Save, TypeOK, daemonVars
<1>6. CASE Flush
  BY <1>6 DEF Flush, TypeOK, pageVars, daemonVars
<1>7. CASE UpdateProxy
  <2>1. timers' \in Nat /\ calls' \in Nat
    BY <1>7 DEF UpdateProxy, TypeOK
  <2> QED
    BY <1>7, <2>1 DEF UpdateProxy, TypeOK, pageVars
<1>8. CASE Deliver
  <2>1. calls' \in Nat
    BY <1>8 DEF Deliver, TypeOK
  <2> QED
    BY <1>8, <2>1 DEF Deliver, TypeOK, pageVars
<1>9. CASE DaemonStart
  BY <1>9 DEF DaemonStart, TypeOK, pageVars
<1>10. CASE DaemonStop
  BY <1>10 DEF DaemonStop, TypeOK, pageVars
<1>11. CASE UNCHANGED vars
  BY <1>11 DEF vars, TypeOK, pageVars, daemonVars
<1> QED
  BY <1>1, <1>2, <1>3, <1>4, <1>5, <1>6, <1>7, <1>8, <1>9, <1>10, <1>11 DEF Next

\* Memory, the file and what the daemon runs with are whole configurations, the
\* page's fields a draft, whatever the order of the page's, the event loop's
\* and the daemon's steps.
THEOREM TypeCorrect == Spec => []TypeOK
<1>1. Init => TypeOK
  <2> SUFFICES ASSUME Init PROVE TypeOK
    OBVIOUS
  <2>1. Defaults \in Config /\ Shown(Defaults) \in Draft
    BY ConfigTypes
  <2>2. mem \in Config /\ file \in Config /\ applied \in Config /\ draft \in Draft
    BY <2>1, Zenon DEF Init
  <2> QED
    BY <2>2 DEF Init, TypeOK
<1> QED
  BY <1>1, TypeStep, PTL DEF Spec

-----------------------------------------------------------------------------
(***************************************************************************)
(* Updates                                                                 *)
(***************************************************************************)

\* A posted flush comes with a timer, because the setters make both and only a
\* flush, or the end of the object, takes the first; without a page there is
\* neither; and the file is behind memory only while a flush is posted.
UpdateInv ==
    /\ dirty => timers > 0
    /\ ~open => timers = 0
    /\ open /\ ~dirty => file = mem
    /\ daemonUp /\ applied # file => timers > 0 \/ calls > 0 \/ abandoned

LEMMA UpdateStep == TypeOK /\ UpdateInv /\ [Next]_vars => UpdateInv'
<1> SUFFICES ASSUME TypeOK, UpdateInv, [Next]_vars PROVE UpdateInv'
  OBVIOUS
<1> USE DEF UpdateInv
<1>1. CASE OpenPage
  BY <1>1 DEF OpenPage, TypeOK, daemonVars
<1>2. CASE ClosePage
  BY <1>2 DEF ClosePage, TypeOK, daemonVars
<1>3. ASSUME NEW t \in Text, EditHttp(t) \/ EditFtp(t) \/ ToggleSame(t)
      PROVE  UpdateInv'
  BY <1>3 DEF EditHttp, EditFtp, ToggleSame, daemonVars
<1>4. ASSUME NEW c \in Config, SetAll(c), open,
             UNCHANGED <<file, open, daemonVars, abandoned>>
      PROVE  UpdateInv'
  BY <1>4, SetAllKeeps DEF TypeOK, daemonVars
<1>5. ASSUME NEW f \in Flags, ClickFlag(f) PROVE UpdateInv'
  <2>1. [mem EXCEPT !.flag = f] \in Config
    BY DEF TypeOK, Config
  <2> QED
    BY <1>5, <2>1, <1>4 DEF ClickFlag, pageVars
<1>6. CASE Save
  <2>1. [mem EXCEPT !.same = draft.same, !.http = draft.http, !.ftp = draft.ftp]
           \in Config
    BY DEF TypeOK, Config, Draft
  <2> QED
    BY <1>6, <2>1, <1>4 DEF Save
<1>7. CASE Flush
  BY <1>7 DEF Flush, pageVars, daemonVars
<1>8. CASE UpdateProxy
  BY <1>8 DEF UpdateProxy, TypeOK, pageVars
<1>9. CASE Deliver
  BY <1>9 DEF Deliver, pageVars
<1>10. CASE DaemonStart
  BY <1>10 DEF DaemonStart, pageVars
<1>11. CASE DaemonStop
  BY <1>11 DEF DaemonStop, pageVars
<1>12. CASE UNCHANGED vars
  BY <1>12 DEF vars, pageVars, daemonVars
<1> QED
  BY <1>1, <1>2, <1>3, <1>5, <1>6, <1>7, <1>8, <1>9, <1>10, <1>11, <1>12 DEF Next

LEMMA UpdateAlways == Spec => []UpdateInv
<1>1. Init => UpdateInv
  BY DEF Init, UpdateInv
<1> QED
  BY <1>1, UpdateStep, TypeCorrect, PTL DEF Spec

\* The daemon is behind the file only while a request is on its way, or because
\* a page was destroyed before its timer.
THEOREM StaleOnlyIfAbandoned == Spec => []StaleIsPending
<1>1. UpdateInv => StaleIsPending
  BY DEF UpdateInv, StaleIsPending
<1> QED
  BY <1>1, UpdateAlways, PTL

-----------------------------------------------------------------------------
(***************************************************************************)
(* Whole configurations                                                    *)
(***************************************************************************)
DraftSame == draft.same => draft.ftp = draft.http

LEMMA SameStep ==
  TypeOK /\ SameMeansSame /\ DraftSame /\ [Next]_vars
    => SameMeansSame' /\ DraftSame'
<1> SUFFICES ASSUME TypeOK, SameMeansSame, DraftSame, [Next]_vars
             PROVE  SameMeansSame' /\ DraftSame'
  OBVIOUS
<1> USE DEF SameMeansSame, DraftSame
<1>1. CASE OpenPage
  BY <1>1 DEF OpenPage, Shown, daemonVars
<1>2. CASE ClosePage
  BY <1>2 DEF ClosePage, daemonVars
<1>3. ASSUME NEW t \in Text, EditHttp(t) \/ EditFtp(t) \/ ToggleSame(t)
      PROVE  SameMeansSame' /\ DraftSame'
  BY <1>3 DEF EditHttp, EditFtp, ToggleSame, TypeOK, Draft, daemonVars
<1>4. ASSUME NEW f \in Flags, ClickFlag(f) PROVE SameMeansSame' /\ DraftSame'
  BY <1>4 DEF ClickFlag, SetAll, TypeOK, Config, pageVars, daemonVars
<1>5. CASE Save
  BY <1>5 DEF Save, SetAll, TypeOK, Config, daemonVars
<1>6. CASE Flush
  BY <1>6 DEF Flush, pageVars, daemonVars
<1>7. CASE UpdateProxy
  BY <1>7 DEF UpdateProxy, pageVars
<1>8. CASE Deliver
  BY <1>8 DEF Deliver, pageVars
<1>9. CASE DaemonStart
  BY <1>9 DEF DaemonStart, pageVars
<1>10. CASE DaemonStop
  BY <1>10 DEF DaemonStop, pageVars
<1>11. CASE UNCHANGED vars
  BY <1>11 DEF vars, pageVars, daemonVars
<1> QED
  BY <1>1, <1>2, <1>3, <1>4, <1>5, <1>6, <1>7, <1>8, <1>9, <1>10, <1>11 DEF Next

\* "Also use this proxy for FTP" never stands in memory, in the file or in the
\* daemon beside two different proxies: the Binding keeps the fields equal and
\* the setters of one Save are one step of the event loop.
THEOREM NoHalfSave == Spec => []SameMeansSame
<1>1. Init => SameMeansSame /\ DraftSame
  BY DEF Init, SameMeansSame, DraftSame, Shown, Defaults
<1> QED
  BY <1>1, SameStep, TypeCorrect, PTL DEF Spec

-----------------------------------------------------------------------------
(***************************************************************************)
(* Updates arrive: what DaemonCatchesUp rests on besides fairness.         *)
(***************************************************************************)

\* A timer becomes at most one call.
Work == 2 * timers + calls + (IF dirty THEN 1 ELSE 0)

\* While the page is there and the daemon runs, what is not in effect is on its
\* way, and the event loop or the daemon can take the next step: a posted
\* flush, a timer that is due, a call that has arrived.
OnItsWay ==
    open /\ daemonUp /\ applied # mem /\ ~abandoned =>
        dirty \/ (timers > 0 /\ ~dirty) \/ calls > 0

\* Only the user makes work, and every step of the event loop and every call the
\* daemon handles is a piece of it done.
WorkIsDone ==
    [][/\ edits' = edits => Work' <= Work
       /\ Flush \/ UpdateProxy \/ Deliver => Work' < Work]_vars

LEMMA WorkStep ==
  ASSUME TypeOK, [Next]_vars
  PROVE  /\ edits' = edits => Work' <= Work
         /\ Flush \/ UpdateProxy \/ Deliver => Work' < Work
<1> DEFINE Goal == /\ edits' = edits => Work' <= Work
                   /\ Flush \/ UpdateProxy \/ Deliver => Work' < Work
<1>n. timers \in Nat /\ calls \in Nat /\ dirty \in BOOLEAN
  BY DEF TypeOK
<1>1. CASE Flush
  <2>1. dirty /\ ~dirty' /\ timers' = timers /\ calls' = calls
    BY <1>1 DEF Flush, daemonVars
  <2> QED
    BY <1>n, <2>1 DEF Work
<1>2. CASE UpdateProxy
  <2>1. ~dirty /\ dirty' = dirty /\ timers' = timers - 1 /\ calls' \in {calls, calls + 1}
    BY <1>2 DEF UpdateProxy
  <2>2. CASE calls' = calls
    BY <1>n, <2>1, <2>2 DEF Work
  <2>3. CASE calls' = calls + 1
    BY <1>n, <2>1, <2>3 DEF Work
  <2> QED
    BY <2>1, <2>2, <2>3
<1>3. CASE Deliver
  <2>1. dirty' = dirty /\ timers' = timers /\ calls' = calls - 1
    BY <1>3 DEF Deliver
  <2> QED
    BY <1>n, <2>1 DEF Work
<1>4. ASSUME UNCHANGED <<dirty, timers, calls>> PROVE Work' = Work
  BY <1>4 DEF Work
<1>5. CASE ~(Flush \/ UpdateProxy \/ Deliver)
  <2>1. SUFFICES ASSUME edits' = edits PROVE Work' <= Work
    BY <1>5
  <2>2. Work \in Nat
    BY <1>n DEF Work
  <2>3. CASE ClosePage
    <3>1. timers' = 0 /\ ~dirty' /\ calls' = calls
      BY <2>3 DEF ClosePage, daemonVars
    <3> QED
      BY <1>n, <3>1 DEF Work
  <2>4. CASE DaemonStop
    <3>1. timers' = timers /\ dirty' = dirty /\ calls' = 0
      BY <2>4 DEF DaemonStop
    <3> QED
      BY <1>n, <3>1 DEF Work
  <2>5. CASE OpenPage \/ DaemonStart \/ UNCHANGED vars
    BY <1>4, <2>2, <2>5 DEF OpenPage, DaemonStart, vars, daemonVars
  <2>6. ASSUME NEW t \in Text, EditHttp(t) \/ EditFtp(t) \/ ToggleSame(t)
        PROVE  Work' <= Work
    BY <1>4, <2>2, <2>6 DEF EditHttp, EditFtp, ToggleSame, daemonVars
  <2>7. ASSUME Save \/ \E f \in Flags : ClickFlag(f) PROVE FALSE
    <3>1. edits' = edits + 1 /\ edits \in Nat
      BY <2>7 DEF Save, ClickFlag, TypeOK
    <3> QED
      BY <2>1, <3>1
  <2> QED
    BY <1>5, <2>3, <2>4, <2>5, <2>6, <2>7 DEF Next
<1> QED
  BY <1>1, <1>2, <1>3, <1>5

\* For any texts and any number of edits: an update the user waits for is on its
\* way, every step of the event loop and of the daemon brings it nearer, and
\* nothing but another edit adds to the way.
THEOREM UpdatesArrive == Spec => [](Work \in Nat /\ OnItsWay) /\ WorkIsDone
<1>1. TypeOK /\ UpdateInv => Work \in Nat /\ OnItsWay
  BY DEF TypeOK, UpdateInv, Work, OnItsWay
<1>2. TypeOK /\ [Next]_vars =>
        [/\ edits' = edits => Work' <= Work
         /\ Flush \/ UpdateProxy \/ Deliver => Work' < Work]_vars
  BY WorkStep
<1> QED
  BY <1>1, <1>2, UpdateAlways, TypeCorrect, PTL DEF Spec, WorkIsDone
=============================================================================
