------------------------ MODULE DaemonSettingsProofs ------------------------
(***************************************************************************)
(* DaemonSettings for any values, sizes and bounds: type correctness, that *)
(* a page which could know shows what its daemon will have, that a daemon  *)
(* that reads the program's file has its value, and that looking at a      *)
(* setting does not change it.                                             *)
(***************************************************************************)
EXTENDS DaemonSettings, SequenceTheorems, WellFoundedInduction, TLAPS

Settings == [shown : Values \cup {Unknown}, file : Values,
             effective : Values, calls : Seq(Values)]

\* What is true of a setting and its daemon, whether or not a page is open.
Sound(s, on) ==
  /\ kind.owner = "daemon" => s.file = s.effective
  /\ ~on => s.calls = <<>>
  /\ kind.waits => s.calls = <<>>
  /\ kind.owner = "program" /\ on /\ s.calls = <<>> => s.effective = s.file

\* What a page that could know shows; without a daemon, what the next one reads.
Shows(s, on) == s.shown = IF on THEN Target(s) ELSE s.file

SettingInv == Sound(setting, up) /\ (open /\ ~excused => Shows(setting, up))

LEMMA KindFacts ==
  ASSUME kind \in Kinds
  PROVE  /\ kind.owner \in {"program", "daemon"} /\ kind.reads \in {"file", "daemon"}
         /\ kind.waits \in BOOLEAN /\ kind.guarded \in BOOLEAN /\ kind.tabs \in BOOLEAN
         /\ kind.fallback \in Values \cup {Unknown}
         /\ kind.fallback # Unknown => kind.fallback \in Values
         /\ kind.owner = "program" => kind.reads = "file"
<1>1. CASE kind = DockSize
  BY <1>1 DEF DockSize, Values, Unknown
<1>2. CASE kind = DockStyle
  BY <1>2 DEF DockStyle, DockSize, Values, Unknown
<1>3. CASE kind = PointSize
  BY <1>3, PointsAssumption DEF PointSize, DockSize, Values, Unknown
<1>4. CASE kind = Effect
  BY <1>4 DEF Effect, DockStyle, DockSize, Values, Unknown
<1>5. CASE kind = Xft
  BY <1>5 DEF Xft, Effect, DockStyle, DockSize, Values, Unknown
<1>6. CASE kind = IdleTime
  BY <1>6 DEF IdleTime, DockStyle, DockSize, Values, Unknown
<1>7. CASE kind = LidClose
  BY <1>7 DEF LidClose, IdleTime, DockStyle, DockSize, Values, Unknown
<1>8. CASE kind \in {Mode, Wallpaper, Language}
  BY <1>8 DEF Wallpaper, Language, Mode, IdleTime, DockStyle, DockSize, Values, Unknown
<1> QED
  BY <1>1, <1>2, <1>3, <1>4, <1>5, <1>6, <1>7, <1>8 DEF Kinds

\* The first button that is not too small exists, if there is any.
LEMMA TabIndexType ==
  ASSUME NEW v \in Values \cup {Unknown}
  PROVE  TabIndex(v) \in DOMAIN Sizes
<1>1. DOMAIN Sizes = 1..Len(Sizes) /\ Len(Sizes) \in Nat /\ Len(Sizes) >= 1
      /\ \A i \in DOMAIN Sizes : Sizes[i] \in Nat
  BY SizesAssumption, MaxValueAssumption
<1>2. v \in Nat
  BY MaxValueAssumption DEF Values, Unknown
<1>3. CASE ~\E i \in DOMAIN Sizes : v <= Sizes[i]
  BY <1>1, <1>3 DEF TabIndex
<1>4. CASE \E i \in DOMAIN Sizes : v <= Sizes[i]
  <2> DEFINE T == {i \in DOMAIN Sizes : v <= Sizes[i]}
  <2>1. T \subseteq Nat /\ T # {}
    BY <1>1, <1>4
  <2>2. PICK x \in T : \A y \in T : ~(<<y, x>> \in OpToRel(<, Nat))
    BY <2>1, WFMin, NatLessThanWellFounded
  <2>3. \A y \in T : ~(y < x)
    BY <2>1, <2>2 DEF OpToRel
  <2>4. \A j \in 1..x - 1 : Sizes[j] < v
    BY <1>1, <1>2, <2>3
  <2> QED
    BY <1>4, <2>4 DEF TabIndex
<1> QED
  BY <1>3, <1>4

LEMMA TargetType ==
  ASSUME kind \in Kinds, NEW s \in Settings
  PROVE  Target(s) \in Values
  BY DEF Target, Settings, Last

\* A setter that does something, with its daemon or on the program's own file,
\* leaves what it shows on its way to the daemon.
LEMMA SetKeeps ==
  ASSUME kind \in Kinds, up \in BOOLEAN, NEW s \in Settings, NEW v \in Values,
         Sound(s, up)
  PROVE  /\ Set(s, v) \in Settings
         /\ Sound(Set(s, v), up)
         /\ kind.guarded /\ s.shown = v => Set(s, v) = s
         /\ ~(kind.guarded /\ s.shown = v) => Set(s, v).shown = v
         /\ ~(kind.guarded /\ s.shown = v) /\ ~Missed(s, v) => Shows(Set(s, v), up)
<1> DEFINE kept == [s EXCEPT !.shown = v,
                             !.file = IF kind.owner = "program" THEN v ELSE @]
<1> s \in [shown : Values \cup {Unknown}, file : Values,
           effective : Values, calls : Seq(Values)]
  BY DEF Settings
<1>1. kept \in Settings /\ kept.shown = v /\ kept.calls = s.calls
      /\ kept.effective = s.effective
      /\ kept.file = IF kind.owner = "program" THEN v ELSE s.file
  BY DEF Settings
<1>2. CASE kind.guarded /\ s.shown = v
  BY <1>2 DEF Set
<1>3. CASE ~(kind.guarded /\ s.shown = v) /\ ~up
  <2>1. Set(s, v) = kept
    BY <1>3 DEF Set
  <2>2. kind.owner = "daemon" => Missed(s, v)
    BY <1>3 DEF Missed
  <2> QED
    BY <1>1, <1>3, <2>1, <2>2, KindFacts DEF Sound, Shows
<1>4. CASE ~(kind.guarded /\ s.shown = v) /\ up /\ kind.waits
  <2>1. Set(s, v) = Handled(kept, v)
    BY <1>4 DEF Set
  <2>2. Set(s, v) = IF kind.owner = "program"
                    THEN [kept EXCEPT !.effective = kept.file]
                    ELSE [kept EXCEPT !.effective = v, !.file = v]
    BY <2>1 DEF Handled
  <2>3. Set(s, v) \in Settings /\ Set(s, v).calls = <<>> /\ Set(s, v).shown = v
        /\ Set(s, v).effective = v /\ Set(s, v).file = v
    <3>1. kept.calls = <<>>
      BY <1>1, <1>4 DEF Sound
    <3> HIDE DEF kept
    <3>2. CASE kind.owner = "program"
      BY <1>1, <2>2, <3>1, <3>2 DEF Settings
    <3>3. CASE kind.owner # "program"
      BY <1>1, <2>2, <3>1, <3>3 DEF Settings
    <3> QED
      BY <3>2, <3>3
  <2> QED
    BY <1>4, <2>3 DEF Sound, Shows, Target
<1>5. CASE ~(kind.guarded /\ s.shown = v) /\ up /\ ~kind.waits
  <2>1. Set(s, v) = [kept EXCEPT !.calls = Append(@, v)]
    BY <1>5 DEF Set
  <2>2. s.calls \in Seq(Values)
    BY DEF Settings
  <2>3. Append(s.calls, v) \in Seq(Values) /\ Append(s.calls, v) # <<>>
        /\ Last(Append(s.calls, v)) = v
    BY <2>2 DEF Last
  <2>4. Set(s, v) \in Settings /\ Set(s, v).calls = Append(s.calls, v)
        /\ Set(s, v).shown = v /\ Set(s, v).effective = s.effective
        /\ Set(s, v).file = kept.file
    BY <1>1, <2>1, <2>3 DEF Settings
  <2> QED
    BY <1>1, <1>5, <2>3, <2>4, KindFacts DEF Sound, Shows, Target
<1> QED
  BY <1>2, <1>3, <1>4, <1>5

\* A page that could know starts with what its daemon has or will have.
LEMMA ReadShows ==
  ASSUME kind \in Kinds, up \in BOOLEAN, setting \in Settings, Sound(setting, up)
  PROVE  /\ Read \in Settings
         /\ Sound(Read, up)
         /\ HasDefault => Read.shown \in Values
         /\ ~(kind.reads = "file" /\ kind.owner = "daemon" /\ setting.calls # <<>>)
              /\ ~(kind.reads = "daemon" /\ ~up) => Shows(Read, up)
<1>1. CASE kind.reads = "file"
  <2>1. Read = [setting EXCEPT !.shown = setting.file]
    BY <1>1 DEF Read
  <2>2. Read \in Settings /\ Read.shown = setting.file /\ Read.file = setting.file
        /\ Read.effective = setting.effective /\ Read.calls = setting.calls
        /\ Read.shown \in Values
    BY <2>1 DEF Settings
  <2> QED
    BY <1>1, <2>2, KindFacts DEF Sound, Shows, Target
<1>2. CASE kind.reads = "daemon" /\ ~up
  <2>1. Read = [setting EXCEPT !.shown = kind.fallback]
    BY <1>2 DEF Read
  <2>2. Read \in Settings /\ Read.shown = kind.fallback /\ Read.file = setting.file
        /\ Read.effective = setting.effective /\ Read.calls = setting.calls
    BY <2>1, KindFacts DEF Settings
  <2> QED
    BY <1>2, <2>2, KindFacts DEF HasDefault, Sound
<1>3. CASE kind.reads = "daemon" /\ up
  <2>1. Read = [setting EXCEPT !.shown = Target(setting), !.effective = Target(setting),
                               !.file = Target(setting), !.calls = <<>>]
    BY <1>3 DEF Read
  <2>2. Read \in Settings /\ Read.shown = Target(setting) /\ Read.calls = <<>>
        /\ Read.file = Target(setting) /\ Read.effective = Target(setting)
        /\ Read.shown \in Values
    <3>1. Target(setting) \in Values
      BY TargetType
    <3>2. <<>> \in Seq(Values)
      OBVIOUS
    <3> QED
      BY <2>1, <3>1, <3>2 DEF Settings
  <2>3. Target(Read) = Target(setting)
    BY <2>2 DEF Target
  <2> QED
    BY <1>3, <2>2, <2>3 DEF Sound, Shows
<1> QED
  BY <1>1, <1>2, <1>3, KindFacts

-----------------------------------------------------------------------------
\* The two ways setting changes on a page.
LEMMA PageSteps ==
  ASSUME TypeOK, SettingInv, NEW v \in Values, OpenPage \/ Choose(v)
  PROVE  TypeOK' /\ SettingInv'
<1> kind' = kind /\ up' = up /\ kind \in Kinds /\ up \in BOOLEAN /\ setting \in Settings
    /\ Sound(setting, up)
  BY DEF TypeOK, SettingInv, Settings, OpenPage, Choose
<1> HasDefault' = HasDefault
  BY DEF HasDefault
<1>1. CASE OpenPage
  <2> DEFINE w == Sizes[TabIndex(Read.shown)]
  <2>1. open' = TRUE /\ setting' = (IF Rounds(Read) THEN Set(Read, w) ELSE Read)
        /\ excused' = (\/ kind.reads = "file" /\ kind.owner = "daemon"
                          /\ setting.calls # <<>>
                       \/ kind.reads = "daemon" /\ ~up
                       \/ Rounds(Read) /\ Missed(Read, w))
    BY <1>1 DEF OpenPage
  <2>2. Read \in Settings /\ Sound(Read, up)
        /\ (HasDefault => Read.shown \in Values)
        /\ (~(kind.reads = "file" /\ kind.owner = "daemon" /\ setting.calls # <<>>)
              /\ ~(kind.reads = "daemon" /\ ~up) => Shows(Read, up))
    BY ReadShows
  <2>3. w \in Values
    <3>1. Read.shown \in Values \cup {Unknown}
      BY <2>2 DEF Settings
    <3>2. TabIndex(Read.shown) \in DOMAIN Sizes
      BY <3>1, TabIndexType
    <3>3. \A i \in DOMAIN Sizes : Sizes[i] \in Values
      <4>1. DOMAIN Sizes = 1..Len(Sizes)
        BY SizesAssumption, LenProperties
      <4> QED
        BY <4>1, SizesAssumption, ElementOfSeq DEF Values
    <3> QED
      BY <3>2, <3>3
  <2> HIDE DEF w
  <2>4. CASE Rounds(Read)
    <3>1. /\ Set(Read, w) \in Settings /\ Sound(Set(Read, w), up)
          /\ kind.guarded /\ Read.shown = w => Set(Read, w) = Read
          /\ ~(kind.guarded /\ Read.shown = w) => Set(Read, w).shown = w
          /\ ~(kind.guarded /\ Read.shown = w) /\ ~Missed(Read, w)
                => Shows(Set(Read, w), up)
      BY <2>2, <2>3, SetKeeps
    <3>2. setting' \in Settings /\ Sound(setting', up)
          /\ (HasDefault => setting'.shown \in Values)
      BY <2>1, <2>2, <2>3, <2>4, <3>1
    <3>3. excused' \/ Shows(setting', up)
      BY <2>1, <2>2, <2>4, <3>1
    <3> QED
      BY <2>1, <3>2, <3>3 DEF TypeOK, SettingInv, Settings, Sound, Shows, Target, Values, Unknown
  <2>5. CASE ~Rounds(Read)
    <3>1. setting' = Read /\ (excused' \/ Shows(setting', up))
      BY <2>1, <2>2, <2>5
    <3> QED
      BY <2>1, <2>2, <3>1 DEF TypeOK, SettingInv, Settings, Sound, Shows, Target, Values, Unknown
  <2> QED
    BY <2>4, <2>5
<1>2. CASE Choose(v)
  <2>1. open /\ open' = open /\ setting' = Set(setting, v)
        /\ excused' = (IF kind.guarded /\ setting.shown = v THEN excused
                       ELSE Missed(setting, v))
    BY <1>2 DEF Choose
  <2>2. /\ setting' \in Settings /\ Sound(setting', up)
        /\ kind.guarded /\ setting.shown = v => setting' = setting
        /\ ~(kind.guarded /\ setting.shown = v) => setting'.shown = v
        /\ ~(kind.guarded /\ setting.shown = v) /\ ~Missed(setting, v)
              => Shows(setting', up)
    BY <2>1, SetKeeps
  <2>3. excused' \/ Shows(setting', up)
    BY <2>1, <2>2 DEF SettingInv
  <2>4. excused' \in BOOLEAN
    BY <2>1 DEF Missed, TypeOK
  <2> QED
    BY <2>1, <2>2, <2>3, <2>4
       DEF TypeOK, SettingInv, Settings, Sound, Shows, Target, Values, Unknown
<1> QED
  BY <1>1, <1>2

\* The steps of the daemon and of what surrounds it.
LEMMA DaemonSteps ==
  ASSUME TypeOK, SettingInv, NEW v \in Values,
         Deliver \/ OtherSets(v) \/ DaemonStart \/ DaemonStop
  PROVE  TypeOK' /\ SettingInv'
<1> kind' = kind /\ open' = open /\ kind \in Kinds /\ up \in BOOLEAN
    /\ setting \in [shown : Values \cup {Unknown}, file : Values,
                    effective : Values, calls : Seq(Values)]
    /\ kind.owner \in {"program", "daemon"} /\ excused \in BOOLEAN /\ open \in BOOLEAN
  BY KindFacts DEF TypeOK, Deliver, OtherSets, DaemonStart, DaemonStop
<1>1. CASE Deliver
  <2>1. up /\ up' = up /\ excused' = excused /\ setting.calls # <<>>
        /\ setting' = [Handled(setting, Head(setting.calls)) EXCEPT !.calls = Tail(@)]
    BY <1>1 DEF Deliver
  <2>2. Head(setting.calls) \in Values /\ Tail(setting.calls) \in Seq(Values)
        /\ (Tail(setting.calls) = <<>> => Last(setting.calls) = Head(setting.calls))
        /\ (Tail(setting.calls) # <<>> => Last(Tail(setting.calls)) = Last(setting.calls))
    <3> DEFINE c == setting.calls
    <3>1. c \in Seq(Values) /\ c # <<>>
      BY <2>1
    <3> HIDE DEF c
    <3>2. Len(c) \in Nat /\ Len(c) >= 1 /\ Head(c) = c[1] /\ Head(c) \in Values
      BY <3>1
    <3>3. Tail(c) \in Seq(Values) /\ Len(Tail(c)) = Len(c) - 1
          /\ \A i \in 1..Len(Tail(c)) : Tail(c)[i] = c[i + 1]
      BY <3>1, HeadTailProperties
    <3>4. Tail(c) = <<>> => Len(c) = 1
      <4>1. Tail(c) = <<>> => Len(Tail(c)) = 0
        BY EmptySeq
      <4> QED
        BY <3>2, <3>3, <4>1
    <3>5. ASSUME Tail(c) # <<>> PROVE Last(Tail(c)) = Last(c)
      <4>1. Len(Tail(c)) \in Nat \ {0}
        BY <3>3, <3>5, EmptySeq
      <4>2. Tail(c)[Len(Tail(c))] = c[Len(Tail(c)) + 1]
        BY <3>3, <4>1
      <4>3. Len(Tail(c)) + 1 = Len(c)
        BY <3>2, <3>3
      <4> QED
        BY <4>2, <4>3, Zenon DEF Last
    <3>6. Tail(c) = <<>> => Last(c) = Head(c)
      BY <3>2, <3>4 DEF Last
    <3> QED
      BY <3>2, <3>3, <3>5, <3>6 DEF c
  <2>3. setting'.shown = setting.shown /\ setting'.calls = Tail(setting.calls)
        /\ setting'.file = (IF kind.owner = "program" THEN setting.file
                            ELSE Head(setting.calls))
        /\ setting'.effective = (IF kind.owner = "program" THEN setting.file
                                 ELSE Head(setting.calls))
        /\ setting' \in Settings
    <3>1. CASE kind.owner = "program"
      BY <2>1, <2>2, <3>1 DEF Handled, Settings
    <3>2. CASE kind.owner # "program"
      BY <2>1, <2>2, <3>2 DEF Handled, Settings
    <3> QED
      BY <3>1, <3>2
  <2>4. ~kind.waits
    BY <2>1 DEF SettingInv, Sound
  <2>5. TypeOK'
    BY <2>1, <2>3 DEF HasDefault, TypeOK, Settings
  <2>6. Sound(setting, up)'
    BY <2>1, <2>3, <2>4 DEF Sound
  <2>7. Target(setting)' = Target(setting)
    BY <2>1, <2>2, <2>3 DEF Target
  <2> QED
    BY <2>1, <2>3, <2>5, <2>6, <2>7 DEF SettingInv, Shows
<1>2. CASE OtherSets(v)
  <2>1. up /\ up' = up /\ excused' = TRUE
        /\ setting' = [setting EXCEPT !.effective = v, !.file = v]
    BY <1>2 DEF OtherSets
  <2> QED
    BY <2>1 DEF HasDefault, TypeOK, SettingInv, Sound
<1>3. CASE DaemonStart
  <2>1. ~up /\ up' = TRUE /\ excused' = excused
        /\ setting' = [setting EXCEPT !.effective = setting.file]
    BY <1>3 DEF DaemonStart
  <2> QED
    BY <2>1 DEF HasDefault, TypeOK, SettingInv, Sound, Shows, Target
<1>4. CASE DaemonStop
  <2>1. up /\ up' = FALSE
        /\ excused' = (excused \/ (setting.calls # <<>> /\ kind.owner = "daemon"))
        /\ setting' = [setting EXCEPT !.calls = <<>>]
    BY <1>4 DEF DaemonStop
  <2>2. <<>> \in Seq(Values)
    OBVIOUS
  <2>3. setting'.shown = setting.shown /\ setting'.calls = <<>>
        /\ setting'.file = setting.file /\ setting'.effective = setting.effective
        /\ setting' \in Settings
    BY <2>1, <2>2 DEF Settings
  <2> QED
    BY <2>1, <2>3 DEF HasDefault, TypeOK, Settings, SettingInv, Sound, Shows, Target
<1> QED
  BY <1>1, <1>2, <1>3, <1>4

-----------------------------------------------------------------------------
LEMMA InvHolds == Spec => [](TypeOK /\ SettingInv)
<1>1. Init => TypeOK /\ SettingInv
  <2> SUFFICES ASSUME Init PROVE TypeOK /\ SettingInv
    OBVIOUS
  <2>1. <<>> \in Seq(Values)
    OBVIOUS
  <2> QED
    <3>1. PICK v \in Values : setting = [shown |-> Unknown, file |-> v,
                                         effective |-> v, calls |-> <<>>]
      BY DEF Init
    <3>2. setting \in Settings
      BY <2>1, <3>1 DEF Settings
    <3>3. kind \in Kinds /\ open = FALSE /\ excused = FALSE /\ up \in BOOLEAN
      BY DEF Init
    <3> QED
      BY <3>1, <3>2, <3>3 DEF TypeOK, Settings, SettingInv, Sound
<1>2. TypeOK /\ SettingInv /\ [Next]_vars => (TypeOK /\ SettingInv)'
  <2> SUFFICES ASSUME TypeOK, SettingInv, [Next]_vars PROVE TypeOK' /\ SettingInv'
    OBVIOUS
  <2>1. CASE OpenPage
    <3>1. PICK v \in Values : TRUE
      BY PointsAssumption DEF Values
    <3> QED
      BY <2>1, <3>1, PageSteps
  <2>2. CASE ClosePage
    BY <2>2 DEF ClosePage, TypeOK, SettingInv, Sound, Shows, Target
  <2>3. CASE Deliver \/ DaemonStart \/ DaemonStop
    <3>1. PICK v \in Values : TRUE
      BY PointsAssumption DEF Values
    <3> QED
      BY <2>3, <3>1, DaemonSteps
  <2>4. ASSUME NEW v \in Values, Choose(v) PROVE TypeOK' /\ SettingInv'
    BY <2>4, PageSteps
  <2>5. ASSUME NEW v \in Values, OtherSets(v) PROVE TypeOK' /\ SettingInv'
    BY <2>5, DaemonSteps
  <2>6. CASE UNCHANGED vars
    BY <2>6 DEF HasDefault, vars, TypeOK, SettingInv, Sound, Shows, Target
  <2> QED
    BY <2>1, <2>2, <2>3, <2>4, <2>5, <2>6 DEF Next
<1> QED
  BY <1>1, <1>2, PTL DEF Spec

\* Every variable keeps its type, for any sizes of the tab bars.
THEOREM TypeCorrect == Spec => []TypeOK
BY InvHolds, PTL

\* A page that could know shows what its running daemon has or is about to
\* get: setters that compare with a remembered value never lose a choice.
THEOREM ShownIsOnItsWay == Spec => []ShownIsTarget
<1>1. SettingInv => ShownIsTarget
  BY DEF SettingInv, ShownIsTarget, Shows
<1> QED
  BY InvHolds, <1>1, PTL

\* KWin and the theme daemon have what the program's file says once their
\* calls are handled, through any restarts.
THEOREM FileTakesEffect == Spec => []FileIsEffective
<1>1. SettingInv => FileIsEffective
  BY DEF SettingInv, FileIsEffective, Sound
<1> QED
  BY InvHolds, <1>1, PTL

(***************************************************************************)
(* Opening a page                                                          *)
(***************************************************************************)

\* A size that has a button gets that button.
LEMMA TabIndexExact ==
  ASSUME NEW v \in Values, v \in ToSet(Sizes)
  PROVE  Sizes[TabIndex(v)] = v
<1>1. DOMAIN Sizes = 1..Len(Sizes) /\ Len(Sizes) \in Nat
      /\ \A i \in DOMAIN Sizes : Sizes[i] \in Nat
  BY SizesAssumption, MaxValueAssumption
<1>2. PICK k \in DOMAIN Sizes : Sizes[k] = v
  BY DEF ToSet
<1>3. v \in Nat /\ k \in Nat
  BY <1>1, <1>2
<1>4. v <= Sizes[k] /\ \A j \in 1..k - 1 : Sizes[j] < v
  BY <1>1, <1>2, <1>3, SizesAscend
<1>5. /\ TabIndex(v) \in DOMAIN Sizes /\ v <= Sizes[TabIndex(v)]
      /\ \A j \in 1..TabIndex(v) - 1 : Sizes[j] < v
  BY <1>2, <1>4 DEF TabIndex
<1>6. TabIndex(v) \in Nat
  BY <1>1, <1>5
<1>7. CASE TabIndex(v) < k
  BY <1>1, <1>2, <1>3, <1>5, <1>6, <1>7, SizesAscend
<1>8. CASE TabIndex(v) > k
  <2>1. k \in 1..TabIndex(v) - 1
    BY <1>1, <1>2, <1>6, <1>8
  <2> QED
    BY <1>2, <1>3, <1>5, <2>1
<1>9. CASE TabIndex(v) = k
  BY <1>2, <1>9
<1> QED
  BY <1>3, <1>6, <1>7, <1>8, <1>9

\* A daemon with no call on its way has its target.
LEMMA QuietTarget ==
  ASSUME NEW s \in Settings, s.calls = <<>>
  PROVE  Target(s) = s.effective
  BY DEF Target

LEMMA TabKinds ==
  ASSUME kind \in Kinds, kind.tabs
  PROVE  kind.waits /\ kind.owner = "daemon"
<1>1. CASE kind = DockSize
  BY <1>1 DEF DockSize
<1>2. CASE kind = DockStyle
  BY <1>2 DEF DockStyle, DockSize
<1>3. CASE kind = PointSize
  BY <1>3 DEF PointSize, DockSize
<1>4. CASE kind = Effect
  BY <1>4 DEF Effect, DockStyle, DockSize
<1>5. CASE kind = Xft
  BY <1>5 DEF Xft, Effect, DockStyle, DockSize
<1>6. CASE kind = IdleTime
  BY <1>6 DEF IdleTime, DockStyle, DockSize
<1>7. CASE kind = LidClose
  BY <1>7 DEF LidClose, IdleTime, DockStyle, DockSize
<1>8. CASE kind \in {Mode, Wallpaper, Language}
  BY <1>8 DEF Wallpaper, Language, Mode, IdleTime, DockStyle, DockSize
<1> QED
  BY <1>1, <1>2, <1>3, <1>4, <1>5, <1>6, <1>7, <1>8 DEF Kinds

\* To set what a daemon has, before any other call, changes nothing for it.
LEMMA SetSame ==
  ASSUME kind \in Kinds, kind.tabs, NEW s \in Settings, s.calls = <<>>, up
  PROVE  Target(Set(s, s.effective)) = s.effective
<1> DEFINE v == s.effective
           kept == [s EXCEPT !.shown = v,
                             !.file = IF kind.owner = "program" THEN v ELSE @]
<1>1. kept.calls = <<>> /\ kept.effective = v /\ kept \in Settings
  BY DEF Settings
<1>2. Set(s, v) = s \/ Set(s, v) = Handled(kept, v)
  BY TabKinds DEF Set
<1> HIDE DEF kept
<1>3. Handled(kept, v) = [kept EXCEPT !.effective = v, !.file = v]
  BY TabKinds DEF Handled
<1>4. Handled(kept, v).calls = <<>> /\ Handled(kept, v).effective = v
  BY <1>1, <1>3 DEF Settings
<1>5. Handled(kept, v) \in Settings
  BY <1>1, <1>3 DEF Settings
<1>6. Target(s) = v /\ Target(Handled(kept, v)) = v
  BY <1>4, <1>5, QuietTarget
<1> QED
  BY <1>2, <1>6

\* Whatever the kind of setting, the values and the calls in flight: opening a
\* page leaves its daemon with the value it would have had, unless the value
\* is none of the sizes of a tab bar.
THEOREM OpeningChangesNothing == Spec => LookingIsHarmless
<1>1. ASSUME TypeOK, SettingInv, [Next]_vars, ~open, open', up,
             kind.tabs => setting.effective \in ToSet(Sizes)
      PROVE  Target(setting') = Target(setting)
  <2> DEFINE w == Sizes[TabIndex(Read.shown)]
  <2>1. OpenPage
    BY <1>1 DEF Next, ClosePage, Choose, Deliver, OtherSets, DaemonStart,
                DaemonStop, vars
  <2>2. setting' = (IF Rounds(Read) THEN Set(Read, w) ELSE Read) /\ kind' = kind
    BY <2>1 DEF OpenPage
  <2>3. kind \in Kinds /\ setting \in Settings /\ Sound(setting, up)
    BY <1>1 DEF TypeOK, SettingInv, Settings
  <2> HIDE DEF w
  <2>4. Target(Read) = Target(setting) /\ Read \in Settings
    <3>1. CASE kind.reads = "file"
      <4>1. Read.file = setting.file /\ Read.calls = setting.calls
            /\ Read.effective = setting.effective
        BY <2>3, <3>1 DEF Read, Settings
      <4> QED
        BY <1>1, <2>3, <4>1, ReadShows DEF Target, TypeOK
    <3>2. CASE kind.reads # "file"
      <4>1. Read.effective = Target(setting) /\ Read.calls = <<>>
        BY <1>1, <2>3, <3>2 DEF Read, Settings
      <4>2. Read \in Settings
        BY <1>1, <2>3, ReadShows DEF TypeOK
      <4>3. Target(Read) = Read.effective
        BY <4>1, <4>2, QuietTarget
      <4> QED
        BY <4>1, <4>2, <4>3
    <3> QED
      BY <3>1, <3>2
  <2>5. CASE ~Rounds(Read)
    BY <2>2, <2>4, <2>5 DEF Target
  <2>6. CASE Rounds(Read)
    <3>1. kind.tabs /\ setting.calls = <<>> /\ setting.file = setting.effective
      BY <2>3, <2>6, TabKinds DEF Rounds, Sound
    <3>2. Target(setting) = setting.effective
      BY <3>1 DEF Target
    <3>3. Read.shown = setting.effective /\ Read.effective = setting.effective
          /\ Read.calls = <<>>
      BY <1>1, <2>3, <3>1, <3>2 DEF Read, Settings
    <3>4. w = setting.effective
      BY <1>1, <2>3, <3>1, <3>3, TabIndexExact DEF w, Settings
    <3>5. Target(Set(Read, w)) = setting.effective
      BY <1>1, <2>3, <2>4, <3>1, <3>3, <3>4, SetSame
    <3>6. Target(setting') = Target(Set(Read, w))
      BY <2>2, <2>6
    <3> QED
      BY <3>2, <3>5, <3>6
  <2> QED
    BY <2>5, <2>6
<1>2. TypeOK /\ SettingInv /\ [Next]_vars =>
        [~open /\ open' /\ up /\ (kind.tabs => setting.effective \in ToSet(Sizes)) =>
           Target(setting') = Target(setting)]_vars
  BY <1>1
<1> QED
  BY <1>2, InvHolds, PTL DEF Spec, LookingIsHarmless

(***************************************************************************)
(* What is shown takes effect: what TakesEffect rests on besides the       *)
(* fairness of the daemon.                                                 *)
(***************************************************************************)

\* The k-th call, when the daemon handles it, puts into effect what is shown.
Settles(k) ==
    /\ k \in DOMAIN setting.calls
    /\ kind.owner = "program" \/ setting.calls[k] = setting.shown

\* A page that could know waits only for a call that is on its way.
CallOnItsWay ==
    open /\ up /\ ~excused /\ setting.effective # setting.shown =>
        \E k \in DOMAIN setting.calls : Settles(k)

\* Such a call keeps its place or gets one place nearer, and does its work when
\* it is its turn, unless the user, the page, the daemon or another program
\* intervenes; whatever is chosen meanwhile queues up behind it.
CallsInTurn ==
    [][\A k \in DOMAIN setting.calls :
         Settles(k) /\ open /\ up /\ ~excused =>
           \/ ~open' \/ ~up' \/ excused' \/ setting'.shown # setting.shown
           \/ ~Deliver /\ Settles(k)'
           \/ Deliver /\ k > 1 /\ Settles(k - 1)'
           \/ Deliver /\ k = 1 /\ setting'.effective = setting.shown]_vars

LEMMA QueueFacts ==
  ASSUME NEW c \in Seq(Values), NEW k \in DOMAIN c
  PROVE  /\ \A v \in Values : k \in DOMAIN Append(c, v) /\ Append(c, v)[k] = c[k]
         /\ k \in Nat /\ k >= 1 /\ c # <<>> /\ Len(c) \in Nat /\ Len(c) >= 1
         /\ k = 1 => Head(c) = c[k]
         /\ k # 1 => k > 1 /\ k - 1 \in DOMAIN Tail(c) /\ Tail(c)[k - 1] = c[k]
<1>1. DOMAIN c = 1..Len(c) /\ Len(c) \in Nat /\ k \in 1..Len(c)
  OBVIOUS
<1>2. k \in Nat /\ k >= 1 /\ Len(c) >= 1 /\ c # <<>>
  BY <1>1
<1>3. ASSUME NEW v \in Values
      PROVE  k \in DOMAIN Append(c, v) /\ Append(c, v)[k] = c[k]
  BY <1>1, AppendProperties
<1>4. k = 1 => Head(c) = c[k]
  BY <1>2
<1>5. ASSUME k # 1
      PROVE  k > 1 /\ k - 1 \in DOMAIN Tail(c) /\ Tail(c)[k - 1] = c[k]
  <2>1. Len(Tail(c)) = Len(c) - 1 /\ DOMAIN Tail(c) = 1..Len(Tail(c))
        /\ \A i \in 1..Len(Tail(c)) : Tail(c)[i] = c[i + 1]
    BY <1>2, HeadTailProperties
  <2>2. k - 1 \in 1..Len(Tail(c)) /\ (k - 1) + 1 = k /\ k > 1
    BY <1>1, <1>2, <1>5, <2>1
  <2> QED
    BY <2>1, <2>2
<1> QED
  BY <1>1, <1>2, <1>3, <1>4, <1>5

LEMMA TurnStep ==
  ASSUME TypeOK, SettingInv, [Next]_vars, NEW k \in DOMAIN setting.calls,
         Settles(k), open, up, ~excused,
         open', up', ~excused', setting'.shown = setting.shown
  PROVE  \/ ~Deliver /\ Settles(k)'
         \/ Deliver /\ k > 1 /\ Settles(k - 1)'
         \/ Deliver /\ k = 1 /\ setting'.effective = setting.shown
<1> DEFINE c == setting.calls
<1>1. /\ c \in Seq(Values) /\ kind \in Kinds
      /\ setting \in [shown : Values \cup {Unknown}, file : Values,
                      effective : Values, calls : Seq(Values)]
  BY DEF TypeOK
<1>2. /\ c # <<>> /\ k >= 1 /\ k \in Nat
      /\ \A v \in Values : k \in DOMAIN Append(c, v) /\ Append(c, v)[k] = c[k]
      /\ k = 1 => Head(c) = c[k]
      /\ k # 1 => k > 1 /\ k - 1 \in DOMAIN Tail(c) /\ Tail(c)[k - 1] = c[k]
  BY <1>1, QueueFacts
<1>3. CASE Deliver
  <2>1. kind' = kind
        /\ setting' = [Handled(setting, Head(c)) EXCEPT !.calls = Tail(@)]
    BY <1>3 DEF Deliver
  <2>2. /\ setting'.calls = Tail(c)
        /\ setting'.effective = IF kind.owner = "program" THEN setting.file ELSE Head(c)
    <3>1. CASE kind.owner = "program"
      BY <1>1, <2>1, <3>1 DEF Handled
    <3>2. CASE kind.owner # "program"
      BY <1>1, <2>1, <3>2 DEF Handled
    <3> QED
      BY <3>1, <3>2
  <2>3. CASE k = 1
    <3>1. kind.owner = "program" => setting.file = setting.shown
      BY <1>2 DEF SettingInv, Shows, Target
    <3> QED
      BY <1>2, <1>3, <2>2, <2>3, <3>1 DEF Settles
  <2>4. CASE k # 1
    BY <1>2, <1>3, <2>1, <2>2, <2>4 DEF Settles
  <2> QED
    BY <2>3, <2>4
<1>4. CASE ~Deliver
  <2>1. SUFFICES \/ setting'.calls = c
                 \/ \E v \in Values : setting'.calls = Append(c, v)
    BY <1>2, <1>4 DEF Settles, Next, OpenPage, ClosePage, Choose, OtherSets,
                      DaemonStart, DaemonStop, vars
  <2>2. ASSUME NEW v \in Values, Choose(v)
        PROVE  setting'.calls \in {c, Append(c, v)}
    <3>1. ~kind.waits
      BY <1>2 DEF SettingInv, Sound
    <3>2. setting' = Set(setting, v)
      BY <2>2 DEF Choose
    <3>3. CASE kind.guarded /\ setting.shown = v
      BY <3>2, <3>3 DEF Set
    <3>4. CASE ~(kind.guarded /\ setting.shown = v)
      BY <1>1, <3>1, <3>2, <3>4 DEF Set
    <3> QED
      BY <3>3, <3>4
  <2>3. CASE ClosePage \/ OpenPage \/ DaemonStart \/ DaemonStop
             \/ \E v \in Values : OtherSets(v)
    BY <2>3 DEF ClosePage, OpenPage, DaemonStart, DaemonStop, OtherSets
  <2>4. CASE UNCHANGED vars
    BY <2>4 DEF vars
  <2> QED
    BY <1>4, <2>2, <2>3, <2>4 DEF Next
<1> QED
  BY <1>3, <1>4

\* For any values, sizes and bounds: what a page shows and is not in effect yet
\* is in a call on its way, which the calls that follow never overtake, and
\* which puts it into effect after as many steps of the daemon as its place says.
THEOREM ShownTakesItsTurn == Spec => []CallOnItsWay /\ CallsInTurn
<1>1. TypeOK /\ SettingInv => CallOnItsWay
  <2> SUFFICES ASSUME TypeOK, SettingInv, open, up, ~excused,
                      setting.effective # setting.shown
               PROVE  \E k \in DOMAIN setting.calls : Settles(k)
    BY DEF CallOnItsWay
  <2>1. setting.calls # <<>> /\ setting.calls \in Seq(Values)
    BY DEF SettingInv, Shows, Target, TypeOK
  <2>2. Len(setting.calls) \in DOMAIN setting.calls
    BY <2>1
  <2>3. CASE kind.owner = "program"
    BY <2>2, <2>3 DEF Settles
  <2>4. CASE kind.owner # "program"
    <3>1. setting.calls[Len(setting.calls)] = setting.shown
      BY <2>1, <2>4 DEF SettingInv, Shows, Target, Last
    <3> QED
      BY <2>2, <3>1 DEF Settles
  <2> QED
    BY <2>3, <2>4
<1>2. TypeOK /\ SettingInv /\ [Next]_vars =>
        [\A k \in DOMAIN setting.calls :
           Settles(k) /\ open /\ up /\ ~excused =>
             \/ ~open' \/ ~up' \/ excused' \/ setting'.shown # setting.shown
             \/ ~Deliver /\ Settles(k)'
             \/ Deliver /\ k > 1 /\ Settles(k - 1)'
             \/ Deliver /\ k = 1 /\ setting'.effective = setting.shown]_vars
  BY TurnStep
<1> QED
  BY <1>1, <1>2, InvHolds, PTL DEF Spec, CallsInTurn
=============================================================================
