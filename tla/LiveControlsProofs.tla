------------------------- MODULE LiveControlsProofs -------------------------
(***************************************************************************)
(* LiveControls for any number of moves: type correctness, that a page at  *)
(* rest shows the property if it can know it, and that the last decision   *)
(* stands.                                                                 *)
(***************************************************************************)
EXTENDS LiveControls, SequenceTheorems, TLAPS

Tells(s, v) == \E i \in DOMAIN s : s[i] = v

\* What the page sent last is what it shows.
Sent ==
  calls # <<>> /\ ~timer /\ kind.listens # "library"
    /\ task \in {"subscribe", "idle", "held", "refresh"} => Last(calls) = shown

\* Once nothing is on its way, what it shows is the property.
Follows ==
  calls = <<>> /\ signals = <<>> /\ ~timer /\ ~missed /\ kind.listens # "library"
    /\ task \in {"subscribe", "idle"} => shown = value

\* The library is told every change; a switch that differs from it has sent
\* what it shows, or will be told.
Library ==
  kind.listens = "library" =>
    /\ signals = <<>> => memory = value
    /\ signals # <<>> => Last(signals) = value
    /\ task = "idle" /\ shown # memory =>
         \/ missed
         \/ calls # <<>> /\ Last(calls) = shown
         \/ Tells(signals, shown)

\* The last decision is the property, on its way to it, or about to be sent.
Decides ==
  ~raced =>
    /\ timer \/ task = "compare" => shown = decided
    /\ ~timer /\ task # "compare" /\ calls # <<>> => Last(calls) = decided
    /\ ~timer /\ task # "compare" /\ calls = <<>> => value = decided

PageInv == Sent /\ Follows /\ Library
LiveInv == PageInv /\ Decides

-----------------------------------------------------------------------------
LEMMA KindFacts ==
  ASSUME kind \in Kinds
  PROVE  /\ kind.listens \in {"first", "late", "never", "library"}
         /\ kind.sends \in {"change", "click", "press", "compare", "timer", "differs"}
         /\ kind.listens = "library" <=> kind.sends = "differs"
         /\ kind.listens = "late" <=> kind.sends = "click"
         /\ kind.sends = "timer" => kind = Brightness
         /\ kind = Brightness => kind.listens = "never" /\ kind.sends = "timer"
         /\ kind = Wireless => kind.listens = "library"
BY DEF Kinds, Mouse, Touchpad, PointerSpeed, TouchpadSpeed, Brightness,
       DoNotDisturb, Wireless

\* A queue of values: what its ends are after a value has joined or left it.
LEMMA QueueAppend ==
  ASSUME NEW s \in Seq(BOOLEAN), NEW w \in BOOLEAN
  PROVE  /\ Append(s, w) \in Seq(BOOLEAN)
         /\ Append(s, w) # <<>>
         /\ Last(Append(s, w)) = w
         /\ Tells(Append(s, w), w)
         /\ \A v : Tells(s, v) => Tells(Append(s, w), v)
<1>1. /\ Append(s, w) \in Seq(BOOLEAN) /\ Append(s, w) # <<>>
      /\ Len(Append(s, w)) = Len(s) + 1 /\ Append(s, w)[Len(s) + 1] = w
      /\ \A i \in 1..Len(s) : Append(s, w)[i] = s[i]
  BY AppendProperties
<1>2. DOMAIN s = 1..Len(s) /\ DOMAIN Append(s, w) = 1..Len(s) + 1 /\ Len(s) \in Nat
  BY <1>1, LenProperties
<1> QED
  BY <1>1, <1>2 DEF Last, Tells

LEMMA QueueTail ==
  ASSUME NEW s \in Seq(BOOLEAN), s # <<>>
  PROVE  /\ Head(s) \in BOOLEAN /\ Tail(s) \in Seq(BOOLEAN)
         /\ Tail(s) = <<>> => Last(s) = Head(s)
         /\ Tail(s) # <<>> => Last(Tail(s)) = Last(s)
         /\ \A v : Tells(s, v) /\ Head(s) # v => Tells(Tail(s), v)
<1>1. Len(s) \in Nat /\ Len(s) >= 1 /\ Head(s) = s[1] /\ Head(s) \in BOOLEAN
      /\ DOMAIN s = 1..Len(s)
  OBVIOUS
<1>2. Tail(s) \in Seq(BOOLEAN) /\ Len(Tail(s)) = Len(s) - 1
      /\ \A i \in 1..Len(Tail(s)) : Tail(s)[i] = s[i + 1]
  BY HeadTailProperties
<1>3. DOMAIN Tail(s) = 1..Len(s) - 1
  BY <1>2, LenProperties
<1>4. Tail(s) = <<>> => Last(s) = Head(s)
  <2>1. Tail(s) = <<>> => Len(Tail(s)) = 0
    BY EmptySeq
  <2>2. Tail(s) = <<>> => Len(s) = 1
    BY <1>1, <1>2, <2>1
  <2> QED
    BY <1>1, <2>2 DEF Last
<1>5. ASSUME Tail(s) # <<>> PROVE Last(Tail(s)) = Last(s)
  <2>1. Len(Tail(s)) \in Nat \ {0}
    BY <1>2, <1>5, EmptySeq
  <2>2. Tail(s)[Len(Tail(s))] = s[Len(Tail(s)) + 1]
    BY <1>2, <2>1
  <2>3. Len(Tail(s)) + 1 = Len(s)
    BY <1>1, <1>2
  <2> QED
    BY <2>2, <2>3, Zenon DEF Last
<1>6. ASSUME NEW v, Tells(s, v), Head(s) # v PROVE Tells(Tail(s), v)
  <2>1. PICK i \in 1..Len(s) : s[i] = v
    BY <1>1, <1>6 DEF Tells
  <2>2. i # 1
    BY <1>1, <1>6, <2>1
  <2>3. i - 1 \in 1..Len(s) - 1 /\ i - 1 + 1 = i
    BY <1>1, <2>1, <2>2
  <2>4. Tail(s)[i - 1] = v
    BY <1>2, <2>1, <2>3
  <2> QED
    BY <1>3, <2>3, <2>4 DEF Tells
<1> QED
  BY <1>1, <1>2, <1>4, <1>5, <1>6

LEMMA QueueLast ==
  ASSUME NEW s \in Seq(BOOLEAN), s # <<>>
  PROVE  Tells(s, Last(s))
<1>1. Len(s) \in DOMAIN s
  OBVIOUS
<1> QED
  BY <1>1 DEF Tells, Last

LEMMA QueueOne ==
  ASSUME NEW w \in BOOLEAN
  PROVE  <<w>> \in Seq(BOOLEAN) /\ <<w>> # <<>> /\ Last(<<w>>) = w
BY DEF Last

\* What a value the service takes does to the signals.
LEMMA TakeFacts ==
  ASSUME TypeOK, NEW v \in BOOLEAN, Take(v)
  PROVE  /\ value' = v /\ signals' \in Seq(BOOLEAN)
         /\ signals' = signals \/ (signals' = Append(signals, v) /\ Listening)
         /\ signals' = signals => v = value \/ ~Listening
         /\ signals' # signals => signals' # <<>> /\ Last(signals') = v
         /\ \A w : Tells(signals, w) => Tells(signals', w)
         /\ signals = <<>> => signals' = <<>> \/ Tells(signals', v)
<1> signals \in Seq(BOOLEAN)
  BY DEF TypeOK
<1>1. CASE signals' = Append(signals, v) /\ Listening
  <2>1. Len(Append(signals, v)) # Len(signals)
    OBVIOUS
  <2> QED
    BY <1>1, <2>1, QueueAppend DEF Take
<1>2. CASE signals' = signals /\ (v = value \/ ~Listening)
  BY <1>2 DEF Take
<1> QED
  BY <1>1, <1>2 DEF Take

-----------------------------------------------------------------------------
\* What the page does without the user: reads, notifications and the timer.
LEMMA PendingSteps ==
  ASSUME TypeOK, LiveInv, Pending
  PROVE  TypeOK' /\ LiveInv'
<1>0. /\ kind \in Kinds /\ calls \in Seq(BOOLEAN) /\ signals \in Seq(BOOLEAN)
      /\ task \in {"closed", "subscribe", "idle", "held", "load", "refresh", "compare"}
      /\ shown \in BOOLEAN /\ value \in BOOLEAN /\ memory \in BOOLEAN
      /\ timer \in BOOLEAN /\ missed \in BOOLEAN /\ raced \in BOOLEAN
      /\ decided \in BOOLEAN /\ moves \in Nat
      /\ Sent /\ Follows /\ Library /\ Decides
      /\ timer => kind = Brightness /\ task = "idle"
      /\ signals # <<>> => kind.listens = "library" \/ task # "closed"
      /\ kind.listens = "library" => task \in {"closed", "idle"}
  BY DEF TypeOK, LiveInv, PageInv, Blocking
<1>1. CASE Load
  <2>1. TypeOK'
    BY <1>0, <1>1, KindFacts, QueueOne DEF TypeOK, Load, past, Blocking
  <2>2. Sent' /\ Follows'
    BY <1>0, <1>1, KindFacts, QueueOne DEF Sent, Follows, Load, past, Blocking
  <2>3. Library'
    BY <1>0, <1>1, KindFacts, QueueOne DEF Library, Load, past, Blocking
  <2>4. Decides'
    BY <1>0, <1>1, KindFacts, QueueOne DEF Decides, Load, past, Blocking
  <2> QED
    BY <2>1, <2>2, <2>3, <2>4 DEF LiveInv, PageInv
<1>2. CASE Subscribe
  <2>1. TypeOK'
    BY <1>0, <1>2, KindFacts DEF TypeOK, Subscribe, past, Blocking, service
  <2>2. Sent' /\ Follows'
    BY <1>0, <1>2, KindFacts DEF Sent, Follows, Subscribe, past, Blocking, service
  <2>3. Library'
    BY <1>0, <1>2, KindFacts DEF Library, Subscribe, past, Blocking, service
  <2>4. Decides'
    BY <1>0, <1>2, KindFacts DEF Decides, Subscribe, past, Blocking, service
  <2> QED
    BY <2>1, <2>2, <2>3, <2>4 DEF LiveInv, PageInv
<1>3. CASE Compare
  <2>1. TypeOK'
    BY <1>0, <1>3, KindFacts, QueueOne DEF TypeOK, Compare, past, Blocking
  <2>2. Sent' /\ Follows'
    BY <1>0, <1>3, KindFacts, QueueOne DEF Sent, Follows, Compare, past, Blocking
  <2>3. Library'
    BY <1>0, <1>3, KindFacts, QueueOne DEF Library, Compare, past, Blocking
  <2>4. Decides'
    BY <1>0, <1>3, KindFacts, QueueOne DEF Decides, Compare, past, Blocking
  <2> QED
    BY <2>1, <2>2, <2>3, <2>4 DEF LiveInv, PageInv
<1>4. CASE Notified
  <2>1. TypeOK'
    BY <1>0, <1>4, KindFacts, QueueTail DEF TypeOK, Notified, past, Blocking
  <2>2. Sent' /\ Follows'
    BY <1>0, <1>4, KindFacts, QueueTail DEF Sent, Follows, Notified, past, Blocking
  <2>3. Library'
    BY <1>0, <1>4, KindFacts, QueueTail DEF Library, Notified, past, Blocking
  <2>4. Decides'
    BY <1>0, <1>4, KindFacts, QueueTail DEF Decides, Notified, past, Blocking
  <2> QED
    BY <2>1, <2>2, <2>3, <2>4 DEF LiveInv, PageInv
<1>5. CASE Refresh
  <2>1. TypeOK'
    BY <1>0, <1>5, KindFacts, QueueOne DEF TypeOK, Refresh, Blocking
  <2>2. Sent' /\ Follows'
    BY <1>0, <1>5, KindFacts, QueueOne DEF Sent, Follows, Refresh, Blocking
  <2>3. Library'
    BY <1>0, <1>5, KindFacts, QueueOne DEF Library, Refresh, Blocking
  <2>4. Decides'
    BY <1>0, <1>5, KindFacts, QueueOne DEF Decides, Refresh, Blocking
  <2> QED
    BY <2>1, <2>2, <2>3, <2>4 DEF LiveInv, PageInv
<1>6. CASE Remember
  <2>1. TypeOK'
    BY <1>0, <1>6, KindFacts, QueueTail DEF TypeOK, Remember, Blocking
  <2>2. Sent' /\ Follows'
    BY <1>0, <1>6, KindFacts, QueueTail DEF Sent, Follows, Remember, Blocking
  <2>3. Library'
    BY <1>0, <1>6, KindFacts, QueueTail DEF Library, Remember, Blocking
  <2>4. Decides'
    <3>1. /\ task' = task /\ timer' = timer /\ value' = value /\ calls' = calls
          /\ decided' = decided /\ raced' = raced
      BY <1>6 DEF Remember
    <3>2. ~timer /\ task # "compare"
      BY <1>0, <1>6, KindFacts DEF Remember
    <3> QED
      BY <1>0, <3>1, <3>2 DEF Decides
  <2> QED
    BY <2>1, <2>2, <2>3, <2>4 DEF LiveInv, PageInv
<1>7. CASE Trigger
  <2>1. TypeOK'
    BY <1>0, <1>7, KindFacts, QueueAppend DEF TypeOK, Trigger, past, Blocking
  <2>2. Sent' /\ Follows'
    BY <1>0, <1>7, KindFacts, QueueAppend DEF Sent, Follows, Trigger, past, Blocking
  <2>3. Library'
    BY <1>0, <1>7, KindFacts, QueueAppend DEF Library, Trigger, past, Blocking
  <2>4. Decides'
    BY <1>0, <1>7, KindFacts, QueueAppend DEF Decides, Trigger, past, Blocking
  <2> QED
    BY <2>1, <2>2, <2>3, <2>4 DEF LiveInv, PageInv
<1>8. ASSUME NEW v \in BOOLEAN, Release(v) PROVE TypeOK' /\ LiveInv'
  <2>1. TypeOK'
    BY <1>0, <1>8, KindFacts, QueueAppend DEF TypeOK, Release, Send, Blocking
  <2>2. Sent' /\ Follows'
    BY <1>0, <1>8, KindFacts, QueueAppend DEF Sent, Follows, Release, Send, Blocking
  <2>3. Library'
    BY <1>0, <1>8, KindFacts, QueueAppend DEF Library, Release, Send, Blocking
  <2>4. Decides'
    BY <1>0, <1>8, KindFacts, QueueAppend DEF Decides, Release, Send, Blocking
  <2> QED
    BY <2>1, <2>2, <2>3, <2>4 DEF LiveInv, PageInv
<1> QED
  BY <1>1, <1>2, <1>3, <1>4, <1>5, <1>6, <1>7, <1>8 DEF Pending, Reading

\* What the user does.
LEMMA UserSteps ==
  ASSUME TypeOK, LiveInv, OpenPage \/ ClosePage \/ Click \/ Toggle \/ Press \/ Slide
  PROVE  TypeOK' /\ LiveInv'
<1>0. /\ kind \in Kinds /\ calls \in Seq(BOOLEAN) /\ signals \in Seq(BOOLEAN)
      /\ task \in {"closed", "subscribe", "idle", "held", "load", "refresh", "compare"}
      /\ shown \in BOOLEAN /\ value \in BOOLEAN /\ memory \in BOOLEAN
      /\ timer \in BOOLEAN /\ missed \in BOOLEAN /\ raced \in BOOLEAN
      /\ decided \in BOOLEAN /\ moves \in Nat
      /\ Sent /\ Follows /\ Library /\ Decides
      /\ timer => kind = Brightness /\ task = "idle"
      /\ signals # <<>> => kind.listens = "library" \/ task # "closed"
      /\ kind.listens = "library" => task \in {"closed", "idle"}
  BY DEF TypeOK, LiveInv, PageInv, Blocking
<1>1. CASE OpenPage
  <2>1. TypeOK'
    <3>1. moves' \in Nat
      BY <1>0, <1>1 DEF OpenPage, Move
    <3>2. shown' \in BOOLEAN /\ decided' \in BOOLEAN /\ missed' \in BOOLEAN /\ raced' \in BOOLEAN
      BY <1>0, <1>1 DEF OpenPage, service
    <3> QED
      BY <1>0, <1>1, <3>1, <3>2, KindFacts DEF TypeOK, OpenPage, Blocking, service
  <2>2. Sent' /\ Follows'
    BY <1>0, <1>1, KindFacts DEF Sent, Follows, OpenPage, Move, Blocking, service
  <2>3. Library'
    BY <1>0, <1>1, KindFacts DEF Library, OpenPage, Move, Blocking, service
  <2>4. Decides'
    BY <1>0, <1>1, KindFacts DEF Decides, OpenPage, Move, Blocking, service
  <2> QED
    BY <2>1, <2>2, <2>3, <2>4 DEF LiveInv, PageInv
<1>2. CASE ClosePage
  <2>1. TypeOK'
    <3>1. raced' \in BOOLEAN /\ timer' = FALSE /\ task' = "closed"
          /\ ((signals' = signals /\ kind.listens = "library") \/ signals' = <<>>)
      BY <1>2 DEF ClosePage
    <3>2. <<>> \in Seq(BOOLEAN)
      OBVIOUS
    <3> QED
      BY <1>0, <1>2, <3>1, <3>2 DEF TypeOK, ClosePage, Blocking
  <2>2. Sent' /\ Follows'
    BY <1>0, <1>2, KindFacts DEF Sent, Follows, ClosePage, Blocking
  <2>3. Library'
    BY <1>0, <1>2, KindFacts DEF Library, ClosePage, Blocking
  <2>4. Decides'
    BY <1>0, <1>2, KindFacts DEF Decides, ClosePage, Blocking
  <2> QED
    BY <2>1, <2>2, <2>3, <2>4 DEF LiveInv, PageInv
<1>3. CASE Click
  <2>1. TypeOK'
    <3>1. moves' \in Nat
      BY <1>0, <1>3 DEF Click, Move
    <3>2. shown' \in BOOLEAN /\ decided' \in BOOLEAN /\ missed' \in BOOLEAN /\ raced' \in BOOLEAN
      BY <1>0, <1>3 DEF Click, Send
    <3> QED
      BY <1>0, <1>3, <3>1, <3>2, KindFacts, QueueAppend DEF TypeOK, Click, Send, Blocking
  <2>2. Sent' /\ Follows'
    BY <1>0, <1>3, KindFacts, QueueAppend DEF Sent, Follows, Click, Send, Move, Blocking
  <2>3. Library'
    BY <1>0, <1>3, KindFacts, QueueAppend DEF Library, Click, Send, Move, Blocking
  <2>4. Decides'
    BY <1>0, <1>3, KindFacts, QueueAppend DEF Decides, Click, Send, Move, Blocking
  <2> QED
    BY <2>1, <2>2, <2>3, <2>4 DEF LiveInv, PageInv
<1>4. CASE Toggle
  <2>1. TypeOK'
    <3>1. moves' \in Nat
      BY <1>0, <1>4 DEF Toggle, Move
    <3>2. shown' \in BOOLEAN /\ decided' \in BOOLEAN /\ missed' \in BOOLEAN /\ raced' \in BOOLEAN
      BY <1>0, <1>4 DEF Toggle, Send
    <3> QED
      BY <1>0, <1>4, <3>1, <3>2, KindFacts, QueueAppend DEF TypeOK, Toggle, Send, Blocking
  <2>2. Sent' /\ Follows'
    BY <1>0, <1>4, KindFacts, QueueAppend DEF Sent, Follows, Toggle, Send, Move, Blocking
  <2>3. Library'
    BY <1>0, <1>4, KindFacts, QueueAppend DEF Library, Toggle, Send, Move, Blocking
  <2>4. Decides'
    <3>1. timer' = FALSE /\ task' = "idle" /\ value' = value /\ signals' = signals
      BY <1>0, <1>4, KindFacts DEF Toggle
    <3>2. CASE shown = memory
      BY <1>0, <1>4, <3>1, <3>2, QueueAppend DEF Decides, Toggle, Send
    <3>3. CASE shown # memory
      <4>1. decided' = memory /\ calls' = calls
            /\ raced' = (calls # <<>> \/ signals # <<>>)
        BY <1>4, <3>3 DEF Toggle
      <4>2. kind.listens = "library"
        BY <1>0, <1>4, KindFacts DEF Toggle
      <4>3. ~raced' => calls' = <<>> /\ memory = value
        BY <1>0, <4>1, <4>2 DEF Library
      <4> QED
        BY <3>1, <4>1, <4>3 DEF Decides
    <3> QED
      BY <3>2, <3>3
  <2> QED
    BY <2>1, <2>2, <2>3, <2>4 DEF LiveInv, PageInv
<1>5. CASE Press
  <2>1. TypeOK'
    <3>1. moves' \in Nat
      BY <1>0, <1>5 DEF Press, Move
    <3>2. shown' \in BOOLEAN /\ decided' \in BOOLEAN /\ missed' \in BOOLEAN /\ raced' \in BOOLEAN
      BY <1>0, <1>5 DEF Press, Send
    <3> QED
      BY <1>0, <1>5, <3>1, <3>2, KindFacts, QueueAppend DEF TypeOK, Press, Send, Blocking
  <2>2. Sent' /\ Follows'
    BY <1>0, <1>5, KindFacts, QueueAppend DEF Sent, Follows, Press, Send, Move, Blocking
  <2>3. Library'
    BY <1>0, <1>5, KindFacts, QueueAppend DEF Library, Press, Send, Move, Blocking
  <2>4. Decides'
    BY <1>0, <1>5, KindFacts, QueueAppend DEF Decides, Press, Send, Move, Blocking
  <2> QED
    BY <2>1, <2>2, <2>3, <2>4 DEF LiveInv, PageInv
<1>6. CASE Slide
  <2>1. TypeOK'
    <3>1. moves' \in Nat
      BY <1>0, <1>6 DEF Slide, Move
    <3>2. shown' \in BOOLEAN /\ decided' \in BOOLEAN /\ missed' \in BOOLEAN /\ raced' \in BOOLEAN
      BY <1>0, <1>6 DEF Slide, service
    <3> QED
      BY <1>0, <1>6, <3>1, <3>2, KindFacts DEF TypeOK, Slide, Blocking, service
  <2>2. Sent' /\ Follows'
    BY <1>0, <1>6, KindFacts DEF Sent, Follows, Slide, Move, Blocking, service
  <2>3. Library'
    BY <1>0, <1>6, KindFacts DEF Library, Slide, Move, Blocking, service
  <2>4. Decides'
    BY <1>0, <1>6, KindFacts DEF Decides, Slide, Move, Blocking, service
  <2> QED
    BY <2>1, <2>2, <2>3, <2>4 DEF LiveInv, PageInv
<1> QED
  BY <1>1, <1>2, <1>3, <1>4, <1>5, <1>6

\* What the service and other programs do.
LEMMA ServiceSteps ==
  ASSUME TypeOK, LiveInv, Serving \/ OtherSets
  PROVE  TypeOK' /\ LiveInv'
<1>0. /\ kind \in Kinds /\ calls \in Seq(BOOLEAN) /\ signals \in Seq(BOOLEAN)
      /\ task \in {"closed", "subscribe", "idle", "held", "load", "refresh", "compare"}
      /\ shown \in BOOLEAN /\ value \in BOOLEAN /\ memory \in BOOLEAN
      /\ timer \in BOOLEAN /\ missed \in BOOLEAN /\ raced \in BOOLEAN
      /\ decided \in BOOLEAN /\ moves \in Nat
      /\ Sent /\ Follows /\ Library /\ Decides
      /\ timer => kind = Brightness /\ task = "idle"
      /\ signals # <<>> => kind.listens = "library" \/ task # "closed"
      /\ kind.listens = "library" => task \in {"closed", "idle"}
  BY DEF TypeOK, LiveInv, PageInv, Blocking
<1>1. CASE Serve
  <2>1. TypeOK'
    BY <1>0, <1>1, KindFacts, QueueTail, TakeFacts, QueueLast DEF TypeOK, Serve, control, past, Blocking, Listening
  <2>2. Sent' /\ Follows'
    BY <1>0, <1>1, KindFacts, QueueTail, TakeFacts, QueueLast DEF Sent, Follows, Serve, control, past, Blocking, Listening
  <2>3. Library'
    BY <1>0, <1>1, KindFacts, QueueTail, TakeFacts, QueueLast DEF Library, Serve, control, past, Blocking, Listening
  <2>4. Decides'
    BY <1>0, <1>1, KindFacts, QueueTail, TakeFacts, QueueLast DEF Decides, Serve, control, past, Blocking, Listening
  <2> QED
    BY <2>1, <2>2, <2>3, <2>4 DEF LiveInv, PageInv
<1>2. CASE Refuse
  <2>1. TypeOK'
    BY <1>0, <1>2, KindFacts, QueueTail DEF TypeOK, Refuse, control, Blocking
  <2>2. Sent' /\ Follows'
    BY <1>0, <1>2, KindFacts, QueueTail DEF Sent, Follows, Refuse, control, Blocking
  <2>3. Library'
    BY <1>0, <1>2, KindFacts, QueueTail DEF Library, Refuse, control, Blocking
  <2>4. Decides'
    BY <1>0, <1>2, KindFacts, QueueTail DEF Decides, Refuse, control, Blocking
  <2> QED
    BY <2>1, <2>2, <2>3, <2>4 DEF LiveInv, PageInv
<1>3. CASE OtherSets
  <2>1. TypeOK'
    <3>1. moves' \in Nat
      BY <1>0, <1>3 DEF OtherSets, Move
    <3>2. Take(~value) /\ decided' = ~value
      BY <1>3 DEF OtherSets
    <3>3. (~value) \in BOOLEAN
      OBVIOUS
    <3>4. missed' \in BOOLEAN /\ raced' \in BOOLEAN
      BY <1>3 DEF OtherSets
    <3>5. value' \in BOOLEAN /\ signals' \in Seq(BOOLEAN)
          /\ (signals' = signals \/ Listening)
      BY <3>2, <3>3, TakeFacts
    <3> QED
      BY <1>0, <1>3, <3>1, <3>2, <3>5, <3>4, <3>3, KindFacts
         DEF TypeOK, OtherSets, control, Blocking, Listening
  <2>2. Sent' /\ Follows'
    BY <1>0, <1>3, KindFacts, TakeFacts, QueueLast DEF Sent, Follows, OtherSets, Move, control, Blocking, Listening
  <2>3. Library'
    BY <1>0, <1>3, KindFacts, TakeFacts, QueueLast DEF Library, OtherSets, Move, control, Blocking, Listening
  <2>4. Decides'
    BY <1>0, <1>3, KindFacts, TakeFacts, QueueLast DEF Decides, OtherSets, Move, control, Blocking, Listening
  <2> QED
    BY <2>1, <2>2, <2>3, <2>4 DEF LiveInv, PageInv
<1> QED
  BY <1>1, <1>2, <1>3 DEF Serving

LEMMA InvHolds == Spec => [](TypeOK /\ LiveInv)
<1>1. Init => TypeOK /\ LiveInv
  <2> SUFFICES ASSUME Init PROVE TypeOK /\ LiveInv
    OBVIOUS
  <2>1. <<>> \in Seq(BOOLEAN)
    OBVIOUS
  <2> QED
    BY <2>1 DEF Init, TypeOK, LiveInv, PageInv, Sent, Follows, Library, Decides, Blocking
<1>2. TypeOK /\ LiveInv /\ [Next]_vars => (TypeOK /\ LiveInv)'
  <2> SUFFICES ASSUME TypeOK, LiveInv, [Next]_vars PROVE TypeOK' /\ LiveInv'
    OBVIOUS
  <2>1. CASE UNCHANGED vars
    BY <2>1 DEF vars, control, service, past, TypeOK, LiveInv, PageInv, Sent, Follows,
                Library, Decides, Tells
  <2> QED
    BY <2>1, PendingSteps, UserSteps, ServiceSteps DEF Next
<1> QED
  BY <1>1, <1>2, PTL DEF Spec

\* Every variable keeps its type, and only a brightness page has a timer.
THEOREM TypeCorrect == Spec => []TypeOK
BY InvHolds, PTL

\* A page at rest shows the property, for any number of moves.
THEOREM ShowsTheValue == Spec => []ShownIsValue
<1>1. TypeOK /\ LiveInv => ShownIsValue
  BY DEF LiveInv, PageInv, Follows, Library, TypeOK, Tells, ShownIsValue, Quiet
<1> QED
  BY InvHolds, <1>1, PTL

\* The last decision stands, for any number of moves: echoes undo nothing.
THEOREM LastDecisionStands == Spec => []DecisionStands
<1>1. LiveInv => DecisionStands
  BY DEF LiveInv, Decides, DecisionStands, Quiet
<1> QED
  BY InvHolds, <1>1, PTL

-----------------------------------------------------------------------------
(***************************************************************************)
(* Coming to rest.  What Settles needs besides fairness: whatever is not a *)
(* decision of the user or of another program leaves less to be done, and  *)
(* where there is something to be done, somebody can do it.                *)
(***************************************************************************)
\* The steps a task takes until the page is idle, and the call it may send.
Weight == [closed |-> 0, idle |-> 1, refresh |-> 2, subscribe |-> 5,
           held |-> 8, compare |-> 8, load |-> 8]
If(b, n) == IF b THEN n ELSE 0

\* A switch that sends every change will send the next one it reads back.
Echo ==
  kind.sends = "change" /\ task \in {"idle", "refresh"} /\ calls = <<>> /\ shown # value

\* A call becomes a signal, a signal a read, and a read at most an echo, which
\* tells the service nothing new.
Work ==
  3 * Len(calls) + 2 * Len(signals) + Weight[task] + If(timer, 4) + If(Echo, 3)

EchoesDieOut == [][moves' = moves => Work' < Work]_vars

\* A signal has come because the page listened.
Heard == signals # <<>> => kind.listens # "never"

\* What the steps of Pending and Serving wait for.
CanGoOn ==
  \/ task \in {"load", "compare", "refresh"} /\ calls = <<>>
  \/ task \in {"subscribe", "held"}
  \/ kind.listens \in {"first", "late"} /\ task = "idle" /\ signals # <<>>
  \/ kind.listens = "library" /\ signals # <<>>
  \/ timer \/ calls # <<>>

LEMMA WorkType == TypeOK => Work \in Nat /\ Weight[task] \in Nat
<1> SUFFICES ASSUME TypeOK PROVE Work \in Nat /\ Weight[task] \in Nat
  OBVIOUS
<1>1. Len(calls) \in Nat /\ Len(signals) \in Nat
  BY DEF TypeOK
<1>2. Weight[task] \in Nat
  BY DEF TypeOK, Weight, Blocking
<1>3. If(timer, 4) \in Nat /\ If(Echo, 3) \in Nat
  BY DEF If
<1> QED
  BY <1>1, <1>2, <1>3 DEF Work

LEMMA QueueLengths ==
  ASSUME NEW s \in Seq(BOOLEAN), NEW w \in BOOLEAN
  PROVE  /\ Len(s) \in Nat /\ Len(Append(s, w)) = Len(s) + 1 /\ Len(<<w>>) = 1
         /\ s = <<>> <=> Len(s) = 0
         /\ s # <<>> => Len(Tail(s)) = Len(s) - 1
BY EmptySeq

\* A step that is not a decision leaves less to be done.
LEMMA WorkStep ==
  ASSUME TypeOK, LiveInv, Next, moves' = moves
  PROVE  Work' < Work
<1>0. /\ kind \in Kinds /\ calls \in Seq(BOOLEAN) /\ signals \in Seq(BOOLEAN)
      /\ task \in {"closed", "subscribe", "idle", "held", "load", "refresh", "compare"}
      /\ shown \in BOOLEAN /\ value \in BOOLEAN /\ timer \in BOOLEAN /\ moves \in Nat
      /\ Sent
      /\ timer => kind = Brightness /\ task = "idle"
      /\ kind.listens = "library" => task \in {"closed", "idle"}
  BY DEF TypeOK, LiveInv, PageInv, Blocking
<1>w. /\ Weight["closed"] = 0 /\ Weight["idle"] = 1 /\ Weight["refresh"] = 2
      /\ Weight["subscribe"] = 5 /\ Weight["held"] = 8 /\ Weight["compare"] = 8
      /\ Weight["load"] = 8
  BY DEF Weight
<1>l. /\ Len(calls) \in Nat /\ Len(signals) \in Nat
      /\ calls = <<>> <=> Len(calls) = 0
      /\ calls # <<>> => Len(Tail(calls)) = Len(calls) - 1
      /\ signals # <<>> => Len(Tail(signals)) = Len(signals) - 1
      /\ \A w \in BOOLEAN : Len(Append(calls, w)) = Len(calls) + 1 /\ Len(<<w>>) = 1
      /\ \A w \in BOOLEAN : Len(Append(signals, w)) = Len(signals) + 1
  BY <1>0, QueueLengths
<1>n. Len(calls) \in Nat /\ Len(signals) \in Nat /\ timer \in BOOLEAN
  BY <1>0, <1>l
<1> USE DEF Work, If
<1>1. CASE Load
  <2>1. task = "load" /\ task' \in {"subscribe", "idle"} /\ (task' = "subscribe" => kind.sends = "click")
        /\ shown' = value /\ value' = value /\ signals' = signals /\ timer' = timer /\ kind' = kind
        /\ \/ calls' = calls
           \/ kind.sends = "change" /\ Len(calls') = 1
    BY <1>0, <1>1, <1>l, KindFacts DEF Load
  <2>2. ~Echo'
    BY <2>1 DEF Echo
  <2>3. ~Echo /\ Len(calls) = 0
    BY <1>1, <1>l, <2>1 DEF Echo, Load
  <2>4. CASE Len(calls') = 0
    BY <1>n, <1>w, <2>1, <2>2, <2>3, <2>4
  <2>5. CASE Len(calls') = 1 /\ task' = "idle"
    BY <1>n, <1>w, <2>1, <2>2, <2>3, <2>5
  <2> QED
    BY <2>1, <2>3, <2>4, <2>5
<1>2. CASE Subscribe
  <2>1. task = "subscribe" /\ task' = "idle" /\ UNCHANGED <<calls, signals, timer>>
    BY <1>2 DEF Subscribe, service
  <2> QED
    BY <1>0, <1>l, <1>w, <2>1 DEF Echo
<1>3. CASE Compare
  <2>1. task = "compare" /\ task' = "idle" /\ Len(calls) = 0
        /\ (calls' = calls \/ Len(calls') = 1) /\ UNCHANGED <<signals, timer>>
    BY <1>0, <1>3, <1>l DEF Compare
  <2>2. ~Echo /\ If(Echo', 3) <= 3 /\ If(Echo', 3) \in Nat
    BY <2>1 DEF Echo
  <2>3. CASE Len(calls') = 0
    BY <1>n, <1>w, <2>1, <2>2, <2>3
  <2>4. CASE Len(calls') = 1
    BY <1>n, <1>w, <2>1, <2>2, <2>4
  <2> QED
    BY <2>1, <2>3, <2>4
<1>4. CASE Notified
  <2>1. task = "idle" /\ task' = "refresh" /\ Len(signals') = Len(signals) - 1
        /\ UNCHANGED <<kind, calls, shown, value, timer>>
    BY <1>4, <1>l DEF Notified
  <2>2. Echo' = Echo
    BY <2>1 DEF Echo
  <2> QED
    BY <1>0, <1>l, <1>w, <2>1, <2>2
<1>5. CASE Refresh
  <2>1. task = "refresh" /\ task' = "idle" /\ shown' = value /\ calls = <<>>
        /\ (calls' = calls \/ (Len(calls') = 1 /\ kind.sends = "change" /\ shown # value))
        /\ UNCHANGED <<kind, signals, value, timer>>
    BY <1>0, <1>5, <1>l DEF Refresh
  <2>2. ~Echo' /\ (calls' # calls => Echo)
    BY <1>l, <2>1 DEF Echo
  <2>3. Len(calls) = 0 /\ Len(<<>>) = 0
    BY <1>l, <2>1
  <2>4. CASE calls' = calls
    BY <1>n, <1>w, <2>1, <2>2, <2>3, <2>4
  <2>5. CASE Len(calls') = 1 /\ Echo
    BY <1>n, <1>w, <2>1, <2>2, <2>3, <2>5
  <2> QED
    BY <2>1, <2>2, <2>4, <2>5
<1>6. CASE Remember
  <2>1. Len(signals') = Len(signals) - 1 /\ kind.sends = "differs"
        /\ UNCHANGED <<kind, task, calls, timer>>
    BY <1>0, <1>6, <1>l, KindFacts DEF Remember
  <2>2. ~Echo /\ ~Echo'
    BY <2>1 DEF Echo
  <2> QED
    BY <1>0, <1>l, <1>w, <2>1, <2>2
<1>7. CASE Trigger
  <2>1. timer /\ ~timer' /\ Len(calls') = Len(calls) + 1 /\ kind.sends = "timer"
        /\ UNCHANGED <<kind, task, signals>>
    BY <1>0, <1>7, <1>l, KindFacts DEF Trigger
  <2>2. ~Echo /\ ~Echo'
    BY <2>1 DEF Echo
  <2> QED
    BY <1>0, <1>l, <1>w, <2>1, <2>2
<1>8. ASSUME NEW v \in BOOLEAN, Release(v) PROVE Work' < Work
  <2>1. task = "held" /\ task' = "idle" /\ Len(calls') = Len(calls) + 1 /\ calls' # <<>>
        /\ UNCHANGED <<signals, timer>>
    BY <1>0, <1>8, <1>l, QueueAppend DEF Release, Send
  <2>2. ~Echo /\ ~Echo'
    BY <2>1 DEF Echo
  <2> QED
    BY <1>0, <1>l, <1>w, <2>1, <2>2
<1>9. CASE Serve
  <2>1. calls # <<>> /\ Len(calls') = Len(calls) - 1 /\ value' = Head(calls)
        /\ calls' = Tail(calls) /\ UNCHANGED <<kind, task, shown, timer>>
    BY <1>9, <1>l DEF Serve, Take, control
  <2>2. signals' = signals \/ Len(signals') = Len(signals) + 1
    BY <1>0, <1>9, <1>l, QueueTail, <2>1 DEF Serve, Take
  <2>3. ~Echo /\ ~Echo'
    <3>1. SUFFICES ASSUME Echo' PROVE FALSE
      BY <2>1 DEF Echo
    <3>2. kind.sends = "change" /\ task \in {"idle", "refresh"} /\ Tail(calls) = <<>>
          /\ shown # Head(calls)
      BY <2>1, <3>1 DEF Echo
    <3>3. Last(calls) = shown
      BY <1>0, <2>1, <3>2, KindFacts DEF Sent
    <3> QED
      BY <1>0, <2>1, <3>2, <3>3, QueueTail
  <2> QED
    BY <1>0, <1>l, <1>w, <2>1, <2>2, <2>3
<1>10. CASE Refuse
  <2>1. Len(calls') = Len(calls) - 1 /\ kind.sends = "differs"
        /\ UNCHANGED <<kind, task, signals, timer>>
    BY <1>0, <1>10, <1>l, KindFacts DEF Refuse, control
  <2>2. ~Echo /\ ~Echo'
    BY <2>1 DEF Echo
  <2> QED
    BY <1>0, <1>l, <1>w, <2>1, <2>2
<1>11. CASE ClosePage
  <2>1. task \in {"idle", "held"} /\ task' = "closed" /\ ~timer' /\ calls' = calls
        /\ Len(signals') \in Nat /\ Len(signals') <= Len(signals)
    BY <1>11, <1>l DEF ClosePage
  <2>2. ~Echo'
    BY <2>1 DEF Echo
  <2> QED
    BY <1>0, <1>l, <1>w, <2>1, <2>2
<1>12. ~Move
  BY <1>0 DEF Move
<1> QED
  BY <1>1, <1>2, <1>3, <1>4, <1>5, <1>6, <1>7, <1>8, <1>9, <1>10, <1>11, <1>12
     DEF Next, Pending, Reading, Serving, OpenPage, Click, Toggle, Press, Slide, OtherSets

\* Only a page that listens, or a library, has signals coming.
LEMMA HeardStep == Heard /\ TypeOK /\ [Next]_vars => Heard'
<1> SUFFICES ASSUME Heard, TypeOK, [Next]_vars PROVE Heard'
  OBVIOUS
<1>1. kind' = kind
  BY DEF Next, Pending, Reading, Serving, OpenPage, ClosePage, Click, Toggle, Press, Slide,
         Load, Subscribe, Compare, Notified, Refresh, Remember, Trigger, Release, Serve,
         Refuse, OtherSets, vars
<1>3. CASE Serve \/ OtherSets
  BY <1>1, <1>3 DEF Serve, OtherSets, Take, Listening, Heard, TypeOK
<1>4. CASE ~(Serve \/ OtherSets)
  <2>1. signals' = signals \/ signals' = <<>> \/ signals # <<>>
    BY <1>4 DEF Next, Pending, Reading, Serving, OpenPage, ClosePage, Click, Toggle, Press,
         Slide, Load, Subscribe, Compare, Notified, Refresh, Remember, Trigger, Release,
         Refuse, vars, service
  <2> QED
    BY <1>1, <2>1 DEF Heard
<1> QED
  BY <1>3, <1>4

\* However many calls, signals and reads there are: echoes die out, and until
\* everything has come to rest some step of the page or the service can be
\* taken.  So between two decisions there are only finitely many steps.
THEOREM EchoesEnd == Spec => [](Work \in Nat /\ (~Quiet => CanGoOn)) /\ EchoesDieOut
<1>1. Init => Heard
  BY DEF Init, Heard
<1>2. TypeOK /\ Heard => Work \in Nat /\ (~Quiet => CanGoOn)
  <2> SUFFICES ASSUME TypeOK, Heard, ~Quiet PROVE CanGoOn
    BY WorkType
  <2>1. kind.listens \in {"first", "late", "never", "library"}
    BY KindFacts DEF TypeOK
  <2> QED
    BY <2>1 DEF TypeOK, Heard, Quiet, CanGoOn, Blocking
<1>3. TypeOK /\ LiveInv /\ [Next]_vars => [moves' = moves => Work' < Work]_vars
  BY WorkStep
<1> QED
  BY <1>1, <1>2, <1>3, HeardStep, InvHolds, PTL DEF Spec, EchoesDieOut
=============================================================================
