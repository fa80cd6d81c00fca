----------------------- MODULE SettingsInstanceProofs -----------------------
(***************************************************************************)
(* SettingsInstance for any number of launches, any sidebar and any        *)
(* requests: one window at a time, and nobody waits in a mailbox that no    *)
(* window will answer.                                                     *)
(***************************************************************************)
EXTENDS SettingsInstance, SequenceTheorems, TLAPS

\* The launches past registerService are the owner of the name, and no other.
OwnerInv ==
    /\ stage \in [Launches -> Stages]
    /\ \A p \in Launches : stage[p] \in Window <=> owner = p

LEMMA OwnerStep == OwnerInv /\ [Next]_vars => OwnerInv'
<1> SUFFICES ASSUME OwnerInv, [Next]_vars PROVE OwnerInv'
  OBVIOUS
<1> USE NoOwnerAssumption DEF OwnerInv, Stages, Window, Goto, Finish
<1>1. ASSUME NEW p \in Launches, Launch(p) PROVE OwnerInv'
  BY <1>1 DEF Launch, busVars
<1>2. ASSUME NEW p \in Launches, RegisterService(p) PROVE OwnerInv'
  BY <1>2 DEF RegisterService
<1>3. ASSUME NEW p \in Launches, RegisterObject(p) PROVE OwnerInv'
  BY <1>3 DEF RegisterObject
<1>4. ASSUME NEW p \in Launches, LoadWindow(p) PROVE OwnerInv'
  BY <1>4 DEF LoadWindow, busVars
<1>5. ASSUME NEW p \in Launches, Probe(p) \/ Call(p) \/ Timeout(p) PROVE OwnerInv'
  BY <1>5 DEF Probe, Call, Timeout, busVars
<1>6. ASSUME NEW p \in Launches, HandleCall(p) PROVE OwnerInv'
  <2>1. owner' = owner /\ \/ stage' = stage
                          \/ /\ stage[Head(mailbox)] = "wait"
                             /\ stage' = [stage EXCEPT ![Head(mailbox)] = "done"]
    BY <1>6 DEF HandleCall
  <2> QED
    BY <2>1
<1>7. ASSUME NEW p \in Launches, NEW i \in DOMAIN bar, ClickItem(p, i)
      PROVE  OwnerInv'
  BY <1>7 DEF ClickItem, busVars
<1>8. ASSUME NEW p \in Launches, Close(p) PROVE OwnerInv'
  BY <1>8 DEF Close, busVars
<1>9. ASSUME NEW p \in Launches, Quit(p) PROVE OwnerInv'
  BY <1>9 DEF Quit
<1>10. CASE UNCHANGED vars
  BY <1>10 DEF vars, busVars
<1> QED
  BY <1>1, <1>2, <1>3, <1>4, <1>5, <1>6, <1>7, <1>8, <1>9, <1>10 DEF Next, Step

LEMMA OwnerAlways == Spec => []OwnerInv
<1>1. Init => OwnerInv
  BY NoOwnerAssumption DEF Init, OwnerInv, Stages, Window
<1> QED
  BY <1>1, OwnerStep, PTL DEF Spec

OneWindow ==
    \A p, q \in Launches : stage[p] \in Window /\ stage[q] \in Window => p = q

\* However many launches race for the bus name, and whenever the window quits,
\* there is never a second window.
THEOREM SingleInstance == Spec => []OneWindow
<1>1. OwnerInv => OneWindow
  BY DEF OwnerInv, OneWindow
<1> QED
  BY <1>1, OwnerAlways, PTL

-----------------------------------------------------------------------------
(***************************************************************************)
(* Types                                                                   *)
(***************************************************************************)

\* Removing an entry leaves a list of entries.
LEMMA RemoveItemType ==
  ASSUME NEW entries \in Seq(Names), NEW name
  PROVE  RemoveItem(entries, name) \in Seq(Names)
<1>1. CASE name \in ToSet(entries)
  <2> DEFINE k == CHOOSE i \in DOMAIN entries : entries[i] = name
  <2>1. k \in 1..Len(entries)
    BY <1>1 DEF ToSet
  <2>2. SubSeq(entries, 1, k - 1) \in Seq(Names)
        /\ SubSeq(entries, k + 1, Len(entries)) \in Seq(Names)
    <3> HIDE DEF k
    <3>1. k - 1 \in Int /\ k + 1 \in Int /\ Len(entries) \in Int
      BY <2>1, LenProperties
    <3>2. /\ \A i \in 1..(k - 1) : entries[i] \in Names
          /\ \A i \in (k + 1)..Len(entries) : entries[i] \in Names
      BY <2>1, <3>1, ElementOfSeq
    <3> QED
      BY <3>1, <3>2, <2>1, SubSeqProperties
  <2>3. RemoveItem(entries, name)
          = SubSeq(entries, 1, k - 1) \o SubSeq(entries, k + 1, Len(entries))
    BY <1>1 DEF RemoveItem, RemoveAt
  <2> HIDE DEF k
  <2> QED
    BY <2>2, <2>3, ConcatProperties
<1>2. CASE name \notin ToSet(entries)
  BY <1>2 DEF RemoveItem
<1> QED
  BY <1>1, <1>2

\* A switch leaves the page asked for above at most one other.
LEMMA SwitchedType ==
  ASSUME NEW pages \in Seq(Names), Len(pages) <= 2, NEW page \in Names
  PROVE  Switched(pages, page) \in Seq(Names) /\ Len(Switched(pages, page)) <= 2
  BY DEF Switched, Front

LEMMA SwitchFromNameType ==
  ASSUME NEW entries \in Seq(Names), NEW i \in 0..Len(entries),
         NEW pages \in Seq(Names), Len(pages) <= 2,
         NEW name, SwitchFromName(name, entries, i, pages)
  PROVE  index' \in 0..Len(entries) /\ stack' \in Seq(Names) /\ Len(stack') <= 2
<1>1. CASE index' = i /\ stack' = pages
  BY <1>1
<1>2. CASE \E k \in DOMAIN entries : index' = k /\ stack' = Switched(pages, entries[k])
  <2>1. PICK k \in 1..Len(entries) : index' = k /\ stack' = Switched(pages, entries[k])
    BY <1>2
  <2>2. entries[k] \in Names
    BY <2>1
  <2> QED
    BY <2>1, <2>2, SwitchedType
<1> QED
  BY <1>1, <1>2 DEF SwitchFromName

\* The variables of the bus and of the launches.
BusType ==
    /\ stage \in [Launches -> Stages]
    /\ module \in [Launches -> Names \cup {NoModule}]
    /\ outcome \in [Launches -> Outcomes]
    /\ owner \in Launches \cup {NoOwner}
    /\ object \in BOOLEAN
    /\ mailbox \in Seq(Launches)

LEMMA BusStep == BusType /\ [Next]_vars => BusType'
<1> SUFFICES ASSUME BusType, [Next]_vars PROVE BusType'
  OBVIOUS
<1> USE DEF BusType, Stages, Outcomes, Goto, Finish
<1>1. ASSUME NEW p \in Launches, Launch(p) PROVE BusType'
  BY <1>1 DEF Launch, busVars
<1>2. ASSUME NEW p \in Launches, RegisterService(p) PROVE BusType'
  BY <1>2 DEF RegisterService
<1>3. ASSUME NEW p \in Launches, RegisterObject(p) PROVE BusType'
  BY <1>3 DEF RegisterObject
<1>4. ASSUME NEW p \in Launches, LoadWindow(p) PROVE BusType'
  BY <1>4 DEF LoadWindow, busVars
<1>5. ASSUME NEW p \in Launches, Probe(p) \/ Timeout(p) \/ Close(p) PROVE BusType'
  BY <1>5 DEF Probe, Timeout, Close, busVars
<1>6. ASSUME NEW p \in Launches, Call(p) PROVE BusType'
  BY <1>6 DEF Call
<1>7. ASSUME NEW p \in Launches, HandleCall(p) PROVE BusType'
  BY <1>7 DEF HandleCall
<1>8. ASSUME NEW p \in Launches, NEW i \in DOMAIN bar, ClickItem(p, i)
      PROVE  BusType'
  BY <1>8 DEF ClickItem, busVars
<1>9. ASSUME NEW p \in Launches, Quit(p) PROVE BusType'
  <2>1. mailbox' \in Seq(Launches)
    BY <1>9, EmptySeq DEF Quit
  <2> QED
    BY <1>9, <2>1 DEF Quit
<1>10. CASE UNCHANGED vars
  BY <1>10 DEF vars, busVars
<1> QED
  BY <1>1, <1>2, <1>3, <1>4, <1>5, <1>6, <1>7, <1>8, <1>9, <1>10 DEF Next, Step

\* The sidebar, its selection and the stack.
NavType ==
    /\ bar \in Seq(Names)
    /\ index \in 0..Len(bar)
    /\ stack \in Seq(Names) /\ Len(stack) <= 2

LEMMA NavStep == NavType /\ [Next]_vars => NavType'
<1> SUFFICES ASSUME NavType, [Next]_vars PROVE NavType'
  OBVIOUS
<1>1. ASSUME NEW p \in Launches, LoadWindow(p) PROVE NavType'
  <2>1. PICK battery, wlan, touchpad \in Removable \cup {NoModule},
             first \in {<<Listed[1]>>, <<Listed[1], Listed[1]>>} :
          /\ bar' = RemoveItem(RemoveItem(RemoveItem(Listed, battery), wlan), touchpad)
          /\ bar' # <<>>
          /\ SwitchFromName(module[p], bar', 1, first)
    BY <1>1 DEF LoadWindow
  <2>2. bar' \in Seq(Names)
    BY <2>1, RemoveItemType, ListedAssumption
  <2>3. 1 \in 0..Len(bar')
    BY <2>1, <2>2
  <2>4. Listed[1] \in Names
    BY ListedAssumption
  <2>5. first \in Seq(Names) /\ Len(first) <= 2
    <3>1. CASE first = <<Listed[1]>>
      BY <2>4, <3>1
    <3>2. CASE first = <<Listed[1], Listed[1]>>
      BY <2>4, <3>2
    <3> QED
      BY <2>1, <3>1, <3>2
  <2> QED
    BY <2>1, <2>2, <2>3, <2>5, SwitchFromNameType DEF NavType
<1>2. ASSUME NEW p \in Launches, HandleCall(p) PROVE NavType'
  BY <1>2, SwitchFromNameType DEF HandleCall, NavType
<1>3. ASSUME NEW p \in Launches, NEW i \in DOMAIN bar, ClickItem(p, i)
      PROVE  NavType'
  <2>1. i \in 1..Len(bar) /\ bar[i] \in Names
    BY <1>3 DEF NavType
  <2>2. Switched(stack, bar[i]) \in Seq(Names) /\ Len(Switched(stack, bar[i])) <= 2
    BY <2>1, SwitchedType DEF NavType
  <2> QED
    BY <1>3, <2>1, <2>2 DEF ClickItem, NavType
<1>4. ASSUME NEW p \in Launches, Quit(p) PROVE NavType'
  BY <1>4 DEF Quit, NavType
<1>5. ASSUME NEW p \in Launches,
             Launch(p) \/ RegisterService(p) \/ RegisterObject(p) \/ Probe(p)
               \/ Call(p) \/ Timeout(p) \/ Close(p)
      PROVE NavType'
  BY <1>5 DEF Launch, RegisterService, RegisterObject, Probe, Call, Timeout,
              Close, NavType, navVars
<1>6. CASE UNCHANGED vars
  BY <1>6 DEF vars, NavType, navVars
<1> QED
  BY <1>1, <1>2, <1>3, <1>4, <1>5, <1>6 DEF Next, Step

\* Whatever the launches, the sidebar and the requests, the selection is an
\* entry of the sidebar and pages never pile up under the current one.
THEOREM TypeCorrect == Spec => []TypeOK
<1>1. Init => BusType /\ NavType
  <2>1. Init => BusType
    BY EmptySeq DEF Init, BusType, Stages, Outcomes
  <2>2. Init => NavType
    BY EmptySeq DEF Init, NavType
  <2> QED
    BY <2>1, <2>2
<1>2. BusType /\ NavType => TypeOK
  BY DEF BusType, NavType, TypeOK
<1> QED
  BY <1>1, <1>2, BusStep, NavStep, PTL DEF Spec

-----------------------------------------------------------------------------
(***************************************************************************)
(* The mailbox                                                             *)
(***************************************************************************)

\* A waiting launch has its call in the mailbox.
Queued(p) == \E k \in DOMAIN mailbox : mailbox[k] = p

MailInv ==
    /\ mailbox # <<>> => object
    /\ \A p \in Launches : stage[p] = "wait" => Queued(p)

LEMMA MailStep == BusType /\ MailInv /\ [Next]_vars => MailInv'
<1> SUFFICES ASSUME BusType, MailInv, [Next]_vars PROVE MailInv'
  OBVIOUS
<1> USE DEF MailInv, Queued
<1>1. ASSUME NEW p \in Launches,
             Launch(p) \/ RegisterService(p) \/ RegisterObject(p)
               \/ LoadWindow(p) \/ Probe(p) \/ Timeout(p) \/ Close(p)
      PROVE  MailInv'
  <2>1. mailbox' = mailbox /\ (object => object')
    BY <1>1 DEF Launch, RegisterService, RegisterObject, LoadWindow, Probe,
                Timeout, Close, busVars
  <2>2. \A q \in Launches : stage'[q] = "wait" => stage[q] = "wait"
    BY <1>1 DEF Launch, RegisterService, RegisterObject, LoadWindow, Probe,
                Timeout, Close, Goto, Finish, BusType
  <2> QED
    BY <2>1, <2>2
<1>2. ASSUME NEW p \in Launches, Call(p) PROVE MailInv'
  <2>1. CASE object /\ mailbox' = Append(mailbox, p) /\ Goto(p, "wait")
    <3>1. mailbox'[Len(mailbox) + 1] = p
          /\ Len(mailbox) + 1 \in DOMAIN mailbox'
      BY <2>1 DEF BusType
    <3>2. ASSUME NEW q \in Launches, NEW k \in DOMAIN mailbox, mailbox[k] = q
          PROVE  k \in DOMAIN mailbox' /\ mailbox'[k] = q
      BY <2>1, <3>2 DEF BusType
    <3>3. ASSUME NEW q \in Launches, stage'[q] = "wait" PROVE Queued(q)'
      BY <2>1, <3>1, <3>2, <3>3 DEF Goto, BusType
    <3> QED
      BY <1>2, <2>1, <3>3 DEF Call
  <2>2. CASE mailbox' = mailbox /\ Finish(p, "refused")
    BY <1>2, <2>2 DEF Call, Finish, BusType
  <2> QED
    BY <1>2, <2>1, <2>2 DEF Call
<1>3. ASSUME NEW p \in Launches, HandleCall(p) PROVE MailInv'
  <2> DEFINE q == Head(mailbox)
  <2>1. mailbox # <<>> /\ mailbox' = Tail(mailbox) /\ object' = object
    BY <1>3 DEF HandleCall
  <2>2. q = mailbox[1] /\ q \in Launches
    BY <2>1 DEF BusType
  <2>3. stage' = IF stage[q] = "wait" THEN [stage EXCEPT ![q] = "done"] ELSE stage
    BY <1>3 DEF HandleCall, Finish
  <2>4. ASSUME NEW r \in Launches, stage'[r] = "wait" PROVE Queued(r)'
    <3>1. r # q /\ stage[r] = "wait"
      BY <2>2, <2>3, <2>4 DEF BusType
    <3>2. PICK k \in DOMAIN mailbox : mailbox[k] = r
      BY <3>1
    <3>3. k \in 2..Len(mailbox)
      BY <3>1, <3>2, <2>2 DEF BusType
    <3>4. k - 1 \in DOMAIN Tail(mailbox) /\ Tail(mailbox)[k - 1] = r
      BY <3>2, <3>3, <2>1 DEF BusType
    <3> QED
      BY <2>1, <3>4
  <2> QED
    BY <2>1, <2>4
<1>4. ASSUME NEW p \in Launches, NEW i \in DOMAIN bar, ClickItem(p, i)
      PROVE  MailInv'
  BY <1>4 DEF ClickItem, busVars
<1>5. ASSUME NEW p \in Launches, Quit(p) PROVE MailInv'
  BY <1>5 DEF Quit
<1>6. CASE UNCHANGED vars
  BY <1>6 DEF vars, busVars
<1> QED
  BY <1>1, <1>2, <1>3, <1>4, <1>5, <1>6 DEF Next, Step

\* However many launches ask the window for a page while it starts and quits,
\* each that is blocked has its call in the mailbox of a registered window.
THEOREM CallersAreAnswered == Spec => []MailboxAnswered
<1>1. Init => BusType /\ MailInv
  BY EmptySeq DEF Init, BusType, MailInv, Stages, Outcomes
<1>2. OwnerInv /\ MailInv => MailboxAnswered
  BY DEF OwnerInv, MailInv, MailboxAnswered, Queued
<1> QED
  BY <1>1, <1>2, BusStep, MailStep, OwnerAlways, PTL DEF Spec

-----------------------------------------------------------------------------
(***************************************************************************)
(* What the window shows                                                   *)
(***************************************************************************)

\* A window that runs has entries to select, and a launch has an outcome only
\* when it became the window or ended.
WindowInv ==
    /\ \A p \in Launches : stage[p] \in {"run", "quit"} => bar # <<>>
    /\ \A p \in Launches : stage[p] \notin {"run", "quit", "done"} => outcome[p] = "none"

LEMMA WindowStep == BusType /\ OwnerInv /\ WindowInv /\ [Next]_vars => WindowInv'
<1> SUFFICES ASSUME BusType, OwnerInv, WindowInv, [Next]_vars PROVE WindowInv'
  OBVIOUS
<1> USE DEF BusType, WindowInv, Goto, Finish, Stages, Outcomes
<1>1. ASSUME NEW p \in Launches,
             Launch(p) \/ RegisterService(p) \/ RegisterObject(p) \/ Probe(p)
               \/ Call(p) \/ Timeout(p) \/ Close(p)
      PROVE WindowInv'
  <2>1. bar' = bar
    BY <1>1 DEF Launch, RegisterService, RegisterObject, Probe, Call, Timeout,
                Close, navVars
  <2>2. \A q \in Launches : stage'[q] \in {"run", "quit"} => stage[q] \in {"run", "quit"}
    BY <1>1 DEF Launch, RegisterService, RegisterObject, Probe, Call, Timeout, Close
  <2>3. \A q \in Launches : stage'[q] \notin {"run", "quit", "done"} =>
            stage[q] \notin {"run", "quit", "done"} /\ outcome'[q] = outcome[q]
    BY <1>1 DEF Launch, RegisterService, RegisterObject, Probe, Call, Timeout, Close
  <2> QED
    BY <2>1, <2>2, <2>3
<1>2. ASSUME NEW p \in Launches, LoadWindow(p) PROVE WindowInv'
  <2>1. bar' # <<>> /\ stage' = [stage EXCEPT ![p] = "run"]
        /\ outcome' = [outcome EXCEPT ![p] = "shown"]
    BY <1>2 DEF LoadWindow
  <2> QED
    BY <2>1
<1>3. ASSUME NEW p \in Launches, HandleCall(p) PROVE WindowInv'
  <2>1. bar' = bar /\ \/ UNCHANGED <<stage, outcome>>
                      \/ /\ stage' = [stage EXCEPT ![Head(mailbox)] = "done"]
                         /\ outcome' = [outcome EXCEPT ![Head(mailbox)] = "shown"]
    BY <1>3 DEF HandleCall
  <2> QED
    BY <2>1
<1>4. ASSUME NEW p \in Launches, NEW i \in DOMAIN bar, ClickItem(p, i)
      PROVE  WindowInv'
  BY <1>4 DEF ClickItem
<1>5. ASSUME NEW p \in Launches, Quit(p) PROVE WindowInv'
  <2>1. \A q \in Launches : stage'[q] \notin {"run", "quit"}
    BY <1>5, NoOwnerAssumption DEF Quit, OwnerInv, Window
  <2>2. \A q \in Launches : stage'[q] \notin {"run", "quit", "done"} =>
            stage[q] \notin {"run", "quit", "done"} /\ outcome'[q] = outcome[q]
    BY <1>5 DEF Quit
  <2> QED
    BY <2>1, <2>2
<1>6. CASE UNCHANGED vars
  BY <1>6 DEF vars, navVars
<1> QED
  BY <1>1, <1>2, <1>3, <1>4, <1>5, <1>6 DEF Next, Step

LEMMA WindowAlways == Spec => [](BusType /\ NavType /\ OwnerInv /\ WindowInv)
<1>1. Init => BusType /\ NavType /\ WindowInv
  <2>1. Init => BusType
    BY EmptySeq DEF Init, BusType, Stages, Outcomes
  <2>2. Init => NavType
    BY EmptySeq DEF Init, NavType
  <2>3. Init => WindowInv
    BY DEF Init, WindowInv
  <2> QED
    BY <2>1, <2>2, <2>3
<1> QED
  BY <1>1, BusStep, NavStep, WindowStep, OwnerAlways, PTL DEF Spec

\* After a switch the page asked for is on top.
LEMMA SwitchedLast ==
  ASSUME NEW pages \in Seq(Names), Len(pages) <= 2, NEW page \in Names
  PROVE  Last(Switched(pages, page)) = page
  BY DEF Switched, Front, Last

LEMMA SwitchFromNameShows ==
  ASSUME NEW entries \in Seq(Names), NEW i \in 0..Len(entries),
         NEW pages \in Seq(Names), Len(pages) <= 2,
         NEW name, SwitchFromName(name, entries, i, pages)
  PROVE  \/ index' = i /\ stack' = pages /\ \A k \in DOMAIN entries : entries[k] # name
         \/ entries[index'] = name /\ Last(stack') = name
<1>1. CASE \A k \in DOMAIN entries : entries[k] # name
  BY <1>1 DEF SwitchFromName
<1>2. CASE \E k \in DOMAIN entries : entries[k] = name
  <2>1. PICK k \in DOMAIN entries : entries[k] = name /\ index' = k
                                    /\ stack' = Switched(pages, entries[k])
    BY <1>2 DEF SwitchFromName
  <2>2. entries[k] \in Names
    BY <2>1
  <2> QED
    BY <2>1, <2>2, SwitchedLast
<1> QED
  BY <1>1, <1>2

\* The step that answers a blocked launch has switched to the module it asked
\* for, if the sidebar lists it.
THEOREM RequestsAreCarriedOut == Spec => AnsweredIsShown
<1>1. ASSUME BusType, NavType, OwnerInv, WindowInv, [Next]_vars,
             NEW q \in Launches, stage[q] = "wait", outcome'[q] = "shown"
      PROVE  \/ \A k \in DOMAIN bar : bar[k] # module[q]
             \/ bar'[index'] = module[q] /\ Last(stack') = module[q]
  <2>1. outcome[q] = "none"
    BY <1>1 DEF WindowInv
  <2>2. ASSUME NEW p \in Launches, HandleCall(p)
        PROVE  \/ \A k \in DOMAIN bar : bar[k] # module[q]
               \/ bar'[index'] = module[q] /\ Last(stack') = module[q]
    <3>1. q = Head(mailbox)
      BY <1>1, <2>1, <2>2 DEF HandleCall, Finish, BusType
    <3>2. SwitchFromName(module[q], bar, index, stack) /\ bar' = bar
      BY <2>2, <3>1 DEF HandleCall
    <3> QED
      BY <1>1, <3>2, SwitchFromNameShows DEF NavType
  <2>3. ASSUME NEW p \in Launches,
               Launch(p) \/ RegisterService(p) \/ RegisterObject(p)
                 \/ LoadWindow(p) \/ Probe(p) \/ Call(p) \/ Timeout(p)
                 \/ Close(p) \/ Quit(p)
        PROVE  FALSE
    BY <1>1, <2>1, <2>3 DEF Launch, RegisterService, RegisterObject, LoadWindow,
       Probe, Call, Timeout, Close, Quit, Finish, BusType
  <2>4. ASSUME NEW p \in Launches, NEW i \in DOMAIN bar, ClickItem(p, i) PROVE FALSE
    BY <1>1, <2>1, <2>4 DEF ClickItem
  <2>5. CASE UNCHANGED vars
    BY <1>1, <2>1, <2>5 DEF vars
  <2> QED
    BY <1>1, <2>2, <2>3, <2>4, <2>5 DEF Next, Step
<1>2. BusType /\ NavType /\ OwnerInv /\ WindowInv /\ [Next]_vars =>
        [\A q \in Launches :
           stage[q] = "wait" /\ outcome'[q] = "shown"
             => \/ \A k \in DOMAIN bar : bar[k] # module[q]
                \/ bar'[index'] = module[q] /\ Last(stack') = module[q]]_vars
  BY <1>1
<1> QED
  BY <1>2, WindowAlways, PTL DEF Spec, AnsweredIsShown

-----------------------------------------------------------------------------
(***************************************************************************)
(* Who is refused: what RunningWindowAnswers rests on besides fairness.    *)
(***************************************************************************)

\* The object is registered before the window loads and stays until it quits.
Registered == \A p \in Launches : stage[p] \in {"load", "run", "quit"} => object

\* A launch whose page is lost meets no window that is loading, running or
\* waiting to quit.
RefusedBesideNone ==
    [][\A p, q \in Launches :
         stage[p] \in {"load", "run", "quit"} /\ outcome'[q] = "refused"
             => outcome[q] = "refused"]_vars

LEMMA RegisteredStep == BusType /\ OwnerInv /\ Registered /\ [Next]_vars => Registered'
<1> SUFFICES ASSUME BusType, OwnerInv, Registered, [Next]_vars PROVE Registered'
  OBVIOUS
<1> USE DEF BusType, Registered, Goto, Finish
<1>1. ASSUME NEW p \in Launches,
             Launch(p) \/ RegisterService(p) \/ LoadWindow(p) \/ Probe(p)
               \/ Call(p) \/ Timeout(p) \/ Close(p)
      PROVE  Registered'
  <2>1. object' = object
    BY <1>1 DEF Launch, RegisterService, LoadWindow, Probe, Call, Timeout, Close, busVars
  <2>2. \A q \in Launches : stage'[q] \in {"load", "run", "quit"} =>
            stage[q] \in {"load", "run", "quit"}
    BY <1>1 DEF Launch, RegisterService, LoadWindow, Probe, Call, Timeout, Close
  <2> QED
    BY <2>1, <2>2
<1>2. ASSUME NEW p \in Launches, RegisterObject(p) PROVE Registered'
  BY <1>2 DEF RegisterObject
<1>3. ASSUME NEW p \in Launches, HandleCall(p) PROVE Registered'
  <2>1. object' = object /\ \/ stage' = stage
                            \/ stage' = [stage EXCEPT ![Head(mailbox)] = "done"]
    BY <1>3 DEF HandleCall
  <2> QED
    BY <2>1
<1>4. ASSUME NEW p \in Launches, NEW i \in DOMAIN bar, ClickItem(p, i)
      PROVE  Registered'
  BY <1>4 DEF ClickItem, busVars
<1>5. ASSUME NEW p \in Launches, Quit(p) PROVE Registered'
  BY <1>5 DEF Quit, OwnerInv, Window
<1>6. CASE UNCHANGED vars
  BY <1>6 DEF vars, busVars
<1> QED
  BY <1>1, <1>2, <1>3, <1>4, <1>5, <1>6 DEF Next, Step

\* However many launches there are and whenever windows start and quit, nobody's
\* request is refused while there is a window that has begun to load.
THEOREM RefusedInTheGap == Spec => RefusedBesideNone
<1>1. Init => BusType /\ Registered
  BY EmptySeq DEF Init, BusType, Registered, Stages, Outcomes
<1>2. ASSUME BusType, OwnerInv, Registered, [Next]_vars,
             NEW p \in Launches, NEW q \in Launches,
             stage[p] \in {"load", "run", "quit"}, outcome'[q] = "refused"
      PROVE  outcome[q] = "refused"
  <2>1. owner # NoOwner /\ object
    BY <1>2, NoOwnerAssumption DEF OwnerInv, Window, Registered
  <2>2. ASSUME NEW r \in Launches, Probe(r) \/ Call(r) PROVE outcome' = outcome
    BY <2>1, <2>2 DEF Probe, Call
  <2>3. ASSUME NEW r \in Launches,
               Launch(r) \/ RegisterService(r) \/ RegisterObject(r) \/ Close(r)
        PROVE  outcome' = outcome
    BY <2>3 DEF Launch, RegisterService, RegisterObject, Close
  <2>4. ASSUME NEW r \in Launches,
               LoadWindow(r) \/ Timeout(r) \/ HandleCall(r) \/ Quit(r)
        PROVE  outcome'[q] \in {outcome[q], "shown", "unanswered"}
    <3>1. CASE \/ \E x \in Launches : outcome' = [outcome EXCEPT ![x] = "shown"]
               \/ \E x \in Launches : outcome' = [outcome EXCEPT ![x] = "unanswered"]
               \/ outcome' = outcome
      BY <1>2, <3>1 DEF BusType
    <3>2. CASE HandleCall(r)
      <4>1. Head(mailbox) \in Launches
        BY <1>2, <3>2 DEF HandleCall, BusType
      <4> QED
        BY <3>1, <3>2, <4>1 DEF HandleCall, Finish
    <3>3. CASE Quit(r)
      BY <3>3 DEF Quit
    <3> QED
      BY <2>4, <3>1, <3>2, <3>3 DEF LoadWindow, Timeout, Finish
  <2>5. ASSUME NEW r \in Launches, NEW i \in DOMAIN bar, ClickItem(r, i)
        PROVE  outcome' = outcome
    BY <2>5 DEF ClickItem
  <2>6. CASE UNCHANGED vars
    BY <1>2, <2>6 DEF vars
  <2> QED
    BY <1>2, <2>2, <2>3, <2>4, <2>5, <2>6 DEF Next, Step
<1>3. BusType /\ OwnerInv /\ Registered /\ [Next]_vars =>
        [\A p, q \in Launches :
           stage[p] \in {"load", "run", "quit"} /\ outcome'[q] = "refused"
             => outcome[q] = "refused"]_vars
  BY <1>2
<1> QED
  BY <1>1, <1>3, BusStep, RegisteredStep, OwnerAlways, PTL DEF Spec, RefusedBesideNone

-----------------------------------------------------------------------------
(***************************************************************************)
(* Every launch settles: what LaunchSettles rests on besides fairness.     *)
(***************************************************************************)

\* How many stages a launch can have before it at most.
Before(s) ==
    CASE s = "idle"     -> 6
      [] s = "register" -> 5
      [] s = "named"    -> 4
      [] s = "probe"    -> 4
      [] s = "load"     -> 3
      [] s = "call"     -> 3
      [] s = "run"      -> 2
      [] s = "wait"     -> 2
      [] s = "quit"     -> 1
      [] OTHER          -> 0

\* A launch never goes back, whoever changes its stage: itself, the window that
\* answers it, or the end of the window it waits for.
NeverBack ==
    [][\A p \in Launches : stage'[p] # stage[p] => Before(stage'[p]) < Before(stage[p])]_vars

\* Who is blocked in a call is blocked by the window, and that one is loading,
\* running or quitting and waits for nobody.  A registered object has a window.
NobodyStuck ==
    /\ object => \E w \in Launches : owner = w /\ stage[w] \in {"load", "run", "quit"}
    /\ \A p \in Launches : stage[p] = "wait" =>
          \E w \in Launches : owner = w /\ w # p /\ stage[w] \in {"load", "run", "quit"}

ObjectInv == object => \E w \in Launches : owner = w /\ stage[w] \in {"load", "run", "quit"}

LEMMA ObjectStep == BusType /\ OwnerInv /\ ObjectInv /\ [Next]_vars => ObjectInv'
<1> SUFFICES ASSUME BusType, OwnerInv, ObjectInv, [Next]_vars PROVE ObjectInv'
  OBVIOUS
<1> USE NoOwnerAssumption DEF BusType, ObjectInv, Goto, Finish
\* A step of a launch that is not the window's.
<1>1. ASSUME NEW p \in Launches,
             Launch(p) \/ Probe(p) \/ Call(p) \/ Timeout(p)
      PROVE  ObjectInv'
  <2>1. owner' = owner /\ object' = object /\ stage[p] \notin {"load", "run", "quit"}
        /\ \A q \in Launches \ {p} : stage'[q] = stage[q]
    BY <1>1 DEF Launch, Probe, Call, Timeout, busVars
  <2> QED
    BY <2>1
<1>2. ASSUME NEW p \in Launches, RegisterService(p) PROVE ObjectInv'
  BY <1>2 DEF RegisterService
<1>3. ASSUME NEW p \in Launches, RegisterObject(p) \/ LoadWindow(p) \/ Close(p)
      PROVE  ObjectInv'
  <2>1. owner' = owner /\ owner = p /\ stage'[p] \in {"load", "run", "quit"}
    BY <1>3 DEF RegisterObject, LoadWindow, Close, busVars, OwnerInv, Window
  <2> QED
    BY <2>1
<1>4. ASSUME NEW p \in Launches, HandleCall(p) PROVE ObjectInv'
  <2>1. UNCHANGED <<owner, object>>
        /\ \/ stage' = stage
           \/ /\ stage[Head(mailbox)] = "wait"
              /\ stage' = [stage EXCEPT ![Head(mailbox)] = "done"]
    BY <1>4 DEF HandleCall
  <2> QED
    BY <2>1
<1>5. ASSUME NEW p \in Launches, NEW i \in DOMAIN bar, ClickItem(p, i)
      PROVE  ObjectInv'
  BY <1>5 DEF ClickItem, busVars
<1>6. ASSUME NEW p \in Launches, Quit(p) PROVE ObjectInv'
  BY <1>6 DEF Quit
<1>7. CASE UNCHANGED vars
  BY <1>7 DEF vars, busVars
<1> QED
  BY <1>1, <1>2, <1>3, <1>4, <1>5, <1>6, <1>7 DEF Next, Step

LEMMA BackStep ==
  ASSUME BusType, [Next]_vars, NEW p \in Launches, stage'[p] # stage[p]
  PROVE  Before(stage'[p]) < Before(stage[p])
<1> DEFINE Goal == Before(stage'[p]) < Before(stage[p])
<1>1. ASSUME NEW q \in Launches,
             \/ stage[q] = "idle"     /\ Goto(q, "register")
             \/ stage[q] = "register" /\ (Goto(q, "named") \/ Goto(q, "probe"))
             \/ stage[q] = "named"    /\ Goto(q, "load")
             \/ stage[q] = "load"     /\ Goto(q, "run")
             \/ stage[q] = "probe"    /\ (Goto(q, "call") \/ Goto(q, "done"))
             \/ stage[q] = "call"     /\ (Goto(q, "wait") \/ Goto(q, "done"))
             \/ stage[q] = "wait"     /\ Goto(q, "done")
             \/ stage[q] = "run"      /\ Goto(q, "quit")
      PROVE  Goal
  <2>1. p = q
    BY <1>1 DEF Goto, BusType
  <2> QED
    BY <1>1, <2>1 DEF Goto, BusType, Before
<1>2. ASSUME NEW q \in Launches,
             Launch(q) \/ RegisterService(q) \/ RegisterObject(q) \/ LoadWindow(q)
               \/ Probe(q) \/ Call(q) \/ Timeout(q) \/ Close(q)
      PROVE  Goal
  BY <1>1, <1>2 DEF Launch, RegisterService, RegisterObject, LoadWindow, Probe,
                    Call, Timeout, Close, Goto, Finish
<1>3. ASSUME NEW q \in Launches, HandleCall(q) PROVE Goal
  <2>1. \/ stage' = stage
        \/ /\ stage[Head(mailbox)] = "wait"
           /\ stage' = [stage EXCEPT ![Head(mailbox)] = "done"]
    BY <1>3 DEF HandleCall, Finish
  <2>2. Head(mailbox) \in Launches
    BY <1>3 DEF HandleCall, BusType
  <2> QED
    BY <1>1, <2>1, <2>2 DEF Goto
<1>4. ASSUME NEW q \in Launches, Quit(q) PROVE Goal
  <2>1. stage'[p] = "done" /\ stage[p] \in {"quit", "wait"}
    BY <1>4 DEF Quit
  <2> QED
    BY <2>1 DEF Before
<1>5. ASSUME NEW q \in Launches, NEW i \in DOMAIN bar, ClickItem(q, i) PROVE FALSE
  BY <1>5 DEF ClickItem
<1>6. CASE UNCHANGED vars
  BY <1>6 DEF vars
<1> QED
  BY <1>2, <1>3, <1>4, <1>5, <1>6 DEF Next, Step

\* However many launches there are, each has at most six stages before it and
\* never goes back, and one that is blocked is blocked by a window that is not:
\* two launches never wait for each other.
THEOREM LaunchesGoOn == Spec => []NobodyStuck /\ NeverBack
<1>1. Init => BusType /\ MailInv /\ ObjectInv
  BY EmptySeq DEF Init, BusType, MailInv, ObjectInv, Stages, Outcomes
<1>2. MailInv /\ ObjectInv => NobodyStuck
  <2> SUFFICES ASSUME MailInv, ObjectInv, NEW p \in Launches, stage[p] = "wait"
               PROVE  \E w \in Launches : owner = w /\ w # p
                                          /\ stage[w] \in {"load", "run", "quit"}
    BY DEF ObjectInv, NobodyStuck
  <2>1. mailbox # <<>>
    BY DEF MailInv, Queued
  <2> QED
    BY <2>1 DEF MailInv, ObjectInv
<1>3. BusType /\ [Next]_vars =>
        [\A p \in Launches : stage'[p] # stage[p] =>
            Before(stage'[p]) < Before(stage[p])]_vars
  BY BackStep
<1> QED
  BY <1>1, <1>2, <1>3, BusStep, MailStep, ObjectStep, OwnerAlways, PTL
     DEF Spec, NeverBack
=============================================================================
