----------------------------- MODULE PagesProofs -----------------------------
(***************************************************************************)
(* The font lists and the default applications for any fonts, desktop      *)
(* files and bounds: their types, that a page that has been told shows the *)
(* worker's lists, that these hold every family they should, and that a    *)
(* combo box names the default.  At the end, what was proved of each page  *)
(* is carried over to the pages taken together.                            *)
(***************************************************************************)
EXTENDS Pages, LiveControlsProofs, FiniteSetTheorems, WellFoundedInduction

(***************************************************************************)
(* The font lists: their type                                              *)
(***************************************************************************)
\* Sorting keeps the entries; what had no repetition has none.
LEMMA SortedFacts ==
  ASSUME NEW list \in Seq(Families), NEW s \in Sorted(list)
  PROVE  /\ s \in Seq(Families)
         /\ ToSet(s) = ToSet(list)
         /\ Ascends(s)
         /\ IsInjective(list) => IsInjective(s)
<1> DEFINE D == DOMAIN list
<1>1. PICK p \in Bijection(D, D) : s = [i \in D |-> list[p[i]]]
  BY DEF Sorted
<1>2. p \in [D -> D] /\ IsInjective(p) /\ \A t \in D : \E i \in D : p[i] = t
  BY DEF Bijection, Injection, Surjection
<1>3. D = 1..Len(list) /\ Len(list) \in Nat /\ \A i \in D : list[i] \in Families
  OBVIOUS
<1>4. s \in Seq(Families)
  BY <1>1, <1>2, <1>3
<1>5. ToSet(s) = ToSet(list)
  <2>1. \A i \in D : \E j \in D : s[i] = list[j]
    BY <1>1, <1>2
  <2>2. \A j \in D : \E i \in D : s[i] = list[j]
    BY <1>1, <1>2
  <2>3. DOMAIN s = D
    BY <1>1
  <2> QED
    BY <2>1, <2>2, <2>3 DEF ToSet
<1>6. Ascends(s)
  BY DEF Sorted
<1>7. IsInjective(list) => IsInjective(s)
  BY <1>1, <1>2 DEF IsInjective
<1> QED
  BY <1>4, <1>5, <1>6, <1>7

\* A family joins a list that does not have it.
LEMMA AppendFacts ==
  ASSUME NEW list \in Seq(Families), NEW x \in Families
  PROVE  /\ Append(list, x) \in Seq(Families)
         /\ ToSet(Append(list, x)) = ToSet(list) \cup {x}
         /\ Contains(list, x) <=> x \in ToSet(list)
         /\ IsInjective(list) /\ x \notin ToSet(list) => IsInjective(Append(list, x))
<1> DEFINE n == Len(list) + 1
           l == Append(list, x)
<1>1. DOMAIN list = 1..Len(list) /\ Len(list) \in Nat /\ DOMAIN l = 1..n
  OBVIOUS
<1>2. l \in Seq(Families) /\ l[n] = x /\ \A i \in DOMAIN list : l[i] = list[i]
  OBVIOUS
<1>3. DOMAIN l = DOMAIN list \cup {n} /\ n \notin DOMAIN list
  BY <1>1
<1>4. ToSet(l) = ToSet(list) \cup {x}
  BY <1>2, <1>3 DEF ToSet
<1>5. Contains(list, x) <=> x \in ToSet(list)
  BY <1>1 DEF Contains, ToSet
<1>6. IsInjective(list) /\ x \notin ToSet(list) => IsInjective(l)
  BY <1>2, <1>3 DEF IsInjective, ToSet
<1> QED
  BY <1>2, <1>4, <1>5, <1>6

\* The lists while they are filled, and where the worker is: what it has put
\* into them is what the faces it has handled ask for.
HandledFixed == {faces[i].family : i \in {j \in 1..next - 1 : faces[j].fixed}}
HandledGeneral ==
  {faces[i].family : i \in {j \in 1..next - 1 :
      Usable(j) /\ faces[j].lang /\ (faces[j].fixed => Repeated(j))}}

FillInv ==
  /\ Len(faces) <= MaxFaces /\ next <= Len(faces) + 1
  /\ thread = "query" => next = 1
  /\ thread = "sort" => next = Len(faces) + 1
  /\ thread \in Writing =>
       /\ IsInjective(fixed) /\ IsInjective(general)
       /\ ToSet(fixed) = HandledFixed /\ ToSet(general) = HandledGeneral
  /\ ListsComplete

LEMMA FontsTypeStep == FontsTypeOK /\ FillInv /\ [FontsNext]_fontsVars => FontsTypeOK'
<1> SUFFICES ASSUME FontsTypeOK, FillInv, [FontsNext]_fontsVars PROVE FontsTypeOK'
  OBVIOUS
<1> USE DEF FontsTypeOK, Working, Writing, Boxes
<1>1. CASE Query
  BY <1>1 DEF Query
<1>2. CASE Fill
  <2> DEFINE f == faces[next]
  <2>1. next' = next + 1 /\ next \in 1..Len(faces)
        /\ UNCHANGED <<faces, page, unread, thread, posted, seen>>
    BY <1>2 DEF Fill
  <2>2. next' \in 1..MaxFaces + 1
    BY <2>1, MaxFacesAssumption DEF FillInv
  <2>3. f \in Face \cup {Unusable}
    BY <2>1
  <2>4. general' \in Seq(Families) /\ fixed' \in Seq(Families)
    <3>1. CASE f = Unusable
      BY <1>2, <3>1 DEF Fill, lists
    <3>2. CASE f # Unusable
      <4>1. f.family \in Families
        BY <2>3, <3>2 DEF Face
      <4>2. Place(f)
        BY <1>2, <3>2 DEF Fill
      <4>3. \A list \in {general, fixed} : Append(list, f.family) \in Seq(Families)
        BY <4>1
      <4> QED
        BY <4>2, <4>3 DEF Place, Add
    <3> QED
      BY <3>1, <3>2
  <2> QED
    BY <2>1, <2>2, <2>4
<1>3. CASE Filled
  BY <1>3 DEF Filled, lists
<1>4. CASE Sort
  BY <1>4, SortedFacts DEF Sort
<1>5. CASE Emit
  BY <1>5 DEF Emit, lists
<1>6. CASE OpenFonts
  <2>1. NoLists \in [Boxes -> Seq(Families)] /\ <<>> \in Seq(Families)
    BY DEF NoLists
  <2>2. 1 \in 1..MaxFaces + 1
    BY MaxFacesAssumption
  <2>3. UNCHANGED faces /\ page' = "build" /\ unread' = Boxes /\ thread' = "query" /\ next' = 1
        /\ general' = <<>> /\ fixed' = <<>> /\ posted' = FALSE /\ seen' = NoLists
    BY <1>6 DEF OpenFonts
  <2> HIDE DEF Boxes
  <2> QED
    BY <2>1, <2>2, <2>3
<1>7. ASSUME NEW b \in Boxes, ReadList(b) PROVE FontsTypeOK'
  BY <1>7 DEF ReadList, lists, Lists
<1>8. CASE TornRead
  BY <1>8 DEF TornRead, Die, lists
<1>9. CASE Loaded
  BY <1>9 DEF Loaded, lists, Lists
<1>10. CASE CloseFonts
  BY <1>10 DEF CloseFonts, Die, lists
<1>11. CASE Restart
  BY <1>11 DEF Restart, lists
<1>12. CASE UNCHANGED fontsVars
  BY <1>12 DEF fontsVars, lists
<1> QED
  BY <1>1, <1>2, <1>3, <1>4, <1>5, <1>6, <1>7, <1>8, <1>9, <1>10, <1>11, <1>12
     DEF FontsNext, Worker

\* The face the worker is at joins what it has handled.
LEMMA HandledStep ==
  ASSUME faces \in Seq(Face \cup {Unusable}), next \in 1..Len(faces),
         next' = next + 1, faces' = faces
  PROVE  /\ HandledFixed' = HandledFixed \cup
              (IF faces[next].fixed THEN {faces[next].family} ELSE {})
         /\ HandledGeneral' = HandledGeneral \cup
              (IF /\ Usable(next) /\ faces[next].lang
                  /\ (faces[next].fixed => faces[next].family \in HandledFixed)
               THEN {faces[next].family} ELSE {})
<1> DEFINE n == next
           G(j) == Usable(j) /\ faces[j].lang /\ (faces[j].fixed => Repeated(j))
<1>1. 1..n' - 1 = (1..n - 1) \cup {n} /\ n \notin 1..n - 1
  OBVIOUS
<1>2. HandledFixed = {faces[i].family : i \in {j \in 1..n - 1 : faces[j].fixed}}
      /\ HandledFixed' = {faces[i].family : i \in {j \in 1..n' - 1 : faces[j].fixed}}
  BY DEF HandledFixed
<1>3. HandledGeneral = {faces[i].family : i \in {j \in 1..n - 1 : G(j)}}
      /\ HandledGeneral' = {faces[i].family : i \in {j \in 1..n' - 1 : G(j)}}
  BY DEF HandledGeneral, Usable, Repeated
<1>4. Repeated(n) <=> faces[n].family \in HandledFixed
  BY <1>2 DEF Repeated
<1>5. {j \in 1..n' - 1 : faces[j].fixed}
        = {j \in 1..n - 1 : faces[j].fixed} \cup (IF faces[n].fixed THEN {n} ELSE {})
  BY <1>1
<1>6. {j \in 1..n' - 1 : G(j)} = {j \in 1..n - 1 : G(j)} \cup (IF G(n) THEN {n} ELSE {})
  BY <1>1
<1> HIDE DEF G
<1>7. HandledFixed' = HandledFixed \cup (IF faces[n].fixed THEN {faces[n].family} ELSE {})
  BY <1>2, <1>5
<1>8. HandledGeneral' = HandledGeneral \cup (IF G(n) THEN {faces[n].family} ELSE {})
  BY <1>3, <1>6
<1> QED
  BY <1>4, <1>7, <1>8 DEF G

LEMMA FillStep == FontsTypeOK /\ FillInv /\ [FontsNext]_fontsVars => FillInv'
<1> SUFFICES ASSUME FontsTypeOK, FillInv, [FontsNext]_fontsVars PROVE FillInv'
  OBVIOUS
<1>1. faces \in Seq(Face \cup {Unusable}) /\ Len(faces) \in Nat /\ next \in Nat
      /\ fixed \in Seq(Families) /\ general \in Seq(Families)
  BY MaxFacesAssumption DEF FontsTypeOK
<1>2. ASSUME UNCHANGED <<faces, next, general, fixed>>
      PROVE  HandledFixed' = HandledFixed /\ HandledGeneral' = HandledGeneral
             /\ Complete(Lists)' = Complete(Lists)
  BY <1>2 DEF HandledFixed, HandledGeneral, Complete, Lists, Wanted, GeneralFamilies,
              FixedFamilies, Usable, Repeated
<1>3. ASSUME UNCHANGED <<faces, next, general, fixed>>,
             thread' \in {thread, "none"} \/ (thread = "emit" /\ thread' = "ended")
      PROVE  FillInv'
  BY <1>2, <1>3 DEF FillInv, ListsComplete, Writing
<1>4. CASE Query
  <2>1. ASSUME thread' = "fill"
        PROVE  fixed' = <<>> /\ general' = <<>> /\ HandledFixed' = {} /\ HandledGeneral' = {}
               /\ next' = 1 /\ faces' = faces
    BY <1>4, <2>1 DEF Query, FillInv, HandledFixed, HandledGeneral
  <2>2. IsInjective(<<>>) /\ ToSet(<<>>) = {}
    BY DEF IsInjective, ToSet
  <2> QED
    BY <1>4, <2>1, <2>2 DEF Query, FillInv, ListsComplete, Writing
<1>5. CASE Fill
  <2> DEFINE f == faces[next]
  <2>1. thread = "fill" /\ thread' = "fill" /\ next \in 1..Len(faces) /\ next' = next + 1
        /\ faces' = faces
    BY <1>1, <1>5 DEF Fill
  <2>2. f \in Face \cup {Unusable}
    BY <1>1, <2>1
  <2>3. /\ HandledFixed' = HandledFixed \cup (IF f.fixed THEN {f.family} ELSE {})
        /\ HandledGeneral' = HandledGeneral \cup
             (IF Usable(next) /\ f.lang /\ (f.fixed => f.family \in HandledFixed)
              THEN {f.family} ELSE {})
    BY <1>1, <2>1, HandledStep
  <2>4. IsInjective(fixed) /\ IsInjective(general)
        /\ ToSet(fixed) = HandledFixed /\ ToSet(general) = HandledGeneral
    BY <2>1 DEF FillInv, Writing
  <2>5. IsInjective(fixed)' /\ IsInjective(general)'
        /\ ToSet(fixed)' = HandledFixed' /\ ToSet(general)' = HandledGeneral'
    <3>1. CASE f = Unusable
      <4>1. ~f.fixed /\ ~Usable(next)
        BY <3>1 DEF Unusable, Usable
      <4>2. fixed' = fixed /\ general' = general
        BY <1>5, <3>1 DEF Fill, lists
      <4> QED
        BY <2>3, <2>4, <4>1, <4>2
    <3>2. CASE f # Unusable
      <4>1. Usable(next) /\ f.family \in Families /\ f.fixed \in BOOLEAN /\ f.lang \in BOOLEAN
        BY <1>1, <2>1, <2>2, <3>2 DEF Usable, Face
      <4>2. Place(f)
        BY <1>5, <3>2 DEF Fill
      <4>3. \A list \in {fixed, general} :
              /\ ToSet(Append(list, f.family)) = ToSet(list) \cup {f.family}
              /\ Contains(list, f.family) <=> f.family \in ToSet(list)
              /\ IsInjective(list) /\ f.family \notin ToSet(list) =>
                   IsInjective(Append(list, f.family))
        BY <1>1, <4>1, AppendFacts
      <4>4. CASE f.fixed /\ f.family \notin ToSet(fixed)
        BY <2>3, <2>4, <4>1, <4>2, <4>3, <4>4 DEF Place
      <4>5. CASE ~(f.fixed /\ f.family \notin ToSet(fixed))
        <5>1. fixed' = fixed /\ general' = IF f.lang THEN Add(general, f.family) ELSE general
          BY <4>2, <4>3, <4>5 DEF Place
        <5>2. HandledFixed' = HandledFixed
          BY <2>3, <2>4, <4>5
        <5>3. HandledGeneral' = HandledGeneral \cup (IF f.lang THEN {f.family} ELSE {})
          BY <2>3, <2>4, <4>1, <4>5
        <5>4. IsInjective(general)' /\ ToSet(general)' = HandledGeneral'
          BY <2>4, <4>3, <5>1, <5>3 DEF Add
        <5> QED
          BY <2>4, <5>1, <5>2, <5>4
      <4> QED
        BY <4>4, <4>5
    <3> QED
      BY <3>1, <3>2
  <2> QED
    BY <1>1, <2>1, <2>5 DEF FillInv, ListsComplete
<1>6. CASE Filled
  <2>1. next' = Len(faces') + 1 /\ thread = "fill" /\ thread' = "sort"
        /\ UNCHANGED <<faces, next, general, fixed>>
    BY <1>1, <1>6 DEF Filled, FillInv, FontsTypeOK, lists
  <2> QED
    BY <1>1, <1>2, <2>1 DEF FillInv, ListsComplete, Writing
<1>7. CASE Sort
  <2>1. thread = "sort" /\ thread' = "emit" /\ faces' = faces /\ next' = next
        /\ general' \in Sorted(general) /\ fixed' \in Sorted(fixed)
    BY <1>7 DEF Sort
  <2>2. ToSet(general') = HandledGeneral /\ Ascends(general') /\ IsInjective(general')
        /\ ToSet(fixed') = HandledFixed /\ Ascends(fixed') /\ IsInjective(fixed')
    BY <1>1, <2>1, SortedFacts DEF FillInv, Writing
  <2>3. 1..next - 1 = DOMAIN faces
    BY <1>1, <2>1 DEF FillInv
  <2>4. HandledFixed = FixedFamilies' /\ HandledGeneral = GeneralFamilies'
    BY <2>1, <2>3 DEF HandledFixed, HandledGeneral, FixedFamilies, GeneralFamilies,
                      Usable, Repeated
  <2>5. Complete(Lists)'
    BY <2>2, <2>4 DEF Complete, Lists, Wanted, Boxes
  <2> QED
    BY <2>1, <2>5 DEF FillInv, ListsComplete, Writing
<1>8. CASE Emit
  BY <1>3, <1>8 DEF Emit, lists
<1>9. CASE OpenFonts
  BY <1>1, <1>9 DEF OpenFonts, FillInv, ListsComplete, Writing
<1>10. ASSUME NEW b \in Boxes, ReadList(b) PROVE FillInv'
  BY <1>3, <1>10 DEF ReadList, lists
<1>11. CASE TornRead
  BY <1>3, <1>11 DEF TornRead, Die, lists
<1>12. CASE Loaded
  BY <1>3, <1>12 DEF Loaded, lists
<1>13. CASE CloseFonts
  BY <1>3, <1>13 DEF CloseFonts, Die, lists
<1>14. CASE Restart
  BY <1>3, <1>14 DEF Restart, lists
<1>15. CASE UNCHANGED fontsVars
  BY <1>3, <1>15 DEF fontsVars, lists
<1> QED
  BY <1>4, <1>5, <1>6, <1>7, <1>8, <1>9, <1>10, <1>11, <1>12, <1>13, <1>14, <1>15
     DEF FontsNext, Worker

LEMMA FontsFilled == FontsSpec => [](FontsTypeOK /\ FillInv)
<1>1. FontsInit => FontsTypeOK /\ FillInv
  <2> SUFFICES ASSUME FontsInit PROVE FontsTypeOK /\ FillInv
    OBVIOUS
  <2>1. faces \in Seq(Face \cup {Unusable}) /\ Len(faces) \in Nat /\ Len(faces) <= MaxFaces
    BY MaxFacesAssumption DEF FontsInit, BoundedSeq, SeqOf
  <2>2. NoLists \in [Boxes -> Seq(Families)] /\ <<>> \in Seq(Families)
    BY DEF NoLists
  <2>3. 1 \in 1..MaxFaces + 1
    BY MaxFacesAssumption
  <2>4. FontsTypeOK
    BY <2>1, <2>2, <2>3 DEF FontsInit, FontsTypeOK
  <2> QED
    BY <2>1, <2>4 DEF FontsInit, FillInv, ListsComplete, Writing
<1> QED
  BY <1>1, FontsTypeStep, FillStep, PTL DEF FontsSpec

\* The lists and where the worker, the page and its bindings are have their
\* types, for any families and any list of faces.
THEOREM FontsTypeCorrect == FontsSpec => []FontsTypeOK
  BY FontsFilled, PTL

\* Whatever fontconfig lists, in any order, with families met again as fixed
\* or not: the announced lists hold exactly the families they should, in order.
THEOREM FontListsComplete == FontsSpec => []ListsComplete
<1>1. FillInv => ListsComplete
  BY DEF FillInv
<1> QED
  BY <1>1, FontsFilled, PTL

-----------------------------------------------------------------------------
(***************************************************************************)
(* The font lists: what the page shows of them                             *)
(***************************************************************************)
\* The page has bindings to evaluate only while it is built; the signal can
\* only be pending for a worker that is done.
BindInv ==
    /\ unread \subseteq Boxes
    /\ seen \in [Boxes -> {seen["general"], seen["fixed"]}]
    /\ posted \in BOOLEAN
    /\ page = "open" => unread = {}
    /\ posted => thread = "ended"

\* Until the worker has asked fontconfig its lists are empty, so is what was
\* read of them; when it is done, a binding that was evaluated has its lists,
\* or the signal that will give them to it is pending.
ReadInv ==
    /\ page \in {"build", "open"} /\ thread = "query" =>
          Lists = NoLists /\ \A b \in Boxes \ unread : seen[b] = <<>>
    /\ page \in {"build", "open"} /\ thread \in {"ended", "failed"} /\ ~posted =>
          \A b \in Boxes \ unread : seen[b] = Lists[b]

ViewInv == BindInv /\ ReadInv

LEMMA ViewInvInit == FontsInit => ViewInv
  BY DEF FontsInit, ViewInv, BindInv, ReadInv, Boxes, NoLists

LEMMA ViewInvStep == ViewInv /\ [FontsNext]_fontsVars => ViewInv'
<1> SUFFICES ASSUME ViewInv, [FontsNext]_fontsVars PROVE ViewInv'
  OBVIOUS
<1> USE DEF ViewInv, BindInv, ReadInv, Boxes, Lists, NoLists
<1>1. CASE Query
  BY <1>1 DEF Query
<1>2. CASE Fill \/ Filled \/ Sort
  <2>1. thread \in {"fill", "sort"} /\ thread' \in {"fill", "sort", "emit"}
        /\ UNCHANGED <<page, unread, posted, seen>>
    BY <1>2 DEF Fill, Filled, Sort
  <2> QED
    BY <2>1
<1>3. CASE Emit
  <2>1. thread = "emit" /\ thread' = "ended" /\ posted' = (unread # Boxes)
        /\ UNCHANGED <<page, unread, general, fixed, seen>>
    BY <1>3 DEF Emit, lists
  <2>2. ~posted' => Boxes \ unread' = {}
    BY <2>1
  <2> QED
    BY <2>1, <2>2
<1>4. CASE OpenFonts
  BY <1>4 DEF OpenFonts
<1>5. ASSUME NEW b \in Boxes, ReadList(b) PROVE ViewInv'
  <2>1. seen' = [seen EXCEPT ![b] = Lists[b]] /\ unread' = unread \ {b}
        /\ UNCHANGED <<thread, general, fixed, posted>>
        /\ page = "build" /\ (page' = "open" => unread = {b})
    BY <1>5 DEF ReadList, lists
  <2>2. BindInv'
    BY <2>1
  <2>3. ASSUME NEW c \in Boxes \ unread'
        PROVE  seen'[c] = IF c = b THEN Lists[b] ELSE seen[c]
    BY <2>1
  <2>4. Lists' = Lists
    BY <2>1
  <2>5. ReadInv'
    BY <2>1, <2>3, <2>4
  <2> QED
    BY <2>2, <2>5
<1>6. CASE TornRead
  BY <1>6 DEF TornRead, Die
<1>7. CASE Loaded
  BY <1>7 DEF Loaded, lists
<1>8. CASE CloseFonts
  BY <1>8 DEF CloseFonts, Die
<1>9. CASE Restart
  BY <1>9 DEF Restart
<1>10. CASE UNCHANGED fontsVars
  BY <1>10 DEF fontsVars, lists
<1> QED
  BY <1>1, <1>2, <1>3, <1>4, <1>5, <1>6, <1>7, <1>8, <1>9, <1>10
     DEF FontsNext, Worker

\* Whatever fontconfig lists and however the two threads are scheduled, a page
\* whose worker is done and whose signal was handled shows the worker's lists.
THEOREM PageShowsTheLists == FontsSpec => []ViewIsModel
<1>1. ViewInv => ViewIsModel
  <2> SUFFICES ASSUME ViewInv, page = "open", thread \in {"ended", "failed"}, ~posted
               PROVE  seen = Lists
    BY DEF ViewIsModel
  <2>1. \A b \in Boxes : seen[b] = Lists[b]
    BY DEF ViewInv, BindInv, ReadInv
  <2>2. DOMAIN seen = Boxes /\ DOMAIN Lists = Boxes
    BY DEF ViewInv, BindInv, Lists
  <2> QED
    BY <2>1, <2>2 DEF ViewInv, BindInv, Lists, Boxes
<1> QED
  BY <1>1, ViewInvInit, ViewInvStep, PTL DEF FontsSpec

\* What is left to do until a page that stays shows the lists: the worker's
\* steps, the boxes to fill, and the signal to handle.
WorkLeft == CASE thread = "query" -> Len(faces) + 4
              [] thread = "fill"  -> (Len(faces) + 1 - next) + 3
              [] thread = "sort"  -> 2
              [] thread = "emit"  -> 1
              [] OTHER            -> 0
BoxesLeft  == (IF "general" \in unread THEN 1 ELSE 0) + (IF "fixed" \in unread THEN 1 ELSE 0)
SignalLeft == IF posted \/ thread \in Working THEN 1 ELSE 0
ToShow     == WorkLeft + BoxesLeft + SignalLeft

LEMMA SumsAreLess ==
  ASSUME NEW w \in Nat, NEW b \in Nat, NEW s \in Nat,
         NEW v \in Nat, NEW c \in Nat, NEW t \in Nat,
         v <= w, c <= b, t <= s, v < w \/ c < b \/ t < s
  PROVE  v + c + t < w + b + s
  OBVIOUS

\* A page that is there has a worker, and is built as long as a box is empty.
AlivePage == {"build", "open"}
AliveInv == page \in AlivePage => thread # "none" /\ (page = "build" <=> unread # {})

\* Unless fontconfig fails, somebody has something to do or the page shows the
\* lists.
ListsOnTheirWay ==
    page \in AlivePage /\ thread # "failed" =>
        thread \in Working \/ unread # {} \/ posted \/ Complete(seen)

\* Every step of a page that stays leaves less to do.
ListsComeCloser ==
    [][{page, page'} \subseteq AlivePage => ToShow' < ToShow]_fontsVars

LEMMA LeftTypes ==
  FontsTypeOK /\ FillInv => WorkLeft \in Nat /\ BoxesLeft \in Nat /\ SignalLeft \in Nat /\ ToShow \in Nat
<1> SUFFICES ASSUME FontsTypeOK, FillInv
             PROVE  WorkLeft \in Nat /\ BoxesLeft \in Nat /\ SignalLeft \in Nat /\ ToShow \in Nat
  OBVIOUS
<1>1. WorkLeft \in Nat
  BY DEF FontsTypeOK, FillInv, WorkLeft
<1>2. BoxesLeft \in Nat /\ SignalLeft \in Nat
  BY DEF BoxesLeft, SignalLeft
<1> QED
  BY <1>1, <1>2 DEF ToShow

LEMMA CloserStep ==
  ASSUME FontsTypeOK, FillInv, (FontsTypeOK /\ FillInv)', ViewInv, AliveInv,
         [FontsNext]_fontsVars
  PROVE  /\ AliveInv'
         /\ \/ UNCHANGED fontsVars
            \/ {page, page'} \subseteq AlivePage => ToShow' < ToShow
<1>1. Len(faces) \in Nat /\ next \in Nat /\ next <= Len(faces) + 1
      /\ DOMAIN faces = 1..Len(faces) /\ (thread = "query" => next = 1)
  BY DEF FontsTypeOK, FillInv
<1>2. (WorkLeft \in Nat /\ BoxesLeft \in Nat /\ SignalLeft \in Nat)'
  BY LeftTypes, PTL
<1>3. ASSUME WorkLeft' <= WorkLeft, BoxesLeft' <= BoxesLeft, SignalLeft' <= SignalLeft,
             WorkLeft' < WorkLeft \/ BoxesLeft' < BoxesLeft \/ SignalLeft' < SignalLeft
      PROVE  ToShow' < ToShow
  BY <1>2, <1>3, LeftTypes, SumsAreLess DEF ToShow
<1>4. ASSUME UNCHANGED <<page, unread, posted>>, thread \in Working, thread' # "none",
             WorkLeft' < WorkLeft
      PROVE  AliveInv' /\ ToShow' < ToShow
  <2>1. BoxesLeft' <= BoxesLeft /\ SignalLeft' <= SignalLeft
    BY <1>4 DEF BoxesLeft, SignalLeft
  <2>2. WorkLeft' <= WorkLeft
    BY <1>2, <1>4, LeftTypes
  <2> QED
    BY <1>3, <1>4, <2>1, <2>2 DEF AliveInv
<1>5. CASE Query
  <2>1. thread = "query" /\ thread' \in {"fill", "failed"}
        /\ UNCHANGED <<faces, page, unread, next, posted>>
    BY <1>5 DEF Query
  <2>2. WorkLeft' < WorkLeft
    BY <1>1, <2>1 DEF WorkLeft
  <2> QED
    BY <1>4, <2>1, <2>2 DEF Working
<1>6. CASE Fill
  <2>1. thread = "fill" /\ next \in 1..Len(faces) /\ next' = next + 1
        /\ UNCHANGED <<faces, page, unread, thread, posted>>
    BY <1>1, <1>6 DEF Fill
  <2>2. WorkLeft' < WorkLeft
    BY <1>1, <2>1 DEF WorkLeft
  <2> QED
    BY <1>4, <2>1, <2>2 DEF Working, Writing
<1>7. CASE Filled \/ Sort
  <2>1. /\ \/ thread = "fill" /\ thread' = "sort"
           \/ thread = "sort" /\ thread' = "emit"
        /\ UNCHANGED <<faces, page, unread, next, posted>>
    BY <1>7 DEF Filled, Sort
  <2>2. WorkLeft' < WorkLeft
    BY <1>1, <2>1 DEF WorkLeft
  <2> QED
    BY <1>4, <2>1, <2>2 DEF Working, Writing
<1>8. CASE Emit
  <2>1. thread = "emit" /\ thread' = "ended" /\ UNCHANGED <<page, unread>>
    BY <1>8 DEF Emit
  <2>2. WorkLeft' < WorkLeft /\ WorkLeft' <= WorkLeft /\ BoxesLeft' <= BoxesLeft
    BY <2>1 DEF WorkLeft, BoxesLeft
  <2>3. SignalLeft' <= SignalLeft
    BY <2>1 DEF SignalLeft, Working
  <2> QED
    BY <1>3, <2>1, <2>2, <2>3 DEF AliveInv
<1>9. ASSUME NEW b \in Boxes, ReadList(b)
      PROVE  AliveInv' /\ ToShow' < ToShow
  <2>1. page = "build" /\ b \in unread /\ unread' = unread \ {b}
        /\ page' = (IF unread = {b} THEN "open" ELSE "build")
        /\ UNCHANGED <<faces, thread, next, posted>>
    BY <1>9 DEF ReadList
  <2>2. WorkLeft' = WorkLeft /\ SignalLeft' = SignalLeft
    BY <2>1 DEF WorkLeft, SignalLeft
  <2>3. BoxesLeft' < BoxesLeft /\ BoxesLeft' <= BoxesLeft
    BY <1>9, <2>1 DEF BoxesLeft, Boxes
  <2>4. WorkLeft' <= WorkLeft /\ SignalLeft' <= SignalLeft
    BY <2>2, LeftTypes
  <2>5. AliveInv'
    BY <2>1 DEF AliveInv, AlivePage
  <2> QED
    BY <1>3, <2>3, <2>4, <2>5
<1>10. CASE Loaded
  <2>1. posted /\ ~posted' /\ thread = "ended" /\ UNCHANGED <<faces, page, unread, thread, next>>
    BY <1>10 DEF Loaded, ViewInv, BindInv
  <2>2. WorkLeft' = WorkLeft /\ BoxesLeft' = BoxesLeft
    BY <2>1 DEF WorkLeft, BoxesLeft
  <2>3. SignalLeft' < SignalLeft /\ SignalLeft' <= SignalLeft
    BY <2>1 DEF SignalLeft, Working, Writing
  <2>4. WorkLeft' <= WorkLeft /\ BoxesLeft' <= BoxesLeft
    BY <2>2, LeftTypes
  <2> QED
    BY <1>3, <2>1, <2>3, <2>4 DEF AliveInv
<1>11. CASE OpenFonts
  <2>1. page = "closed" /\ page' = "build" /\ unread' = Boxes /\ thread' = "query"
    BY <1>11 DEF OpenFonts
  <2> QED
    BY <2>1 DEF AliveInv, AlivePage, Boxes
<1>12. CASE TornRead \/ CloseFonts \/ Restart
  <2>1. page' \notin AlivePage
    BY <1>12 DEF TornRead, CloseFonts, Restart, Die, AlivePage
  <2> QED
    BY <2>1 DEF AliveInv
<1>13. CASE UNCHANGED fontsVars
  BY <1>13 DEF AliveInv, fontsVars
<1> QED
  BY <1>5, <1>6, <1>7, <1>8, <1>9, <1>10, <1>11, <1>12, <1>13
     DEF FontsNext, Worker

\* For any families and faces: as long as a page stays and its lists are not the
\* finished ones, the worker, a binding or the signal has yet to take a step, and
\* they take no more than one for each face and seven others.
THEOREM ListsArrive ==
  FontsSpec => [](ToShow \in Nat /\ ListsOnTheirWay) /\ ListsComeCloser
<1>1. FontsInit => AliveInv
  BY DEF FontsInit, AliveInv, AlivePage
<1>2. FontsTypeOK /\ FillInv /\ ViewIsModel /\ AliveInv => ListsOnTheirWay
  <2> SUFFICES ASSUME FontsTypeOK, FillInv, ViewIsModel, AliveInv,
                      page \in AlivePage, thread # "failed", thread \notin Working,
                      unread = {}, ~posted
               PROVE  Complete(seen)
    BY DEF ListsOnTheirWay
  <2>1. thread = "ended" /\ page = "open"
    BY DEF FontsTypeOK, AliveInv, AlivePage
  <2>2. seen = Lists /\ Complete(Lists)
    BY <2>1 DEF ViewIsModel, FillInv, ListsComplete
  <2> QED
    BY <2>2
<1>3. /\ FontsTypeOK /\ FillInv /\ ViewInv /\ AliveInv
      /\ (FontsTypeOK /\ FillInv)' /\ [FontsNext]_fontsVars
      => /\ AliveInv'
         /\ [{page, page'} \subseteq AlivePage => ToShow' < ToShow]_fontsVars
  BY CloserStep
<1> QED
  BY <1>1, <1>2, <1>3, LeftTypes, ViewInvInit, ViewInvStep, FontsFilled,
     PageShowsTheLists, PTL DEF FontsSpec, ListsComeCloser

-----------------------------------------------------------------------------
(***************************************************************************)
(* The default applications                                                *)
(***************************************************************************)
LEMMA CategoryFacts ==
  /\ Categories = {"fileManager", "browser", "email", "terminal"}
  /\ \A c \in Categories : ReadKey(c) \in KeysOf(c) /\ KeysOf(c) \subseteq Keys
  /\ \A c, d \in Categories : c # d => KeysOf(c) \cap KeysOf(d) = {}
<1>1. Categories = {"fileManager", "browser", "email", "terminal"}
  <2>1. DOMAIN Tests = 1..4 /\ Tests[1] = "fileManager" /\ Tests[2] = "browser"
        /\ Tests[3] = "email" /\ Tests[4] = "terminal"
    BY DEF Tests
  <2>2. 1..4 = {1, 2, 3, 4}
    OBVIOUS
  <2> QED
    BY <2>1, <2>2 DEF Categories, ToSet
<1>2. \A c \in Categories : ReadKey(c) \in KeysOf(c)
  BY <1>1 DEF ReadKey, KeysOf
<1>3. \A c \in Categories : KeysOf(c) \subseteq Keys
  BY DEF Keys
<1>4. \A c, d \in Categories : c # d => KeysOf(c) \cap KeysOf(d) = {}
  BY <1>1 DEF KeysOf
<1> QED
  BY <1>1, <1>2, <1>3, <1>4

\* The first place of a list with the default's name, 0 if there is none.
LEMMA FirstInList ==
  ASSUME NEW list \in Seq(Apps), NEW f
  PROVE  LET i == SelectInSeq(list, LAMBDA a : a.file = f)
         IN  \/ i = 0 /\ \A j \in DOMAIN list : list[j].file # f
             \/ i \in DOMAIN list /\ list[i].file = f
<1> DEFINE I == {i \in 1..Len(list) : list[i].file = f}
           m == SelectInSeq(list, LAMBDA a : a.file = f)
<1>1. m = IF I # {} THEN Min(I) ELSE 0
  BY DEF SelectInSeq
<1>2. DOMAIN list = 1..Len(list) /\ I \subseteq Nat
  OBVIOUS
<1>3. CASE I = {}
  BY <1>1, <1>2, <1>3
<1>4. CASE I # {}
  <2>1. PICK x \in I : \A y \in I : ~(<<y, x>> \in OpToRel(<, Nat))
    BY <1>2, <1>4, WFMin, NatLessThanWellFounded
  <2>2. \A y \in I : ~(y < x)
    BY <1>2, <2>1 DEF OpToRel
  <2>3. \A y \in I : x <= y
    BY <1>2, <2>2
  <2>4. Min(I) \in I
    BY <2>3 DEF Min
  <2> QED
    BY <1>1, <1>2, <1>4, <2>4
<1> QED
  BY <1>3, <1>4

\* What the page found, in any order.
LEMMA ScanType ==
  ASSUME installed \subseteq Apps, NEW c, NEW list \in SetToSeqs(ListOf(c))
  PROVE  list \in Seq(Apps)
<1> DEFINE S == ListOf(c)
<1>1. S \subseteq Apps
  BY DEF ListOf
<1>2. Cardinality(S) \in Nat
  BY <1>1, AppsAssumption, FS_Subset, FS_CardinalityType
<1>3. list \in [1..Cardinality(S) -> S]
  BY DEF SetToSeqs
<1> QED
  BY <1>1, <1>2, <1>3

LEMMA NothingFacts ==
  Nothing \in [Categories -> Seq(Apps)] /\ \A c \in Categories : 0 \in 0..Len(Nothing[c])
<1>1. <<>> \in Seq(Apps) /\ Len(<<>>) = 0
  OBVIOUS
<1> QED
  BY <1>1 DEF Nothing

AppsInv == AppsTypeOK /\ ShownIsDefault

LEMMA AppsInvInit == AppsInit => AppsInv
<1> SUFFICES ASSUME AppsInit PROVE AppsInv
  OBVIOUS
<1>1. AppsTypeOK
  <2>1. installed \subseteq Apps /\ defaults = [k \in Keys |-> NoFile] /\ viewed = FALSE
        /\ scanned = Nothing /\ current = [c \in Categories |-> 0]
        /\ settled = [c \in Categories |-> "read"] /\ changes = 0
    BY DEF AppsInit
  <2>2. changes \in 0..MaxChanges
    BY <2>1, ChangesAssumption
  <2>3. \A c \in Categories : current[c] \in 0..Len(scanned[c])
    BY <2>1, NothingFacts
  <2> QED
    BY <2>1, <2>2, <2>3, NothingFacts DEF AppsTypeOK
<1> QED
  BY <1>1 DEF AppsInit, AppsInv, ShownIsDefault

LEMMA AppsInvStep == AppsInv /\ [AppsNext]_appsVars => AppsInv'
<1> SUFFICES ASSUME AppsInv, [AppsNext]_appsVars PROVE AppsInv'
  OBVIOUS
<1> USE DEF AppsInv, AppsTypeOK
<1>1. CASE OpenApps
  <2> DEFINE pick(c) == SelectInSeq(scanned'[c], LAMBDA a : a.file = defaults[ReadKey(c)])
  <2>1. scanned' \in [Categories -> Seq(Apps)]
    <3>1. PICK managers \in SetToSeqs(ListOf("fileManager")), browsers \in SetToSeqs(ListOf("browser")),
               emails \in SetToSeqs(ListOf("email")), terminals \in SetToSeqs(ListOf("terminal")) :
            scanned' = [fileManager |-> managers, browser |-> browsers,
                        email |-> emails, terminal |-> terminals]
      BY <1>1 DEF OpenApps
    <3>2. managers \in Seq(Apps) /\ browsers \in Seq(Apps)
          /\ emails \in Seq(Apps) /\ terminals \in Seq(Apps)
      BY ScanType
    <3> QED
      BY <3>1, <3>2, CategoryFacts
  <2>2. \A c \in Categories :
          \/ pick(c) = 0 /\ \A j \in DOMAIN scanned'[c] : scanned'[c][j].file # defaults[ReadKey(c)]
          \/ pick(c) \in DOMAIN scanned'[c] /\ scanned'[c][pick(c)].file = defaults[ReadKey(c)]
    BY <2>1, FirstInList
  <2>3. current' = [c \in Categories |-> pick(c)]
    BY <1>1 DEF OpenApps
  <2> HIDE DEF pick
  <2>4. viewed' = TRUE /\ settled' = [c \in Categories |-> "read"]
        /\ UNCHANGED <<installed, defaults, changes>>
    BY <1>1 DEF OpenApps
  <2>5. ASSUME NEW c \in Categories PROVE pick(c) \in 0..Len(scanned'[c])
    <3>1. Len(scanned'[c]) \in Nat /\ DOMAIN scanned'[c] = 1..Len(scanned'[c])
      BY <2>1
    <3> QED
      BY <2>2, <3>1
  <2>6. AppsTypeOK'
    BY <2>1, <2>3, <2>4, <2>5
  <2>7. ShownIsDefault'
    <3>1. \A c \in Categories : 0 \notin DOMAIN scanned'[c]
      BY <2>1
    <3> QED
      BY <2>2, <2>3, <2>4, <3>1 DEF ShownIsDefault
  <2> QED
    BY <2>6, <2>7
<1>2. CASE CloseApps
  <2>1. viewed' = FALSE /\ scanned' = Nothing /\ current' = [c \in Categories |-> 0]
        /\ settled' = [c \in Categories |-> "read"] /\ UNCHANGED <<installed, defaults, changes>>
    BY <1>2 DEF CloseApps
  <2>2. AppsTypeOK'
    BY <2>1, NothingFacts
  <2> QED
    BY <2>1, <2>2 DEF ShownIsDefault
<1>3. ASSUME NEW c \in Categories, NEW i \in DOMAIN scanned[c], PickDefault(c, i)
      PROVE  AppsInv'
  <2>1. viewed /\ current' = [current EXCEPT ![c] = i]
        /\ defaults' = [k \in Keys |->
              IF k \in KeysOf(c) THEN scanned[c][i].file ELSE defaults[k]]
        /\ settled' = [settled EXCEPT ![c] = "chosen"]
        /\ UNCHANGED <<installed, viewed, scanned, changes>>
    BY <1>3 DEF PickDefault
  <2>2. scanned[c][i] \in Apps /\ i \in 1..Len(scanned[c])
    OBVIOUS
  <2>3. scanned[c][i].file \in Files
    BY <2>2 DEF Files
  <2>4. AppsTypeOK'
    BY <2>1, <2>2, <2>3
  <2>5. \A k \in KeysOf(c) : defaults'[k] = scanned[c][i].file
    BY <2>1, CategoryFacts
  <2>6. \A d \in Categories \ {c} : \A k \in KeysOf(d) : defaults'[k] = defaults[k]
    BY <2>1, CategoryFacts
  <2>7. ShownIsDefault'
    BY <2>1, <2>5, <2>6, CategoryFacts DEF ShownIsDefault
  <2> QED
    BY <2>4, <2>7
<1>4. ASSUME NEW a \in Apps, Install(a) PROVE AppsInv'
  BY <1>4, ChangesAssumption DEF Install, Change, ShownIsDefault
<1>5. ASSUME NEW k \in Keys, NEW f \in Files \cup {NoFile}, OtherPicks(k, f) PROVE AppsInv'
  <2>1. AppsTypeOK'
    BY <1>5, ChangesAssumption DEF OtherPicks, Change
  <2>2. ASSUME viewed, NEW c \in Categories
        PROVE  \/ settled'[c] = "overruled"
               \/ settled'[c] = settled[c] /\ \A l \in KeysOf(c) : defaults'[l] = defaults[l]
    BY <1>5, <2>2 DEF OtherPicks
  <2>3. ShownIsDefault'
    BY <1>5, <2>2, CategoryFacts DEF OtherPicks, ShownIsDefault
  <2> QED
    BY <2>1, <2>3
<1>6. CASE UNCHANGED appsVars
  BY <1>6 DEF appsVars, ShownIsDefault
<1> QED
  BY <1>1, <1>2, <1>3, <1>4, <1>5, <1>6 DEF AppsNext

\* The page's lists and indices and the files of the other programs have their
\* types, however many applications there are and however often they change.
THEOREM AppsTypeCorrect == AppsSpec => []AppsTypeOK
  BY AppsInvInit, AppsInvStep, PTL DEF AppsSpec, AppsInv

\* For any set of applications, whatever is installed, removed or chosen
\* elsewhere: a combo box names the default of its category, or none if its
\* list has no application that is.
THEOREM ComboNamesTheDefault == AppsSpec => []ShownIsDefault
  BY AppsInvInit, AppsInvStep, PTL DEF AppsSpec, AppsInv

-----------------------------------------------------------------------------
(***************************************************************************)
(* The pages together                                                      *)
(***************************************************************************)
\* A step of one page, or of none, is a step or a stutter of every page.
LEMMA PartsStep ==
  [PagesNext]_<<part, fontsVars, vars, appsVars>> =>
    [FontsNext]_fontsVars /\ [Next]_vars /\ [AppsNext]_appsVars
<1> SUFFICES ASSUME [PagesNext]_<<part, fontsVars, vars, appsVars>>
             PROVE  [FontsNext]_fontsVars /\ [Next]_vars /\ [AppsNext]_appsVars
  OBVIOUS
<1>1. CASE part = "fonts" /\ FontsNext /\ UNCHANGED <<part, vars, appsVars>>
  BY <1>1
<1>2. CASE part = "live" /\ Next /\ UNCHANGED <<part, fontsVars, appsVars>>
  BY <1>2
<1>3. CASE part = "apps" /\ AppsNext /\ UNCHANGED <<part, fontsVars, vars>>
  BY <1>3
<1>4. CASE UNCHANGED <<part, fontsVars, vars, appsVars>>
  BY <1>4
<1> QED
  BY <1>1, <1>2, <1>3, <1>4 DEF PagesNext

\* The specification that is run implements that of every page: none needs to
\* know that the others are there.
THEOREM PagesImplementEach == PagesSpec => FontsSpec /\ Spec /\ AppsSpec
<1>1. PagesInit => FontsInit /\ Init /\ AppsInit
  BY DEF PagesInit, FontsRest, LiveRest, AppsRest
<1> QED
  BY <1>1, PartsStep, PTL DEF PagesSpec, FontsSpec, Spec, AppsSpec

\* And so, run fairly, does it implement them with their fairness.
THEOREM PagesAreFairToEach == PagesFairSpec => FontsFairSpec /\ FairSpec
  BY PagesImplementEach, PTL DEF PagesFairSpec, FontsFairSpec, FairSpec

\* The state of every page has its type.
THEOREM PagesTypeCorrect == PagesSpec => []TypesOK
<1>1. FontsTypeOK /\ TypeOK /\ AppsTypeOK => TypesOK
  BY DEF TypesOK
<1> QED
  BY <1>1, PagesImplementEach, FontsTypeCorrect, TypeCorrect, AppsTypeCorrect, PTL

\* What was proved of each page holds of the pages that are run together.
THEOREM PagesShowWhatHolds ==
  PagesSpec => [](/\ ViewIsModel /\ ListsComplete
                  /\ ShownIsValue /\ DecisionStands
                  /\ ShownIsDefault)
  BY PagesImplementEach, PageShowsTheLists, FontListsComplete, ShowsTheValue,
     LastDecisionStands, ComboNamesTheDefault, PTL
=============================================================================
