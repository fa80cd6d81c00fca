----------------------------- MODULE FontsModel -----------------------------
(***************************************************************************)
(* The font lists of the appearance page: fontsmodel.cpp and the two combo *)
(* boxes of qml/Appearance/Main.qml.                                       *)
(*                                                                         *)
(* A FontsModel is a thread that lists the installed fonts.  The page      *)
(* reads both of its lists while it is built, with no lock between the two *)
(* threads, and once more when loadFinished, queued by the worker, reaches *)
(* the GUI thread.  The page owns the thread and may be left at any time.  *)
(***************************************************************************)
EXTENDS Naturals, Sequences, SequencesExt

CONSTANTS
    Families, \* font families, as numbers: their order is that of the names
    MaxFaces  \* bound on the faces fontconfig lists

ASSUME FamiliesAssumption == Families \subseteq Nat \ {0}
ASSUME MaxFacesAssumption == MaxFaces \in Nat

\* An entry of fontconfig's list: a style of a family, which may be fixed in
\* width and may cover the user's language; or one without charset or family.
Unusable == [family |-> 0, fixed |-> FALSE, lang |-> TRUE]
Face     == [family : Families, fixed : BOOLEAN, lang : BOOLEAN]

VARIABLES
    faces,   \* what fontconfig lists
    page,    \* the page, or how the program ended
    unread,  \* the combo boxes whose binding has yet to read its list
    thread,  \* the next step of the worker
    next,    \* the face the worker is at
    general, \* m_generalFonts
    fixed,   \* m_fixedFonts
    posted,  \* loadFinished waits in the GUI thread's queue
    seen     \* the models of the two combo boxes

lists     == <<general, fixed>>
fontsVars == <<faces, page, unread, thread, next, lists, posted, seen>>

Boxes   == {"general", "fixed"}
Writing == {"fill", "sort"}
Working == {"query", "emit"} \cup Writing

FontsTypeOK ==
    /\ faces \in Seq(Face \cup {Unusable})
    /\ page \in {"closed", "build", "open", "aborted"}
    /\ unread \subseteq Boxes
    /\ thread \in {"none", "ended", "failed"} \cup Working
    /\ next \in 1..MaxFaces + 1
    /\ general \in Seq(Families) /\ fixed \in Seq(Families)
    /\ posted \in BOOLEAN
    /\ seen \in [Boxes -> Seq(Families)]

Lists   == [b \in Boxes |-> IF b = "general" THEN general ELSE fixed]
NoLists == [b \in Boxes |-> <<>>]

FontsInit ==
    /\ faces \in BoundedSeq(Face \cup {Unusable}, MaxFaces)
    /\ page = "closed" /\ unread = {}
    /\ thread = "none" /\ next = 1
    /\ general = <<>> /\ fixed = <<>>
    /\ posted = FALSE /\ seen = NoLists

-----------------------------------------------------------------------------
(***************************************************************************)
(* FontsModel::run                                                         *)
(***************************************************************************)
\* Any of fontconfig's calls may fail: run() returns and emits nothing.
Query ==
    /\ thread = "query"
    /\ general' = <<>> /\ fixed' = <<>>
    /\ thread' \in {"fill", "failed"}
    /\ UNCHANGED <<faces, page, unread, next, posted, seen>>

Add(list, family) == IF Contains(list, family) THEN list ELSE Append(list, family)

\* Mutant: a family is listed once per fixed face.
PlaceTwice(f) ==
    IF f.fixed
    THEN fixed' = Append(fixed, f.family) /\ UNCHANGED general
    ELSE /\ general' = IF f.lang THEN Add(general, f.family) ELSE general
         /\ UNCHANGED fixed

\* A second fixed face of a family is no longer taken for a fixed one.
Place(f) ==
    IF f.fixed /\ ~Contains(fixed, f.family)
    THEN fixed' = Append(fixed, f.family) /\ UNCHANGED general
    ELSE /\ general' = IF f.lang THEN Add(general, f.family) ELSE general
         /\ UNCHANGED fixed

\* Mutant: unusable faces are listed.
FillAll ==
    /\ thread = "fill" /\ next \in DOMAIN faces
    /\ Place(faces[next])
    /\ next' = next + 1
    /\ UNCHANGED <<faces, page, unread, thread, posted, seen>>

Fill ==
    /\ thread = "fill" /\ next \in DOMAIN faces
    /\ IF faces[next] = Unusable THEN UNCHANGED lists ELSE Place(faces[next])
    /\ next' = next + 1
    /\ UNCHANGED <<faces, page, unread, thread, posted, seen>>

Filled ==
    /\ thread = "fill" /\ next \notin DOMAIN faces
    /\ thread' = "sort"
    /\ UNCHANGED <<faces, page, unread, next, lists, posted, seen>>

Ascends(list) == \A i, j \in DOMAIN list : i < j => list[i] <= list[j]

\* What std::sort makes of a list: its entries rearranged, in ascending order.
Sorted(list) ==
    {s \in {[i \in DOMAIN list |-> list[p[i]]] : p \in Bijection(DOMAIN list, DOMAIN list)} :
        Ascends(s)}

Sort ==
    /\ thread = "sort"
    /\ general' \in Sorted(general) /\ fixed' \in Sorted(fixed)
    /\ thread' = "emit"
    /\ UNCHANGED <<faces, page, unread, next, posted, seen>>

\* Mutant: only a page that has been built is told.
EmitToOpen ==
    /\ thread = "emit"
    /\ thread' = "ended"
    /\ posted' = (page = "open")
    /\ UNCHANGED <<faces, page, unread, next, lists, seen>>

\* The signal is queued for the GUI thread if a binding listens by then; one
\* that is evaluated later listens first and reads next.
Emit ==
    /\ thread = "emit"
    /\ thread' = "ended"
    /\ posted' = (unread # Boxes)
    /\ UNCHANGED <<faces, page, unread, next, lists, seen>>

-----------------------------------------------------------------------------
(***************************************************************************)
(* The GUI thread                                                          *)
(***************************************************************************)
\* Creating the FontsModel starts its thread, ahead of the page's bindings.
OpenFonts ==
    /\ page = "closed"
    /\ page' = "build" /\ unread' = Boxes
    /\ thread' = "query" /\ next' = 1
    /\ general' = <<>> /\ fixed' = <<>>
    /\ posted' = FALSE /\ seen' = NoLists
    /\ UNCHANGED faces

\* "model: fontsModel.generalFonts" and "model: fontsModel.fixedFonts".
ReadList(b) ==
    /\ page = "build" /\ b \in unread
    /\ seen' = [seen EXCEPT ![b] = Lists[b]]
    /\ unread' = unread \ {b}
    /\ page' = IF unread = {b} THEN "open" ELSE "build"
    /\ UNCHANGED <<faces, thread, next, lists, posted>>

\* The program dies, and the thread with it.
Die ==
    /\ page' = "aborted" /\ thread' = "none" /\ posted' = FALSE
    /\ UNCHANGED <<faces, unread, next, lists, seen>>

\* Copying a list that is being written is undefined: it may crash.
TornRead ==
    /\ page = "build" /\ thread \in Writing
    /\ Die

Loaded ==
    /\ page = "open" /\ posted
    /\ posted' = FALSE
    /\ seen' = Lists
    /\ UNCHANGED <<faces, page, unread, thread, next, lists>>

\* Leaving the page destroys the QThread: fatal while it runs.
CloseFonts ==
    /\ page = "open"
    /\ IF thread \in Working
       THEN Die
       ELSE /\ page' = "closed" /\ thread' = "none" /\ posted' = FALSE
            /\ UNCHANGED <<faces, unread, next, lists, seen>>

Restart ==
    /\ page = "aborted"
    /\ page' = "closed"
    /\ UNCHANGED <<faces, unread, thread, next, lists, posted, seen>>

Worker == Query \/ Fill \/ Filled \/ Sort \/ Emit

FontsNext ==
    \/ Worker \/ OpenFonts \/ TornRead \/ Loaded \/ CloseFonts \/ Restart
    \/ \E b \in Boxes : ReadList(b)

FontsSpec == FontsInit /\ [][FontsNext]_fontsVars

\* The worker runs, a page is built to the end, and the event loop is served.
FontsFairSpec ==
    FontsSpec /\ WF_fontsVars(Worker) /\ WF_fontsVars(Loaded)
         /\ WF_fontsVars(TornRead \/ \E b \in Boxes : ReadList(b))

-----------------------------------------------------------------------------
\* Once the worker is done and its signal was handled, the page shows the
\* worker's lists as they are, however much of them it read while it was built
\* and whichever bindings were there when the signal was emitted.
ViewIsModel ==
    page = "open" /\ thread \in {"ended", "failed"} /\ ~posted => seen = Lists

Usable(i)      == i \in DOMAIN faces /\ faces[i] # Unusable
FixedFamilies  == {faces[i].family : i \in {j \in DOMAIN faces : faces[j].fixed}}
Repeated(i)    == \E j \in 1..i - 1 : faces[j].fixed /\ faces[j].family = faces[i].family
GeneralFamilies ==
    {faces[i].family : i \in {j \in DOMAIN faces :
        Usable(j) /\ faces[j].lang /\ (faces[j].fixed => Repeated(j))}}
Wanted == [b \in Boxes |-> IF b = "general" THEN GeneralFamilies ELSE FixedFamilies]

\* Two lists that hold what is wanted, in order and without repetition.
Complete(view) ==
    \A b \in Boxes : ToSet(view[b]) = Wanted[b] /\ Ascends(view[b]) /\ IsInjective(view[b])

\* When the lists are announced they are sorted and free of repetitions: the
\* fixed ones are the families with a fixed face, the general ones those with
\* a face in the user's language that is not the family's first fixed one.
ListsComplete == thread \in {"emit", "ended"} => Complete(Lists)

\* A page that stays gets the lists, unless fontconfig fails: whether it was
\* still being built when they were announced or not.
FontsAppear ==
    thread \in {"fill", "sort", "emit"}
        ~> (page \notin {"build", "open"} \/ (page = "open" /\ Complete(seen)))
=============================================================================
