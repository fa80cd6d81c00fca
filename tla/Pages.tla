-------------------------------- MODULE Pages --------------------------------
(***************************************************************************)
(* The pages that only meet in the window: each has a module of its own,   *)
(* and none reads or writes what another one has.  A behaviour is that of  *)
(* one of them while the others rest; "part" says which.                   *)
(***************************************************************************)
EXTENDS FontsModel, LiveControls, DefaultApps

VARIABLE part

FontsRest ==
    FontsInit /\ faces = <<>>

LiveRest ==
    Init /\ kind = Mouse /\ value = FALSE

AppsRest ==
    AppsInit /\ installed = {}

PagesInit ==
    \/ part = "fonts" /\ FontsInit /\ LiveRest /\ AppsRest
    \/ part = "live"  /\ FontsRest /\ Init /\ AppsRest
    \/ part = "apps"  /\ FontsRest /\ LiveRest /\ AppsInit

PagesNext ==
    \/ part = "fonts" /\ FontsNext /\ UNCHANGED <<part, vars, appsVars>>
    \/ part = "live"  /\ Next /\ UNCHANGED <<part, fontsVars, appsVars>>
    \/ part = "apps"  /\ AppsNext /\ UNCHANGED <<part, fontsVars, vars>>

PagesSpec == PagesInit /\ [][PagesNext]_<<part, fontsVars, vars, appsVars>>

\* A part at rest has no step that fairness asks for.
PagesFairSpec ==
    /\ PagesSpec
    /\ WF_fontsVars(Worker) /\ WF_fontsVars(Loaded)
    /\ WF_fontsVars(TornRead \/ \E b \in Boxes : ReadList(b))
    /\ WF_vars(Pending) /\ WF_vars(Serving)

-----------------------------------------------------------------------------
\* Every page's state has its type.
TypesOK == FontsTypeOK /\ TypeOK /\ AppsTypeOK
=============================================================================
