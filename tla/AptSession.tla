----------------------------- MODULE AptSession -----------------------------
(***************************************************************************)
(* What lm-apt-fast promises the scripts that call it: a run is between    *)
(* taking the lock and giving it back at most once, and there alone, until *)
(* some run is past its session.  That one takes the lock file away from   *)
(* those who wait with it open, so from then on a run that finds another   *)
(* one inside may be let in all the same.  Of two runs the one that is     *)
(* left is alone anyway; three can overlap.  AptFast implements this for   *)
(* any number of runs; PackageTools calls lm-apt-fast through it.          *)
(***************************************************************************)
CONSTANT Runs

VARIABLE phase  \* where each run is: before, inside or past its session

Phases == {"out", "in", "over"}

Init == phase = [r \in Runs |-> "out"]

\* The lock is taken, and nobody else has one.
Enter(r) ==
    /\ phase[r] = "out"
    /\ \A q \in Runs : phase[q] # "in"
    /\ phase' = [phase EXCEPT ![r] = "in"]

\* The lock of one file is taken, while another run has that of another.
EnterBeside(r) ==
    /\ phase[r] = "out"
    /\ \E p, q \in Runs : phase[p] = "in" /\ phase[q] = "over"
    /\ phase' = [phase EXCEPT ![r] = "in"]

\* The run cleans up, whatever made it end.
Leave(r) ==
    /\ phase[r] = "in"
    /\ phase' = [phase EXCEPT ![r] = "over"]

Next == \E r \in Runs : Enter(r) \/ EnterBeside(r) \/ Leave(r)

Spec == Init /\ [][Next]_phase
=============================================================================
