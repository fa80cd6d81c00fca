----------------------------- MODULE MCAptFast -----------------------------
(***************************************************************************)
(* AptFast for TLC: two or three runs as model values.  The runs are       *)
(* interchangeable, so a safety run may use their permutations.            *)
(***************************************************************************)
EXTENDS AptFast, TLC

Symmetry == Permutations(Runs)
=============================================================================
