-------------------------- MODULE MCDaemonSettings --------------------------
(***************************************************************************)
(* DaemonSettings for TLC: a tab bar of two sizes.                         *)
(***************************************************************************)
EXTENDS DaemonSettings

MCSizes == <<2, 4>>
=============================================================================
