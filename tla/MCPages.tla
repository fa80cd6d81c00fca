------------------------------ MODULE MCPages ------------------------------
(***************************************************************************)
(* Pages for TLC: two desktop files of the same name in two directories,   *)
(* one that passes the tests of two lists, and one of the second of them.  *)
(***************************************************************************)
EXTENDS Pages

MCApps ==
    {[dir |-> 1, file |-> "a", fits |-> {"browser"}],
     [dir |-> 2, file |-> "a", fits |-> {"browser", "terminal"}],
     [dir |-> 1, file |-> "b", fits |-> {"browser", "email"}],
     [dir |-> 2, file |-> "b", fits |-> {"email"}]}
=============================================================================
