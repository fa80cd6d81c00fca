----------------------------- MODULE AccountBook -----------------------------
(***************************************************************************)
(* What the user page promises of "Add": the account has the confirmed     *)
(* password from the moment it exists.  Whoever leaves the form alone until *)
(* the account is in the list need not know that the page adds it without  *)
(* a password and sets that when the service announces it.                 *)
(***************************************************************************)
CONSTANTS
    Names,     \* user names
    Passwords, \* what the service keeps of a password
    Unset,     \* the password of an account that has none
    Nothing    \* no such account

VARIABLES
    passwd, \* the password of every account
    coming, \* accounts that have yet to appear in the list
    sure    \* those of them the page added and nobody disturbed

vars == <<passwd, coming, sure>>

Init ==
    /\ passwd \in [Names -> {Unset, Nothing}]
    /\ coming = {} /\ sure = {}

\* The page adds an account.
Add(n, p) ==
    /\ passwd[n] = Nothing /\ p # Nothing
    /\ passwd' = [passwd EXCEPT ![n] = p]
    /\ coming' = coming \cup {n}
    /\ sure' = sure \cup {n}

\* Another program does; a page that is not there will not be told.
OtherAdds(n, p) ==
    /\ passwd[n] = Nothing /\ p # Nothing
    /\ passwd' = [passwd EXCEPT ![n] = p]
    /\ coming' \in {coming, coming \cup {n}}
    /\ UNCHANGED sure

\* The account appears.  Only one that is not sure may have its password set
\* by that.
Appear(n, p) ==
    /\ n \in coming
    /\ IF n \in sure THEN UNCHANGED passwd
       ELSE p # Nothing /\ passwd' = [passwd EXCEPT ![n] = p]
    /\ coming' = coming \ {n}
    /\ sure' = sure \ {n}

\* The user changes the form or leaves: who is coming may be left without a
\* password, or be in the list when the page is opened again.
Disturb ==
    /\ passwd' = [n \in Names |-> IF n \in sure THEN Unset ELSE passwd[n]]
    /\ coming' \in {coming, {}}
    /\ sure' = {}

\* What is in the list can be changed and deleted.
Change(n, p) ==
    /\ passwd[n] # Nothing /\ n \notin coming
    /\ passwd' = [passwd EXCEPT ![n] = p]
    /\ UNCHANGED <<coming, sure>>

Next ==
    \/ Disturb
    \/ \E n \in Names, p \in Passwords :
         Add(n, p) \/ OtherAdds(n, p) \/ Appear(n, p) \/ Change(n, p)

Spec == Init /\ [][Next]_vars
=============================================================================
