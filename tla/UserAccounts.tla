---------------------------- MODULE UserAccounts ----------------------------
(***************************************************************************)
(* The user page: qml/User/Main.qml and UserDelegateItem.qml, with         *)
(* password.cpp, over the accounts service.                                *)
(*                                                                         *)
(* "Add" creates an account without a password.  The password follows when *)
(* the service announces the new account: the handler compares its name    *)
(* with the name field and takes the password field, both as they are      *)
(* then.  Other programs add accounts too, which are announced as well.    *)
(***************************************************************************)
EXTENDS Naturals, Sequences

CONSTANTS
    Names,   \* user names
    Texts,   \* passwords one can type
    Empty,   \* an empty field
    Nothing, \* no such account, or no promise
    LoggedIn \* the user of this session

ASSUME EmptyAssumption == Empty \notin Names \cup Texts
ASSUME NothingAssumption == Nothing \notin Names \cup Texts \cup {Empty}
                                  \cup [hash : Texts \cup {Empty, Nothing}]
ASSUME LoggedInAssumption == LoggedIn \in Names

VARIABLES
    open,     \* the page exists
    form,     \* the fields of "Add new user"
    shown,    \* newUserItem.visible
    accounts, \* the password of every account of the service
    news,     \* UserAdded signals on their way to the page
    promise   \* history: the password confirmed for an account, if nobody
              \* touched the form before its announcement or deleted it since

vars == <<open, form, shown, accounts, news, promise>>

Form == [name : Names \cup {Empty}, password : Texts \cup {Empty},
         verify : Texts \cup {Empty}]
Blank == [name |-> Empty, password |-> Empty, verify |-> Empty]

\* Mutant: the text itself.
cryptNothing(text) == text

\* Password::cryptPassword: one hash for a text, and never the text itself.
cryptPassword(text) == [hash |-> text]

Unset     == [hash |-> Nothing]
Passwords == [hash : Texts \cup {Empty, Nothing}] \cup {Nothing}

TypeOK ==
    /\ open \in BOOLEAN
    /\ form \in Form
    /\ shown \in BOOLEAN
    /\ accounts \in [Names -> Passwords]
    /\ news \in Seq(Names)
    /\ promise \in [Names -> Texts \cup {Empty, Nothing}]

Init ==
    /\ open = FALSE
    /\ form = Blank
    /\ shown = FALSE
    /\ accounts = [n \in Names |-> IF n = LoggedIn THEN Unset ELSE Nothing]
    /\ news = <<>>
    /\ promise = [n \in Names |-> Nothing]

Announced == {news[k] : k \in DOMAIN news}
Listed    == {n \in Names : accounts[n] # Nothing} \ Announced

\* The user has a hand in what the accounts still to be announced will get.
Interfered == [n \in Names |-> IF n \in Announced THEN Nothing ELSE promise[n]]

-----------------------------------------------------------------------------
OpenPage ==
    /\ ~open
    /\ open' = TRUE
    /\ form' = Blank /\ shown' = FALSE
    /\ UNCHANGED <<accounts, news, promise>>

\* The page leaves the stack, and its AccountsManager stops listening.
ClosePage ==
    /\ open
    /\ open' = FALSE
    /\ news' = <<>>
    /\ promise' = Interfered
    /\ UNCHANGED <<form, shown, accounts>>

\* "Add user" shows the form.
ShowForm ==
    /\ open /\ ~shown
    /\ shown' = TRUE
    /\ UNCHANGED <<open, form, accounts, news, promise>>

Type(f) ==
    /\ open /\ shown
    /\ \/ f = [form EXCEPT !.name = f.name]
       \/ f = [form EXCEPT !.password = f.password]
       \/ f = [form EXCEPT !.verify = f.verify]
    /\ f # form
    /\ form' = f
    /\ promise' = Interfered
    /\ UNCHANGED <<open, shown, accounts, news>>

Cancel ==
    /\ open /\ shown
    /\ shown' = FALSE
    /\ form' = Blank
    /\ promise' = Interfered
    /\ UNCHANGED <<open, accounts, news>>

\* createUser blocks; the service refuses a name that exists, or anything else.
Add ==
    /\ open /\ shown
    /\ form.name # Empty /\ form.password # Empty /\ form.password = form.verify
    /\ accounts[form.name] = Nothing
    /\ accounts' = [accounts EXCEPT ![form.name] = Unset]
    /\ news' = Append(news, form.name)
    /\ promise' = [promise EXCEPT ![form.name] = form.password]
    /\ UNCHANGED <<open, form, shown>>

\* Mutants: whoever is announced gets the password; the form is not cleared.
UserAddedAny ==
    /\ open /\ news # <<>>
    /\ accounts' = [accounts EXCEPT ![Head(news)] = cryptPassword(form.password)]
    /\ form' = Blank
    /\ news' = Tail(news)
    /\ UNCHANGED <<open, shown, promise>>

UserAddedKeeps ==
    /\ open /\ news # <<>>
    /\ IF Head(news) = form.name
       THEN accounts' = [accounts EXCEPT ![Head(news)] = cryptPassword(form.password)]
       ELSE UNCHANGED accounts
    /\ news' = Tail(news)
    /\ UNCHANGED <<open, form, shown, promise>>

\* onUserAdded
UserAdded ==
    /\ open /\ news # <<>>
    /\ IF Head(news) = form.name
       THEN /\ accounts' = [accounts EXCEPT ![Head(news)] = cryptPassword(form.password)]
            /\ form' = Blank
       ELSE UNCHANGED <<accounts, form>>
    /\ news' = Tail(news)
    /\ UNCHANGED <<open, shown, promise>>

\* "Change password" of a listed user: what was typed twice.
ChangePassword(n, text) ==
    /\ open /\ n \in Listed
    /\ accounts' = [accounts EXCEPT ![n] = cryptPassword(text)]
    /\ promise' = [promise EXCEPT ![n] = text]
    /\ UNCHANGED <<open, form, shown, news>>

\* "Delete this user", never the one who is logged in.
DeleteUser(n) ==
    /\ open /\ n \in Listed /\ n # LoggedIn
    /\ accounts' = [accounts EXCEPT ![n] = Nothing]
    /\ promise' = [promise EXCEPT ![n] = Nothing]
    /\ UNCHANGED <<open, form, shown, news>>

\* Another program adds an account, with a password of its own or without.
OtherAdds(n) ==
    /\ accounts[n] = Nothing
    /\ \E p \in {Unset} \cup {cryptPassword(t) : t \in Texts} :
          accounts' = [accounts EXCEPT ![n] = p]
    /\ news' = IF open THEN Append(news, n) ELSE news
    /\ UNCHANGED <<open, form, shown, promise>>

Next ==
    \/ OpenPage \/ ClosePage \/ ShowForm \/ Cancel \/ Add \/ UserAdded
    \/ \E f \in Form : Type(f)
    \/ \E n \in Names : OtherAdds(n) \/ DeleteUser(n)
    \/ \E n \in Names, t \in Texts : ChangePassword(n, t)

Spec == Init /\ [][Next]_vars

\* The page's event loop handles the signals that have arrived.
FairSpec == Spec /\ WF_vars(UserAdded)

-----------------------------------------------------------------------------
\* An account added with a password that was typed twice has exactly that
\* password once it has been announced, unless the user changed the form,
\* cancelled or left the page before: no announcement of another account, no
\* second "Add" and no deletion in between gives it another one.
PromiseKept ==
    \A n \in Names : promise[n] # Nothing /\ n \notin Announced =>
        accounts[n] = cryptPassword(promise[n])

\* What was typed for one user is never left in the form for the next one:
\* the name in the form is not one the page has added and seen announced.
FormForgets ==
    [][\A n \in Names : n \in Announced /\ n \notin Announced' /\ open' =>
           form'.name # n]_vars

\* An account with a promise on its way has its password already.
Sure   == {n \in Announced : promise[n] # Nothing}
Passwd == [n \in Names |-> IF n \in Sure THEN cryptPassword(promise[n]) ELSE accounts[n]]

Book == INSTANCE AccountBook WITH passwd <- Passwd, coming <- Announced, sure <- Sure

\* To a user who leaves the form alone, "Add" is one step that gives the account
\* its password, though the page takes two, other accounts are added and
\* announced in between, and the second reads the form again.
AddIsAtomic == Book!Spec

\* A confirmed password is set, or the user interferes.
PromiseFulfilled ==
    \A n \in Names :
        (promise[n] # Nothing /\ n \in Announced)
            ~> (accounts[n] = cryptPassword(promise[n]) \/ promise[n] = Nothing)
=============================================================================
