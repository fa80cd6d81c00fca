------------------------- MODULE UserAccountsProofs -------------------------
(***************************************************************************)
(* Proofs about UserAccounts: type correctness, and that a confirmed       *)
(* password is the one the new account gets.                               *)
(***************************************************************************)
EXTENDS UserAccounts, TLAPS

\* What is announced has been added, and is announced once.
NewsInv ==
    /\ \A k \in DOMAIN news : accounts[news[k]] # Nothing
    /\ \A j, k \in DOMAIN news : news[j] = news[k] => j = k

\* While an untouched promise waits for its announcement, the form still says
\* what was promised, and the page is there.
FormInv ==
    \A n \in Names : promise[n] # Nothing /\ n \in Announced =>
        open /\ form.name = n /\ form.password = promise[n]

-----------------------------------------------------------------------------
\* A hash is a password and differs from "no account".
LEMMA HashIsPassword ==
    ASSUME NEW t \in Texts \cup {Empty, Nothing}
    PROVE  [hash |-> t] \in Passwords /\ [hash |-> t] # Nothing
BY NothingAssumption DEF Passwords

\* Every variable keeps its type, for any names and texts.
THEOREM TypeCorrect == Spec => []TypeOK
<1>1. Init => TypeOK
  <2> SUFFICES ASSUME Init PROVE TypeOK
    OBVIOUS
  <2>1. Unset \in Passwords /\ Nothing \in Passwords
    BY HashIsPassword DEF Unset, Passwords
  <2>2. accounts \in [Names -> Passwords]
    BY <2>1 DEF Init
  <2>3. open \in BOOLEAN /\ shown \in BOOLEAN
    BY Zenon DEF Init
  <2> QED
    BY <2>2, <2>3 DEF Init, TypeOK, Blank, Form
<1>2. TypeOK /\ [Next]_vars => TypeOK'
  <2> SUFFICES ASSUME TypeOK, [Next]_vars PROVE TypeOK'
    OBVIOUS
  <2> USE DEF TypeOK
  <2> Interfered \in [Names -> Texts \cup {Empty, Nothing}]
    BY DEF Interfered
  <2> Blank \in Form
    BY DEF Blank, Form
  <2>1. CASE OpenPage
    BY <2>1 DEF OpenPage
  <2>2. CASE ClosePage
    <3>1. news' \in Seq(Names) /\ promise' \in [Names -> Texts \cup {Empty, Nothing}]
      BY <2>2 DEF ClosePage
    <3>2. open' \in BOOLEAN
      BY <2>2, Zenon DEF ClosePage
    <3>3. UNCHANGED <<form, shown, accounts>>
      BY <2>2 DEF ClosePage
    <3> QED
      BY <3>1, <3>2, <3>3
  <2>3. CASE ShowForm
    BY <2>3 DEF ShowForm
  <2>4. CASE \E f \in Form : Type(f)
    BY <2>4 DEF Type
  <2>5. CASE Cancel
    BY <2>5 DEF Cancel
  <2>6. CASE Add
    BY <2>6, HashIsPassword DEF Add, Unset, Form
  <2>7. CASE UserAdded
    <3>1. Head(news) \in Names /\ Tail(news) \in Seq(Names)
      BY <2>7 DEF UserAdded
    <3>2. cryptPassword(form.password) \in Passwords
      BY HashIsPassword DEF cryptPassword, Form
    <3> QED
      BY <2>7, <3>1, <3>2 DEF UserAdded
  <2>8. CASE \E n \in Names : OtherAdds(n)
    BY <2>8, HashIsPassword DEF OtherAdds, Unset, cryptPassword
  <2>9. CASE \E n \in Names : DeleteUser(n)
    BY <2>9 DEF DeleteUser, Passwords
  <2>10. CASE \E n \in Names, t \in Texts : ChangePassword(n, t)
    BY <2>10, HashIsPassword DEF ChangePassword, cryptPassword
  <2>11. CASE UNCHANGED vars
    BY <2>11 DEF vars
  <2> QED
    BY <2>1, <2>2, <2>3, <2>4, <2>5, <2>6, <2>7, <2>8, <2>9, <2>10, <2>11 DEF Next
<1> QED
  BY <1>1, <1>2, PTL DEF Spec

-----------------------------------------------------------------------------
LEMMA AppendNews ==
    ASSUME NEW s \in Seq(Names), NEW n \in Names
    PROVE  LET t == Append(s, n)
           IN  /\ DOMAIN t = DOMAIN s \cup {Len(s) + 1}
               /\ \A k \in DOMAIN s : t[k] = s[k]
               /\ t[Len(s) + 1] = n
               /\ {t[k] : k \in DOMAIN t} = {s[k] : k \in DOMAIN s} \cup {n}
               /\ Len(s) + 1 \notin DOMAIN s
OBVIOUS

LEMMA TailNews ==
    ASSUME NEW s \in Seq(Names), s # <<>>,
           \A j, k \in DOMAIN s : s[j] = s[k] => j = k
    PROVE  LET t == Tail(s)
           IN  /\ \A k \in DOMAIN t : k + 1 \in DOMAIN s /\ t[k] = s[k + 1]
               /\ \A j, k \in DOMAIN t : t[j] = t[k] => j = k
               /\ {t[k] : k \in DOMAIN t} = {s[k] : k \in DOMAIN s} \ {Head(s)}
<1> DEFINE t == Tail(s)
<1>1. DOMAIN t = 1..(Len(s) - 1) /\ DOMAIN s = 1..Len(s) /\ Len(s) \in Nat \ {0}
  OBVIOUS
<1>2. \A k \in DOMAIN t : k + 1 \in DOMAIN s /\ t[k] = s[k + 1]
  BY <1>1
<1>3. Head(s) = s[1] /\ 1 \in DOMAIN s
  BY <1>1
<1>4. ASSUME NEW k \in DOMAIN s, k # 1
      PROVE  k - 1 \in DOMAIN t /\ t[k - 1] = s[k]
  <2>1. k \in 1..Len(s)
    BY <1>1
  <2>2. k - 1 \in 1..(Len(s) - 1) /\ (k - 1) + 1 = k
    BY <1>1, <1>4, <2>1
  <2>3. k - 1 \in DOMAIN t
    BY <1>1, <2>2
  <2> QED
    BY <1>2, <2>2, <2>3
<1>5. \A k \in DOMAIN t : t[k] # Head(s)
  <2> SUFFICES ASSUME NEW k \in DOMAIN t, t[k] = Head(s) PROVE FALSE
    OBVIOUS
  <2>1. k + 1 = 1
    BY <1>2, <1>3
  <2> QED
    BY <1>1, <2>1
<1>6. \A j, k \in DOMAIN t : t[j] = t[k] => j = k
  <2> SUFFICES ASSUME NEW j \in DOMAIN t, NEW k \in DOMAIN t, t[j] = t[k]
               PROVE  j = k
    OBVIOUS
  <2>1. j + 1 = k + 1
    BY <1>2
  <2> QED
    BY <1>1, <2>1
<1>7. {t[k] : k \in DOMAIN t} \subseteq {s[k] : k \in DOMAIN s} \ {Head(s)}
  BY <1>2, <1>5
<1>8. {s[k] : k \in DOMAIN s} \ {Head(s)} \subseteq {t[k] : k \in DOMAIN t}
  BY <1>3, <1>4
<1> QED
  BY <1>2, <1>6, <1>7, <1>8

\* The strengthening of PromiseKept: a promise on its way is still in the form,
\* and an account with a promise exists.
PromiseInv == NewsInv /\ FormInv /\ PromiseKept

LEMMA PromisedExist ==
    ASSUME TypeOK, PromiseInv, NEW n \in Names, promise[n] # Nothing
    PROVE  accounts[n] # Nothing
<1>1. CASE n \in Announced
  BY <1>1 DEF PromiseInv, NewsInv, Announced
<1>2. CASE n \notin Announced
  BY <1>2, HashIsPassword DEF PromiseInv, PromiseKept, TypeOK, cryptPassword
<1> QED
  BY <1>1, <1>2

LEMMA PromiseStep ==
    ASSUME TypeOK, PromiseInv, [Next]_vars
    PROVE  PromiseInv'
<1> USE DEF PromiseInv
<1>i. \A n \in Names : Interfered[n] # Nothing => n \notin Announced /\ promise[n] # Nothing
                                                  /\ Interfered[n] = promise[n]
  BY DEF Interfered
<1>n. /\ \A k \in DOMAIN news : news[k] \in Names
      /\ news' = news => Announced' = Announced
  BY DEF TypeOK, Announced
<1>1. CASE OpenPage \/ ShowForm \/ UNCHANGED vars
  BY <1>1, <1>n DEF OpenPage, ShowForm, vars, NewsInv, FormInv, PromiseKept
<1>2. CASE ClosePage
  <2>1. Announced' = {}
    BY <1>2 DEF ClosePage, Announced
  <2> QED
    BY <1>2, <1>i, <2>1 DEF ClosePage, NewsInv, FormInv, PromiseKept
<1>3. CASE (\E f \in Form : Type(f)) \/ Cancel
  BY <1>3, <1>i, <1>n DEF Type, Cancel, NewsInv, FormInv, PromiseKept
<1>4. ASSUME NEW n \in Names, NEW pw \in Passwords,
             accounts[n] = Nothing, pw # Nothing,
             accounts' = [accounts EXCEPT ![n] = pw],
             news' = Append(news, n)
      PROVE  /\ NewsInv' /\ Announced' = Announced \cup {n}
             /\ n \notin Announced /\ promise[n] = Nothing
  <2>1. n \notin Announced
    BY <1>4 DEF NewsInv, Announced
  <2>2. promise[n] = Nothing
    BY <1>4, PromisedExist
  <2>3. Announced' = Announced \cup {n}
    BY <1>4, AppendNews DEF TypeOK, Announced
  <2>4. NewsInv'
    BY <1>4, <2>1, AppendNews DEF TypeOK, NewsInv, Announced
  <2> QED
    BY <2>1, <2>2, <2>3, <2>4
<1>5. CASE Add
  <2> DEFINE n == form.name
  <2>1. /\ n \in Names /\ Unset \in Passwords /\ Unset # Nothing
        /\ form.password \in Texts /\ form.password # Nothing
    BY <1>5, HashIsPassword, NothingAssumption DEF Add, TypeOK, Form, Unset
  <2>2. NewsInv' /\ Announced' = Announced \cup {n} /\ n \notin Announced
    BY <1>4, <1>5, <2>1 DEF Add
  <2>3. FormInv'
    BY <1>5, <2>1, <2>2 DEF Add, TypeOK, FormInv
  <2>4. PromiseKept'
    BY <1>5, <2>1, <2>2 DEF Add, TypeOK, PromiseKept
  <2> QED
    BY <2>2, <2>3, <2>4
<1>6. CASE UserAdded
  <2> DEFINE n == Head(news)
  <2>1. news' = Tail(news) /\ news # <<>> /\ n \in Names
    BY <1>6 DEF UserAdded, TypeOK
  <2>2. /\ Announced' = Announced \ {n} /\ n \in Announced
        /\ \A k \in DOMAIN news' : k + 1 \in DOMAIN news /\ news'[k] = news[k + 1]
        /\ \A j, k \in DOMAIN news' : news'[j] = news'[k] => j = k
    <3>1. n = news[1] /\ 1 \in DOMAIN news
      BY <2>1 DEF TypeOK
    <3>2. news \in Seq(Names) /\ \A j, k \in DOMAIN news : news[j] = news[k] => j = k
      BY DEF TypeOK, NewsInv
    <3>3. /\ \A k \in DOMAIN Tail(news) :
                k + 1 \in DOMAIN news /\ Tail(news)[k] = news[k + 1]
          /\ \A j, k \in DOMAIN Tail(news) : Tail(news)[j] = Tail(news)[k] => j = k
          /\ {Tail(news)[k] : k \in DOMAIN Tail(news)}
                = {news[k] : k \in DOMAIN news} \ {Head(news)}
      BY <2>1, <3>2, TailNews
    <3>4. Announced' = Announced \ {n}
      BY <2>1, <3>3 DEF Announced
    <3>5. n \in Announced
      BY <3>1 DEF Announced
    <3> QED
      BY <2>1, <3>3, <3>4, <3>5
  <2>3. cryptPassword(form.password) # Nothing
    BY HashIsPassword DEF TypeOK, Form, cryptPassword
  <2>4. NewsInv'
    <3>1. \A m \in Names : accounts[m] # Nothing => accounts'[m] # Nothing
      BY <1>6, <2>1, <2>3 DEF UserAdded, TypeOK
    <3> QED
      BY <1>n, <2>2, <3>1 DEF NewsInv
  <2>5. FormInv'
    <3> SUFFICES ASSUME NEW m \in Names, promise[m] # Nothing, m \in Announced, m # n
                 PROVE  open' /\ form'.name = m /\ form'.password = promise[m]
      BY <1>6, <2>2 DEF UserAdded, FormInv
    <3>1. open /\ form.name = m /\ form.password = promise[m]
      BY DEF FormInv
    <3> QED
      BY <1>6, <3>1 DEF UserAdded
  <2>6. PromiseKept'
    <3> SUFFICES ASSUME NEW m \in Names, promise[m] # Nothing,
                        m \notin Announced \/ m = n
                 PROVE  accounts'[m] = cryptPassword(promise[m])
      BY <1>6, <2>2 DEF UserAdded, PromiseKept
    <3>1. CASE m = n
      <4>1. form.name = n /\ form.password = promise[n]
        BY <2>2, <3>1 DEF FormInv
      <4> QED
        BY <1>6, <3>1, <4>1 DEF UserAdded, TypeOK
    <3>2. CASE m # n
      BY <1>6, <3>2 DEF UserAdded, TypeOK, PromiseKept
    <3> QED
      BY <3>1, <3>2
  <2> QED
    BY <2>4, <2>5, <2>6
<1>7. ASSUME NEW n \in Names, OtherAdds(n) PROVE PromiseInv'
  <2>1. PICK pw \in {Unset} \cup {cryptPassword(t) : t \in Texts} :
            accounts' = [accounts EXCEPT ![n] = pw]
    BY <1>7 DEF OtherAdds
  <2>2. pw \in Passwords /\ pw # Nothing /\ accounts[n] = Nothing
    BY <1>7, <2>1, HashIsPassword DEF OtherAdds, Unset, cryptPassword
  <2>3. promise[n] = Nothing /\ promise' = promise /\ form' = form /\ open' = open
    BY <1>7, <2>2, PromisedExist DEF OtherAdds
  <2>4. CASE open
    <3>1. NewsInv' /\ Announced' = Announced \cup {n}
      BY <1>4, <1>7, <2>1, <2>2, <2>4 DEF OtherAdds
    <3> QED
      BY <2>1, <2>3, <3>1 DEF TypeOK, FormInv, PromiseKept
  <2>5. CASE ~open
    <3>1. news' = news
      BY <1>7, <2>5 DEF OtherAdds
    <3> QED
      BY <1>n, <2>1, <2>2, <2>3, <3>1 DEF TypeOK, NewsInv, FormInv, PromiseKept
  <2> QED
    BY <2>4, <2>5
<1>8. ASSUME NEW n \in Names, DeleteUser(n) PROVE PromiseInv'
  <2>1. n \notin Announced
    BY <1>8 DEF DeleteUser, Listed
  <2>2. NewsInv'
    BY <1>8, <1>n, <2>1 DEF DeleteUser, TypeOK, NewsInv, Announced
  <2> QED
    BY <1>8, <1>n, <2>1, <2>2 DEF DeleteUser, TypeOK, FormInv, PromiseKept
<1>9. ASSUME NEW n \in Names, NEW t \in Texts, ChangePassword(n, t) PROVE PromiseInv'
  <2>1. n \notin Announced
    BY <1>9 DEF ChangePassword, Listed
  <2>2. cryptPassword(t) # Nothing
    BY HashIsPassword DEF cryptPassword
  <2>3. NewsInv'
    BY <1>9, <1>n, <2>2 DEF ChangePassword, TypeOK, NewsInv
  <2> QED
    BY <1>9, <1>n, <2>1, <2>3 DEF ChangePassword, TypeOK, FormInv, PromiseKept
<1> QED
  BY <1>1, <1>2, <1>3, <1>5, <1>6, <1>7, <1>8, <1>9 DEF Next

\* An account added with a confirmed password has that password once it has
\* been announced, for any names, texts and other programs (PromiseKept).
THEOREM ConfirmedIsSet == Spec => []PromiseKept
<1>1. Init => PromiseInv
  BY DEF Init, PromiseInv, NewsInv, FormInv, PromiseKept, Announced
<1>2. PromiseInv /\ TypeOK /\ [Next]_vars => PromiseInv'
  BY PromiseStep
<1>3. PromiseInv => PromiseKept
  BY DEF PromiseInv
<1> QED
  BY <1>1, <1>2, <1>3, TypeCorrect, PTL DEF Spec

\* The form never keeps the name of a user whose announcement has been handled:
\* what was typed for one user cannot reach the next (FormForgets).
THEOREM FormIsCleared == Spec => FormForgets
<1>1. ASSUME TypeOK, [Next]_vars, NEW n \in Names,
             n \in Announced, n \notin Announced', open'
      PROVE  form'.name # n
  <2>1. CASE news' = news
    BY <1>1, <2>1 DEF Announced
  <2>2. ASSUME NEW m \in Names, news' = Append(news, m) PROVE FALSE
    <3>1. Announced' = Announced \cup {m}
      BY <1>1, <2>2, AppendNews DEF TypeOK, Announced
    <3> QED
      BY <1>1, <3>1
  <2>3. CASE UserAdded
    <3>1. PICK k \in DOMAIN news : news[k] = n
      BY <1>1 DEF Announced
    <3>2. news \in Seq(Names) /\ news # <<>> /\ news' = Tail(news)
      BY <1>1, <2>3 DEF UserAdded, TypeOK
    <3>3. CASE k # 1
      <4>1. k \in 1..Len(news) /\ Len(news) \in Nat
        BY <3>1, <3>2
      <4>2. k - 1 \in DOMAIN Tail(news) /\ Tail(news)[k - 1] = news[k]
        BY <3>2, <3>3, <4>1
      <4> QED
        BY <1>1, <3>1, <3>2, <4>2 DEF Announced
    <3>4. CASE k = 1
      <4>1. Head(news) = n
        BY <3>1, <3>2, <3>4
      <4>2. n # Empty
        BY EmptyAssumption
      <4> QED
        BY <2>3, <4>1, <4>2 DEF UserAdded, Blank
    <3> QED
      BY <3>3, <3>4
  <2>4. CASE Add
    <3>1. form.name \in Names /\ news' = Append(news, form.name)
      BY <1>1, <2>4 DEF Add, TypeOK, Form
    <3> QED
      BY <2>2, <3>1
  <2>5. CASE ClosePage
    BY <1>1, <2>5 DEF ClosePage
  <2>6. ASSUME NEW m \in Names, OtherAdds(m) PROVE form'.name # n
    BY <2>1, <2>2, <2>6 DEF OtherAdds
  <2>7. CASE \/ OpenPage \/ ShowForm \/ Cancel \/ UNCHANGED vars
             \/ \E f \in Form : Type(f)
             \/ \E m \in Names : DeleteUser(m)
             \/ \E m \in Names, t \in Texts : ChangePassword(m, t)
    BY <2>1, <2>7 DEF OpenPage, ShowForm, Cancel, Type, DeleteUser, ChangePassword, vars
  <2> QED
    BY <1>1, <2>3, <2>4, <2>5, <2>6, <2>7 DEF Next
<1>2. TypeOK /\ [Next]_vars =>
        [\A n \in Names : n \in Announced /\ n \notin Announced' /\ open' =>
             form'.name # n]_vars
  BY <1>1
<1> QED
  BY <1>2, TypeCorrect, PTL DEF Spec, FormForgets

-----------------------------------------------------------------------------
(***************************************************************************)
(* The page implements AccountBook.                                        *)
(***************************************************************************)

\* An account whose promise is on its way has no password yet.
UnsetInv == \A n \in Sure : accounts[n] = Unset

\* How a step changes what is announced, and what it means for the book.
LEMMA BookStep ==
    ASSUME TypeOK, PromiseInv, UnsetInv, [Next]_vars
    PROVE  UnsetInv' /\ [Book!Next]_(Book!vars)
<1> DEFINE Goal == UnsetInv' /\ [Book!Next]_(Book!vars)
<1>n. /\ \A k \in DOMAIN news : news[k] \in Names
      /\ Announced \subseteq Names
      /\ news' = news => Announced' = Announced
  BY DEF TypeOK, Announced
<1>1. CASE OpenPage \/ ShowForm \/ UNCHANGED vars
  <2>1. UNCHANGED <<accounts, news, promise>> /\ Announced' = Announced
    BY <1>1, <1>n DEF OpenPage, ShowForm, vars
  <2>2. Sure' = Sure
    BY <2>1 DEF Sure
  <2>3. Passwd' = Passwd
    BY <2>1, <2>2 DEF Passwd, cryptPassword
  <2> QED
    BY <2>1, <2>2, <2>3 DEF UnsetInv, Book!vars
<1>2. CASE ClosePage \/ Cancel \/ \E f \in Form : Type(f)
  <2>1. accounts' = accounts /\ promise' = Interfered /\ Announced' \in {Announced, {}}
    BY <1>2, <1>n DEF ClosePage, Cancel, Type, Announced
  <2>2. Sure' = {}
    BY <2>1, <1>n DEF Sure, Interfered
  <2>3. Passwd' = [n \in Names |-> IF n \in Sure THEN Unset ELSE Passwd[n]]
    BY <2>1, <2>2 DEF Passwd, UnsetInv
  <2>4. Book!Disturb
    BY <2>1, <2>2, <2>3 DEF Book!Disturb
  <2> QED
    BY <2>2, <2>4 DEF UnsetInv, Book!Next
\* An account that is new has not been promised.
<1>3. ASSUME NEW n \in Names, NEW p \in Passwords, accounts[n] = Nothing, p # Nothing,
             accounts' = [accounts EXCEPT ![n] = p],
             news' = Append(news, n) \/ news' = news
      PROVE  /\ n \notin Announced /\ promise[n] = Nothing /\ Passwd[n] = Nothing
             /\ news' = Append(news, n) => Announced' = Announced \cup {n}
  <2>1. n \notin Announced
    BY <1>3 DEF PromiseInv, NewsInv, Announced
  <2>2. promise[n] = Nothing
    BY <1>3, PromisedExist
  <2>3. news' = Append(news, n) => Announced' = Announced \cup {n}
    BY AppendNews DEF TypeOK, Announced
  <2> QED
    BY <1>3, <2>1, <2>2, <2>3 DEF Passwd, Sure
<1>4. CASE Add
  <2> DEFINE n == form.name
             p == cryptPassword(form.password)
  <2>1. /\ n \in Names /\ Unset \in Passwords /\ Unset # Nothing
        /\ p \in Passwords /\ p # Nothing
        /\ form.password \in Texts /\ form.password # Nothing
    BY <1>4, HashIsPassword, NothingAssumption
       DEF Add, TypeOK, Form, Unset, cryptPassword
  <2>2. /\ accounts[n] = Nothing /\ accounts' = [accounts EXCEPT ![n] = Unset]
        /\ news' = Append(news, n) /\ promise' = [promise EXCEPT ![n] = form.password]
    BY <1>4 DEF Add
  <2>3. /\ n \notin Announced /\ promise[n] = Nothing /\ Passwd[n] = Nothing
        /\ Announced' = Announced \cup {n}
    BY <1>3, <2>1, <2>2
  <2>4. Sure' = Sure \cup {n}
    BY <2>1, <2>2, <2>3, <1>n DEF Sure, TypeOK
  <2>5. Passwd' = [Passwd EXCEPT ![n] = p]
    BY <2>1, <2>2, <2>3, <2>4, <1>n DEF Passwd, TypeOK, Sure
  <2>6. UnsetInv'
    BY <2>1, <2>2, <2>3, <2>4, <1>n DEF UnsetInv, TypeOK, Sure
  <2>7. Book!Add(n, p)
    BY <2>1, <2>3, <2>4, <2>5 DEF Book!Add
  <2> QED
    BY <2>1, <2>6, <2>7 DEF Book!Next
<1>5. CASE UserAdded
  <2> DEFINE n == Head(news)
             p == accounts'[n]
  <2>1. news' = Tail(news) /\ news # <<>> /\ n \in Names /\ promise' = promise
    BY <1>5 DEF UserAdded, TypeOK
  <2>2. Announced' = Announced \ {n} /\ n \in Announced
    <3>1. n = news[1] /\ 1 \in DOMAIN news
      BY <2>1 DEF TypeOK
    <3>2. news \in Seq(Names) /\ \A j, k \in DOMAIN news : news[j] = news[k] => j = k
      BY DEF TypeOK, PromiseInv, NewsInv
    <3>3. {Tail(news)[k] : k \in DOMAIN Tail(news)}
             = {news[k] : k \in DOMAIN news} \ {Head(news)}
      BY <2>1, <3>2, TailNews
    <3> QED
      BY <2>1, <3>1, <3>3 DEF Announced
  <2>3. cryptPassword(form.password) \in Passwords /\ cryptPassword(form.password) # Nothing
    BY HashIsPassword DEF TypeOK, Form, cryptPassword
  <2>4. p \in Passwords /\ p # Nothing /\ \A m \in Names \ {n} : accounts'[m] = accounts[m]
    BY <1>5, <2>1, <2>2, <2>3 DEF UserAdded, TypeOK, PromiseInv, NewsInv, Announced
  <2>5. Sure' = Sure \ {n}
    BY <2>1, <2>2 DEF Sure
  <2>6. n \in Sure => p = cryptPassword(promise[n])
    BY <1>5, <2>1 DEF UserAdded, TypeOK, PromiseInv, FormInv, Sure
  <2>7. Passwd' = [Passwd EXCEPT ![n] = p]
    BY <2>1, <2>4, <2>5 DEF Passwd
  <2>8. n \in Sure => Passwd' = Passwd
    BY <2>1, <2>6, <2>7 DEF Passwd
  <2>9. Book!Appear(n, p)
    BY <2>2, <2>4, <2>5, <2>7, <2>8 DEF Book!Appear
  <2>10. UnsetInv'
    BY <1>n, <2>4, <2>5 DEF UnsetInv, Sure
  <2> QED
    BY <2>1, <2>4, <2>9, <2>10 DEF Book!Next
<1>6. ASSUME NEW n \in Names, OtherAdds(n) PROVE Goal
  <2>1. PICK p \in {Unset} \cup {cryptPassword(t) : t \in Texts} :
            accounts' = [accounts EXCEPT ![n] = p]
    BY <1>6 DEF OtherAdds
  <2>2. p \in Passwords /\ p # Nothing /\ accounts[n] = Nothing
    BY <1>6, <2>1, HashIsPassword DEF OtherAdds, Unset, cryptPassword
  <2>3. promise' = promise /\ (news' = Append(news, n) \/ news' = news)
    BY <1>6 DEF OtherAdds
  <2>4. /\ n \notin Announced /\ promise[n] = Nothing /\ Passwd[n] = Nothing
        /\ Announced' \in {Announced, Announced \cup {n}}
    BY <1>3, <1>n, <2>1, <2>2, <2>3
  <2>5. Sure' = Sure /\ n \notin Sure
    BY <2>3, <2>4 DEF Sure
  <2>6. Passwd' = [Passwd EXCEPT ![n] = p]
    BY <2>1, <2>3, <2>5 DEF Passwd, TypeOK
  <2>7. Book!OtherAdds(n, p)
    BY <2>2, <2>4, <2>5, <2>6 DEF Book!OtherAdds
  <2>8. UnsetInv'
    BY <1>n, <2>1, <2>5 DEF UnsetInv, TypeOK, Sure
  <2> QED
    BY <2>2, <2>7, <2>8 DEF Book!Next
\* A listed account is changed or deleted.
<1>7. ASSUME NEW n \in Names, n \in Listed, NEW p \in Passwords, NEW t,
             accounts' = [accounts EXCEPT ![n] = p],
             promise' = [promise EXCEPT ![n] = t], news' = news
      PROVE  Goal
  <2>1. n \notin Announced /\ accounts[n] # Nothing /\ Announced' = Announced
    BY <1>7, <1>n DEF Listed
  <2>2. Sure' = Sure /\ n \notin Sure
    BY <1>7, <1>n, <2>1 DEF Sure, TypeOK
  <2>3. Passwd' = [Passwd EXCEPT ![n] = p]
    BY <1>7, <1>n, <2>2 DEF Passwd, TypeOK, Sure
  <2>4. Passwd[n] # Nothing
    BY <2>1, <2>2 DEF Passwd
  <2>5. Book!Change(n, p)
    BY <2>1, <2>2, <2>3, <2>4 DEF Book!Change
  <2>6. UnsetInv'
    BY <1>7, <1>n, <2>2 DEF UnsetInv, TypeOK, Sure
  <2> QED
    BY <1>7, <2>5, <2>6 DEF Book!Next
<1>8. ASSUME NEW n \in Names, DeleteUser(n) PROVE Goal
  BY <1>7, <1>8 DEF DeleteUser, Passwords
<1>9. ASSUME NEW n \in Names, NEW t \in Texts, ChangePassword(n, t) PROVE Goal
  BY <1>7, <1>9, HashIsPassword DEF ChangePassword, cryptPassword
<1> QED
  BY <1>1, <1>2, <1>4, <1>5, <1>6, <1>8, <1>9 DEF Next

\* To a user who leaves the form alone, "Add" is one step: for any names, texts
\* and other programs, the page implements a book in which an account has its
\* confirmed password from the moment it exists (AddIsAtomic).
THEOREM PageKeepsTheBook == Spec => AddIsAtomic
<1>1. Init => PromiseInv /\ UnsetInv
  BY DEF Init, PromiseInv, NewsInv, FormInv, PromiseKept, UnsetInv, Sure, Announced
<1>2. Init => Book!Init
  BY DEF Init, Book!Init, Passwd, Sure, Announced
<1>3. TypeOK /\ PromiseInv /\ [Next]_vars => PromiseInv'
  BY PromiseStep
<1>4. TypeOK /\ PromiseInv /\ UnsetInv /\ [Next]_vars =>
         UnsetInv' /\ [Book!Next]_(Book!vars)
  BY BookStep
<1> QED
  BY <1>1, <1>2, <1>3, <1>4, TypeCorrect, PTL DEF Spec, AddIsAtomic, Book!Spec

-----------------------------------------------------------------------------
(***************************************************************************)
(* Announcements come in order: what PromiseFulfilled rests on besides the *)
(* fairness of the event loop.                                             *)
(***************************************************************************)

\* A page that is there handles what has arrived.
Handles == news # <<>> => open

\* A promise on its way is disturbed, keeps its place in the line, or gets one
\* place nearer, and is set when it is its turn; a handled announcement moves
\* the whole line.
NextInLine ==
    [][\A n \in Names, k \in DOMAIN news : promise[n] # Nothing /\ news[k] = n =>
         \/ promise'[n] = Nothing
         \/ ~UserAdded /\ k \in DOMAIN news' /\ news'[k] = n
         \/ k > 1 /\ k - 1 \in DOMAIN news' /\ news'[k - 1] = n
         \/ k = 1 /\ accounts'[n] = cryptPassword(promise[n])]_vars

LEMMA LineStep ==
    ASSUME TypeOK, PromiseInv, [Next]_vars, ~UNCHANGED vars,
           NEW n \in Names, NEW k \in DOMAIN news, promise[n] # Nothing, news[k] = n
    PROVE  \/ promise'[n] = Nothing
           \/ ~UserAdded /\ k \in DOMAIN news' /\ news'[k] = n
           \/ k > 1 /\ k - 1 \in DOMAIN news' /\ news'[k - 1] = n
           \/ k = 1 /\ accounts'[n] = cryptPassword(promise[n])
<1>1. n \in Announced /\ k \in 1..Len(news) /\ Len(news) \in Nat
  BY DEF Announced, TypeOK
<1>2. CASE ClosePage \/ Cancel \/ \E f \in Form : Type(f)
  BY <1>1, <1>2 DEF ClosePage, Cancel, Type, Interfered
<1>3. CASE UserAdded
  <2>1. news \in Seq(Names) /\ news # <<>> /\ news' = Tail(news)
    BY <1>3 DEF UserAdded, TypeOK
  <2>2. CASE k = 1
    <3>1. Head(news) = n
      BY <2>1, <2>2
    <3>2. form.name = n /\ form.password = promise[n]
      BY <1>1 DEF PromiseInv, FormInv
    <3> QED
      BY <1>3, <2>2, <3>1, <3>2 DEF UserAdded, TypeOK
  <2>3. CASE k # 1
    <3>1. k > 1 /\ k - 1 \in 1..Len(news) - 1
      BY <1>1, <2>3
    <3>2. k - 1 \in DOMAIN Tail(news) /\ Tail(news)[k - 1] = news[k]
      BY <1>1, <2>1, <3>1
    <3> QED
      BY <2>1, <3>1, <3>2
  <2> QED
    BY <2>2, <2>3
<1>4. CASE ~(ClosePage \/ Cancel \/ UserAdded \/ \E f \in Form : Type(f))
  <2>1. news' = news \/ \E m \in Names : news' = Append(news, m)
    BY <1>4 DEF Next, OpenPage, ShowForm, Add, OtherAdds, DeleteUser, ChangePassword,
                TypeOK, Form
  <2>2. k \in DOMAIN news' /\ news'[k] = n
    BY <2>1, AppendNews DEF TypeOK
  <2> QED
    BY <1>4, <2>2
<1> QED
  BY <1>2, <1>3, <1>4

\* Whatever the user, other programs and other announcements do in between, a
\* confirmed password is disturbed or reaches its account after exactly as many
\* announcements as are before it, and the page that handles them is there.
THEOREM PromisesComeInTurn == Spec => []Handles /\ NextInLine
<1>1. Init => PromiseInv /\ Handles
  BY DEF Init, PromiseInv, NewsInv, FormInv, PromiseKept, Announced, Handles
<1>2. TypeOK /\ Handles /\ [Next]_vars => Handles'
  BY DEF TypeOK, Handles, Next, OpenPage, ClosePage, ShowForm, Type, Cancel, Add,
         UserAdded, OtherAdds, DeleteUser, ChangePassword, vars
<1>3. TypeOK /\ PromiseInv /\ [Next]_vars => PromiseInv'
  BY PromiseStep
<1>4. TypeOK /\ PromiseInv /\ [Next]_vars =>
        [\A n \in Names, k \in DOMAIN news : promise[n] # Nothing /\ news[k] = n =>
           \/ promise'[n] = Nothing
           \/ ~UserAdded /\ k \in DOMAIN news' /\ news'[k] = n
           \/ k > 1 /\ k - 1 \in DOMAIN news' /\ news'[k - 1] = n
           \/ k = 1 /\ accounts'[n] = cryptPassword(promise[n])]_vars
  BY LineStep
<1> QED
  BY <1>1, <1>2, <1>3, <1>4, TypeCorrect, PTL DEF Spec, NextInLine
=============================================================================
