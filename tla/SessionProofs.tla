--------------------------- MODULE SessionProofs ---------------------------
(***************************************************************************)
(* Proofs about Session: for any users, any number of turns, and answers,  *)
(* cookies, reloads and failures in any order.                             *)
(***************************************************************************)
EXTENDS Session, TLAPS

Names == User \cup {None}

\* What a request is when n sessions were ever made; who waits for which kind.
Cookies(n) == {Keep, Clear} \cup {SetTo(s) : s \in 1..n}
Answers(n) == {Pending, Failure} \cup {Success(u, c) : u \in Names, c \in Cookies(n)}
AskersOf == [me |-> {"layout", "page"}, logout |-> {"layout", "nobody"},
             login |-> {"page", "pastPage", "modal", "pastModal", "nobody"},
             register |-> {"page", "pastPage", "nobody"}]
Kinds == {"me", "login", "register", "logout"}
Records(n) == [kind : Kinds, asker : Asker, who : Names, right : BOOLEAN,
               sent : 0..n, answer : Answers(n), no : Nat]
Requests(n) == {q \in Records(n) : /\ q.asker \in AskersOf[q.kind]
                                   /\ q.kind = "register" => q.who \in User}

OfPage(q) == q.asker = "page" /\ Change(q)
OfModal(q) == q.asker = "modal"
PageWaits(R) == \E q \in R : OfPage(q)
ModalWaits(R) == \E q \in R : OfModal(q)

\* A form has one request under way.
Sound(R, n) ==
  /\ R \subseteq Requests(n)
  /\ \A p, q \in R : OfPage(p) /\ OfPage(q) => p = q
  /\ \A p, q \in R : OfModal(p) /\ OfModal(q) => p = q

Made == Len(sessions)

TabOK ==
  /\ route \in Route /\ user \in Names /\ own \in Names
  /\ pageForm \in Form /\ modal \in Form
  /\ pageForm = "absent" <=> route \notin FormPages
ServerOK ==
  /\ accounts \subseteq User /\ sessions \in Seq(User)
  /\ live \subseteq 1..Made /\ cookie \in 0..Made
HistoryOK == turns \in 0..MaxTurns /\ excused \in BOOLEAN /\ stale \in BOOLEAN /\ left \in BOOLEAN
FormsOK ==
  /\ pageForm = "sending" <=> PageWaits(requests)
  /\ modal = "sending" <=> ModalWaits(requests)

IInv == TabOK /\ ServerOK /\ HistoryOK /\ Sound(requests, Made) /\ FormsOK

-----------------------------------------------------------------------------
(* Answers and requests. *)

LEMMA CookiesAre ==
  ASSUME NEW n \in Nat
  PROVE  /\ Keep \in Cookies(n) /\ Clear \in Cookies(n) /\ Keep # Clear
         /\ \A s \in 1..n : SetTo(s) \in Cookies(n)
         /\ \A s \in Nat : SetTo(s) # Keep /\ SetTo(s) # Clear /\ SetTo(s).session = s
         /\ \A c \in Cookies(n) : c # Keep /\ c # Clear => c.session \in 1..n
<1>1. /\ Keep.is # Clear.is
      /\ \A s \in Nat : SetTo(s).is # Keep.is /\ SetTo(s).is # Clear.is /\ SetTo(s).session = s
  BY DEF Keep, Clear, SetTo
<1> QED  BY <1>1 DEF Cookies

LEMMA AnswersAre ==
  ASSUME NEW n \in Nat
  PROVE  /\ Pending \in Answers(n) /\ Failure \in Answers(n)
         /\ \A u \in Names, c \in Cookies(n) : Success(u, c) \in Answers(n)
  BY DEF Answers

LEMMA AnswerFields ==
  ASSUME NEW u, NEW c
  PROVE  /\ Pending.is = "pending" /\ Pending.user = None /\ Pending.cookie = Keep
         /\ Failure.is = "failure" /\ Failure.user = None /\ Failure.cookie = Keep
         /\ Success(u, c).is = "ok" /\ Success(u, c).user = u /\ Success(u, c).cookie = c
  BY DEF Pending, Failure, Success

LEMMA AnswerTypes ==
  ASSUME NEW n \in Nat, NEW a \in Answers(n)
  PROVE  a.user \in Names /\ a.cookie \in Cookies(n)
<1>1. None \in Names /\ Keep \in Cookies(n)
  BY CookiesAre DEF Names
<1>2. CASE a = Pending \/ a = Failure
  BY <1>1, <1>2, AnswerFields
<1>3. CASE \E u \in Names, c \in Cookies(n) : a = Success(u, c)
  BY <1>3, AnswerFields
<1> QED  BY <1>2, <1>3 DEF Answers

\* An answer that has set its cookie still names its user.
LEMMA CookieTaken ==
  ASSUME NEW n \in Nat, NEW a \in Answers(n), a.cookie # Keep
  PROVE  [a EXCEPT !.cookie = Keep] \in Answers(n)
<1>1. PICK u \in Names, c \in Cookies(n) : a = Success(u, c)
  BY AnswerFields DEF Answers
<1>2. [a EXCEPT !.cookie = Keep] = Success(u, Keep)
  BY <1>1 DEF Success
<1> QED  BY <1>2, CookiesAre DEF Answers

\* More sessions: what was a request still is one.
LEMMA Monotone ==
  ASSUME NEW m \in Nat, NEW n \in Nat, m <= n
  PROVE  Requests(m) \subseteq Requests(n)
<1>1. 0..m \subseteq 0..n /\ Cookies(m) \subseteq Cookies(n)
  BY DEF Cookies
<1>2. Answers(m) \subseteq Answers(n)
  BY <1>1 DEF Answers
<1> QED  BY <1>1, <1>2 DEF Requests, Records

LEMMA Answered ==
  ASSUME NEW n \in Nat, NEW q \in Requests(n), NEW a \in Answers(n)
  PROVE  LET b == [q EXCEPT !.answer = a]
         IN /\ b \in Requests(n) /\ b.answer = a
            /\ b.kind = q.kind /\ b.asker = q.asker /\ b.sent = q.sent
  BY DEF Requests, Records

LEMMA Reasked ==
  ASSUME NEW n \in Nat, NEW q \in Requests(n), NEW x \in AskersOf[q.kind], x \in Asker
  PROVE  LET b == [q EXCEPT !.asker = x]
         IN b \in Requests(n) /\ b.kind = q.kind /\ b.asker = x
  BY DEF Requests, Records

LEMMA Asking ==
  ASSUME NEW n \in Nat, NEW kind \in Kinds, NEW x \in AskersOf[kind], x \in Asker,
         NEW u \in Names, kind = "register" => u \in User,
         NEW right \in BOOLEAN, cookie \in 0..n, turns \in Nat
  PROVE  LET b == Ask(kind, x, u, right)
         IN b \in Requests(n) /\ b.kind = kind /\ b.asker = x /\ b.sent = cookie /\ b.answer = Pending
  BY AnswersAre DEF Requests, Records, Ask

LEMMA Fields ==
  ASSUME NEW n \in Nat, NEW q \in Requests(n)
  PROVE  /\ q.kind \in Kinds /\ q.asker \in AskersOf[q.kind] /\ q.sent \in 0..n
         /\ q.answer \in Answers(n) /\ q.who \in Names /\ q.right \in BOOLEAN
         /\ q.kind = "register" => q.who \in User
  BY DEF Requests, Records

\* AskersOf and who waits, kind by kind.
LEMMA WhoWaits ==
  ASSUME NEW n \in Nat, NEW q \in Requests(n)
  PROVE  /\ OfPage(q) => q.kind \in {"login", "register"}
         /\ OfModal(q) => q.kind = "login" /\ ~OfPage(q)
         /\ q.asker = "pastModal" => q.kind = "login"
         /\ q.asker = "layout" => q.kind \in {"me", "logout"} /\ ~OfPage(q) /\ ~OfModal(q)
         /\ q.kind \in {"me", "logout"} => ~OfPage(q) /\ ~OfModal(q)
         /\ q.asker = "nobody" => ~OfPage(q) /\ ~OfModal(q)
  BY Fields DEF Kinds, AskersOf, OfPage, OfModal, Change

-----------------------------------------------------------------------------
(* Sets of requests. *)

\* Fewer requests are sound; without the form's own nothing is waited for.
LEMMA Fewer ==
  ASSUME NEW n \in Nat, NEW R, Sound(R, n), NEW q \in R
  PROVE  LET less == R \ {q}
         IN /\ Sound(less, n)
            /\ IF OfPage(q) THEN ~PageWaits(less) ELSE PageWaits(less) <=> PageWaits(R)
            /\ IF OfModal(q) THEN ~ModalWaits(less) ELSE ModalWaits(less) <=> ModalWaits(R)
  BY DEF Sound, PageWaits, ModalWaits

\* A request replaced by one of the same kind and asker.
LEMMA Replaced ==
  ASSUME NEW n \in Nat, NEW R, Sound(R, n), NEW q \in R,
         NEW b \in Requests(n), b.kind = q.kind, b.asker = q.asker
  PROVE  LET new == (R \ {q}) \cup {b}
         IN /\ Sound(new, n)
            /\ PageWaits(new) <=> PageWaits(R)
            /\ ModalWaits(new) <=> ModalWaits(R)
<1>1. (OfPage(b) <=> OfPage(q)) /\ (OfModal(b) <=> OfModal(q))
  BY DEF OfPage, OfModal, Change
<1> HIDE DEF OfPage, OfModal
<1> QED  BY <1>1 DEF Sound, PageWaits, ModalWaits

\* One request more, for a form that waits for none.
LEMMA OneMore ==
  ASSUME NEW n \in Nat, NEW R, Sound(R, n), NEW b \in Requests(n),
         OfPage(b) => ~PageWaits(R), OfModal(b) => ~ModalWaits(R)
  PROVE  LET new == R \cup {b}
         IN /\ Sound(new, n)
            /\ PageWaits(new) <=> PageWaits(R) \/ OfPage(b)
            /\ ModalWaits(new) <=> ModalWaits(R) \/ OfModal(b)
  BY DEF Sound, PageWaits, ModalWaits

LEMMA MoreSessions ==
  ASSUME NEW m \in Nat, NEW n \in Nat, m <= n, NEW R, Sound(R, m)
  PROVE  Sound(R, n)
  BY Monotone DEF Sound

\* After a page is left no form of a page waits.
LEMMA Left ==
  ASSUME NEW n \in Nat, NEW R, Sound(R, n)
  PROVE  /\ Sound(LeavePage(R), n) /\ ~PageWaits(LeavePage(R))
         /\ ModalWaits(LeavePage(R)) <=> ModalWaits(R)
<1> DEFINE past(q) == [q EXCEPT !.asker = IF @ = "page" THEN "pastPage" ELSE @]
<1>1. ASSUME NEW q \in R, ~(q.kind = "me" /\ q.asker = "page")
      PROVE  /\ past(q) \in Requests(n) /\ past(q).kind = q.kind
             /\ past(q).asker # "page" /\ (OfModal(q) <=> OfModal(past(q)))
             /\ OfModal(q) => past(q) = q
  <2>1. q \in Requests(n) /\ q \in Records(n)
    BY DEF Sound, Requests
  <2>2. CASE q.asker = "page"
    <3>1. "pastPage" \in AskersOf[q.kind] /\ "pastPage" \in Asker
      BY <1>1, <2>1, <2>2, WhoWaits DEF OfPage, Change, AskersOf, Asker
    <3>2. past(q) = [q EXCEPT !.asker = "pastPage"]
      BY <2>1, <2>2
    <3> QED  BY <2>1, <2>2, <3>1, <3>2, Reasked DEF OfModal
  <2>3. CASE q.asker # "page"
    <3>1. past(q) = q
      BY <2>1, <2>3 DEF Records
    <3> QED  BY <2>1, <2>3, <3>1
  <2> QED  BY <2>2, <2>3
<1>2. ASSUME NEW b \in LeavePage(R)
      PROVE  \E q \in R : b = past(q) /\ ~(q.kind = "me" /\ q.asker = "page")
  BY DEF LeavePage
<1>3. ASSUME NEW q \in R, ~(q.kind = "me" /\ q.asker = "page")
      PROVE  past(q) \in LeavePage(R)
  BY <1>3 DEF LeavePage
<1> HIDE DEF past
<1>4. \A b \in LeavePage(R) : b \in Requests(n) /\ ~OfPage(b)
  BY <1>1, <1>2 DEF OfPage
<1>5. \A q \in R : OfModal(q) => q \in LeavePage(R)
  <2> SUFFICES ASSUME NEW q \in R, OfModal(q) PROVE q \in LeavePage(R)
    OBVIOUS
  <2>1. ~(q.kind = "me" /\ q.asker = "page")
    BY DEF OfModal
  <2> QED  BY <2>1, <1>1, <1>3
<1>6. \A b \in LeavePage(R) : OfModal(b) => b \in R
  BY <1>1, <1>2
<1> QED  BY <1>4, <1>5, <1>6 DEF Sound, PageWaits, ModalWaits

\* After a modal is closed none waits.
LEMMA Closed ==
  ASSUME NEW n \in Nat, NEW R, Sound(R, n)
  PROVE  /\ Sound(CloseModalOf(R), n) /\ ~ModalWaits(CloseModalOf(R))
         /\ PageWaits(CloseModalOf(R)) <=> PageWaits(R)
<1> DEFINE past(q) == [q EXCEPT !.asker = IF @ = "modal" THEN "pastModal" ELSE @]
<1>1. ASSUME NEW q \in R
      PROVE  /\ past(q) \in Requests(n) /\ past(q).asker # "modal"
             /\ OfPage(q) <=> OfPage(past(q))
             /\ OfPage(q) => past(q) = q
  <2>1. q \in Requests(n) /\ q \in Records(n)
    BY DEF Sound, Requests
  <2>2. CASE q.asker = "modal"
    <3>1. "pastModal" \in AskersOf[q.kind] /\ "pastModal" \in Asker
      BY <2>1, <2>2, WhoWaits DEF OfModal, AskersOf, Asker
    <3>2. past(q) = [q EXCEPT !.asker = "pastModal"]
      BY <2>1, <2>2
    <3> QED  BY <2>1, <2>2, <3>1, <3>2, Reasked DEF OfPage
  <2>3. CASE q.asker # "modal"
    <3>1. past(q) = q
      BY <2>1, <2>3 DEF Records
    <3> QED  BY <2>1, <2>3, <3>1
  <2> QED  BY <2>2, <2>3
<1>2. \A b \in CloseModalOf(R) : \E q \in R : b = past(q)
  BY DEF CloseModalOf
<1>3. \A q \in R : past(q) \in CloseModalOf(R)
  BY DEF CloseModalOf
<1> HIDE DEF past
<1>4. \A b \in CloseModalOf(R) : b \in Requests(n) /\ ~OfModal(b)
  BY <1>1, <1>2 DEF OfModal
<1>5. \A q \in R : OfPage(q) => q \in CloseModalOf(R)
  BY <1>1, <1>3
<1>6. \A b \in CloseModalOf(R) : OfPage(b) => b \in R
  BY <1>1, <1>2
<1> QED  BY <1>4, <1>5, <1>6 DEF Sound, PageWaits, ModalWaits

LEMMA MeRequest ==
  ASSUME NEW n \in Nat, cookie \in 0..n, turns \in Nat, NEW x \in {"page", "layout"}
  PROVE  AskMe(x) \in Requests(n) /\ AskMe(x).kind = "me" /\ AskMe(x).asker = x
<1>1. "me" \in Kinds /\ "me" # "register" /\ x \in AskersOf["me"] /\ x \in Asker /\ None \in Names
  BY DEF Kinds, AskersOf, Asker, Names
<1>2. ASSUME NEW right \in BOOLEAN
      PROVE  LET b == Ask("me", x, None, right)
             IN b \in Requests(n) /\ b.kind = "me" /\ b.asker = x
  BY <1>1, Asking
<1> QED  BY <1>2, Zenon DEF AskMe

LEMMA Registering ==
  ASSUME NEW n \in Nat, cookie \in 0..n, turns \in Nat, NEW u \in User
  PROVE  LET b == Ask("register", "page", u, TRUE)
         IN b \in Requests(n) /\ b.kind = "register" /\ b.asker = "page"
<1>1. "register" \in Kinds /\ "page" \in AskersOf["register"] /\ "page" \in Asker /\ u \in Names
  BY DEF Kinds, AskersOf, Asker, Names
<1>2. ASSUME NEW right \in BOOLEAN
      PROVE  LET b == Ask("register", "page", u, right)
             IN b \in Requests(n) /\ b.kind = "register" /\ b.asker = "page"
  BY <1>1, Asking
<1> QED  BY <1>2, Zenon

LEMMA LogoutRequest ==
  ASSUME NEW n \in Nat, cookie \in 0..n, turns \in Nat
  PROVE  LET b == Ask("logout", "layout", None, TRUE)
         IN b \in Requests(n) /\ b.kind = "logout" /\ b.asker = "layout"
<1>1. /\ "logout" \in Kinds /\ "logout" # "register" /\ None \in Names
      /\ "layout" \in AskersOf["logout"] /\ "layout" \in Asker
  BY DEF Kinds, AskersOf, Asker, Names
<1>2. ASSUME NEW right \in BOOLEAN
      PROVE  LET b == Ask("logout", "layout", None, right)
             IN b \in Requests(n) /\ b.kind = "logout" /\ b.asker = "layout"
  BY <1>1, Asking
<1> QED  BY <1>2, Zenon

\* The request of a page's hook belongs to no form.
LEMMA PageAsksMe ==
  ASSUME NEW n \in Nat, NEW R, Sound(R, n), NEW r, cookie \in 0..n, turns \in Nat
  PROVE  /\ Sound(R \cup MeOf(r), n)
         /\ PageWaits(R \cup MeOf(r)) <=> PageWaits(R)
         /\ ModalWaits(R \cup MeOf(r)) <=> ModalWaits(R)
<1>1. CASE r = "video"
  <2> DEFINE b == AskMe("page")
  <2>1. b \in Requests(n) /\ b.kind = "me" /\ b.asker = "page"
    BY MeRequest
  <2>2. ~OfPage(b) /\ ~OfModal(b)
    BY <2>1 DEF OfPage, OfModal, Change
  <2>3. MeOf(r) = {b}
    BY <1>1 DEF MeOf
  <2> HIDE DEF b
  <2> QED  BY <2>1, <2>2, <2>3, OneMore
<1>2. CASE r # "video"
  BY <1>2 DEF MeOf
<1> QED  BY <1>1, <1>2

-----------------------------------------------------------------------------
(* The pages. *)

LEMMA Lands ==
  ASSUME NEW r \in Route, NEW u
  PROVE  Land(r, u) \in Route
  BY DEF Land, Route

\* The page after Show has its form, waiting exactly for its own request.
LEMMA Shown ==
  ASSUME TabOK, ServerOK, HistoryOK, NEW r \in Route, NEW u \in Names, NEW f \in Form,
         NEW R, Sound(R, Made),
         f = "absent" <=> route \notin FormPages,
         Land(r, u) = route => (f = "sending" <=> PageWaits(R)),
         Show(r, u, R), PageForm(f)
  PROVE  /\ Sound(requests', Made)
         /\ pageForm' = "sending" <=> PageWaits(requests')
         /\ ModalWaits(requests') <=> ModalWaits(R)
         /\ route' \in Route /\ user' \in Names /\ own' \in Names /\ pageForm' \in Form
         /\ pageForm' = "absent" <=> route' \notin FormPages
         /\ stale' \in BOOLEAN
<1> DEFINE goes == Land(r, u)
<1>1. goes \in Route /\ route' = goes /\ user' = u
  BY Lands DEF Show
<1>2. CASE goes = route
  <2>1. requests' = R /\ own' = own /\ stale' = stale /\ pageForm' = f
    BY <1>2 DEF Show, PageForm
  <2> QED  BY <1>1, <1>2, <2>1 DEF TabOK, HistoryOK
<1>3. CASE goes # route
  <2>1. /\ own' = None /\ requests' = LeavePage(R) \cup MeOf(goes)
        /\ pageForm' = IF goes \in FormPages THEN "ready" ELSE "absent"
    BY <1>3 DEF Show, PageForm
  <2>2. stale' = (\E q \in R : Change(q))
    BY <1>3 DEF Show
  <2>3. stale' \in BOOLEAN
    BY <2>2
  <2>4. Made \in Nat /\ cookie \in 0..Made /\ turns \in Nat
    BY DEF ServerOK, HistoryOK, Made
  <2>5. /\ Sound(LeavePage(R), Made) /\ ~PageWaits(LeavePage(R))
        /\ ModalWaits(LeavePage(R)) <=> ModalWaits(R)
    BY <2>4, Left
  <2>6. /\ Sound(requests', Made) /\ ~PageWaits(requests')
        /\ ModalWaits(requests') <=> ModalWaits(R)
    BY <2>1, <2>4, <2>5, PageAsksMe
  <2>7. None \in Names /\ pageForm' \in Form /\ pageForm' # "sending"
        /\ (pageForm' = "absent" <=> goes \notin FormPages)
    BY <2>1 DEF Names, Form
  <2> QED  BY <1>1, <2>1, <2>3, <2>6, <2>7
<1> QED  BY <1>2, <1>3

-----------------------------------------------------------------------------
(* The server's answers. *)

LEMMA AnswerKeeps ==
  ASSUME IInv, NEW n \in Nat, Made <= n, NEW q \in requests, NEW a \in Answers(n), Answer(q, a)
  PROVE  /\ Sound(requests', n)
         /\ PageWaits(requests') <=> PageWaits(requests)
         /\ ModalWaits(requests') <=> ModalWaits(requests)
<1>1. Made \in Nat
  BY DEF IInv, ServerOK, Made
<1>2. Sound(requests, n)
  BY <1>1, MoreSessions DEF IInv
<1>3. q \in Requests(n)
  BY <1>2 DEF Sound
<1> DEFINE b == [q EXCEPT !.answer = a]
<1>4. b \in Requests(n) /\ b.kind = q.kind /\ b.asker = q.asker
  BY <1>3, Answered
<1>5. requests' = (requests \ {q}) \cup {b}
  BY DEF Answer
<1> HIDE DEF b
<1> QED  BY <1>2, <1>4, <1>5, Replaced

LEMMA OpenSessionKeeps ==
  ASSUME IInv, NEW q \in requests, NEW u \in User, OpenSession(q, u)
  PROVE  /\ sessions' \in Seq(User) /\ Made' = Made + 1 /\ live' \subseteq 1..Made'
         /\ Sound(requests', Made')
         /\ PageWaits(requests') <=> PageWaits(requests)
         /\ ModalWaits(requests') <=> ModalWaits(requests)
<1>1. sessions \in Seq(User) /\ sessions' = Append(sessions, u)
  BY DEF IInv, ServerOK, OpenSession
<1>2. sessions' \in Seq(User) /\ Made' = Made + 1 /\ Made \in Nat
  BY <1>1 DEF Made
<1>3. live' \subseteq 1..Made'
  <2>1. live \subseteq 1..Made /\ live' = live \cup {Made'}
    BY DEF IInv, ServerOK, OpenSession, Made
  <2> QED  BY <1>2, <2>1
<1>4. Success(u, SetTo(Made')) \in Answers(Made')
  <2>1. Made' \in Nat /\ Made' \in 1..Made' /\ u \in Names
    BY <1>2 DEF Names
  <2> QED  BY <2>1, CookiesAre, AnswersAre
<1>5. Answer(q, Success(u, SetTo(Made')))
  BY DEF OpenSession, Made
<1>6. Made' \in Nat /\ Made <= Made'
  BY <1>2
<1> QED  BY <1>2, <1>3, <1>4, <1>5, <1>6, AnswerKeeps

LEMMA FailureKeeps ==
  ASSUME IInv, NEW q \in requests, Answer(q, Failure)
  PROVE  /\ Sound(requests', Made)
         /\ PageWaits(requests') <=> PageWaits(requests)
         /\ ModalWaits(requests') <=> ModalWaits(requests)
<1>1. Made \in Nat /\ Made <= Made
  BY DEF IInv, ServerOK, Made
<1> QED  BY <1>1, AnswersAre, AnswerKeeps

LEMMA ClearKeeps ==
  ASSUME IInv, NEW q \in requests, Answer(q, Success(None, Clear))
  PROVE  /\ Sound(requests', Made)
         /\ PageWaits(requests') <=> PageWaits(requests)
         /\ ModalWaits(requests') <=> ModalWaits(requests)
<1>1. Made \in Nat /\ Made <= Made /\ None \in Names
  BY DEF IInv, ServerOK, Made, Names
<1>2. Success(None, Clear) \in Answers(Made)
  BY <1>1, CookiesAre, AnswersAre
<1> QED  BY <1>1, <1>2, AnswerKeeps

LEMMA TurnTaken ==
  ASSUME HistoryOK, Turn
  PROVE  turns' \in 0..MaxTurns
  BY TurnsBound DEF HistoryOK, Turn

\* The invariant, when the tab shows what it did.
LEMMA ServerStep ==
  ASSUME IInv, UNCHANGED tab, HistoryOK',
         accounts' \subseteq User, sessions' \in Seq(User), live' \subseteq 1..Made',
         cookie' \in 0..Made', Sound(requests', Made'),
         PageWaits(requests') <=> PageWaits(requests),
         ModalWaits(requests') <=> ModalWaits(requests)
  PROVE  IInv'
<1>1. TabOK'
  BY DEF IInv, TabOK, tab
<1>2. ServerOK'
  BY DEF ServerOK
<1>3. FormsOK'
  BY DEF IInv, FormsOK, tab
<1> QED  BY <1>1, <1>2, <1>3 DEF IInv

LEMMA HandlersKeep ==
  ASSUME IInv, NEW q \in requests,
         HandleAuthMe(q) \/ HandleAuthLogin(q) \/ HandleAuthRegister(q) \/ HandleAuthLogout(q)
  PROVE  IInv'
<1>1. /\ q \in Requests(Made) /\ Made \in Nat /\ sessions \in Seq(User)
      /\ accounts \subseteq User /\ live \subseteq 1..Made /\ cookie \in 0..Made
  BY DEF IInv, Sound, ServerOK, Made
<1>2. q.sent \in 0..Made /\ q.who \in Names
  BY <1>1, Fields
<1>3. UNCHANGED tab /\ cookie' = cookie /\ HistoryOK'
  BY DEF HandleAuthMe, HandleAuthLogin, HandleAuthRegister, HandleAuthLogout,
         IInv, HistoryOK, history
<1>4. CASE HandleAuthMe(q)
  <2> DEFINE a == IF q.sent \in live THEN Success(sessions[q.sent], Keep) ELSE Failure
  <2>1. Answer(q, a) /\ UNCHANGED server
    BY <1>4 DEF HandleAuthMe
  <2>2. a \in Answers(Made)
    <3>1. CASE q.sent \in live
      <4>1. q.sent \in 1..Len(sessions)
        BY <1>1, <3>1 DEF Made
      <4>2. sessions[q.sent] \in Names
        BY <1>1, <4>1 DEF Names
      <4> QED  BY <1>1, <3>1, <4>2, CookiesAre, AnswersAre
    <3>2. CASE q.sent \notin live
      BY <1>1, <3>2, AnswersAre
    <3> QED  BY <3>1, <3>2
  <2> HIDE DEF a
  <2>3. Made <= Made /\ Made' = Made
    BY <1>1, <2>1 DEF server, Made
  <2>4. /\ Sound(requests', Made)
        /\ PageWaits(requests') <=> PageWaits(requests)
        /\ ModalWaits(requests') <=> ModalWaits(requests)
    BY <1>1, <2>1, <2>2, <2>3, AnswerKeeps
  <2> QED  BY <1>1, <1>3, <2>1, <2>3, <2>4, ServerStep DEF server
<1>5. CASE HandleAuthLogin(q) \/ HandleAuthRegister(q)
  <2>1. /\ accounts' \subseteq User
        /\ \/ Answer(q, Failure) /\ UNCHANGED <<sessions, live>>
           \/ q.who \in User /\ OpenSession(q, q.who)
    <3>1. CASE HandleAuthLogin(q)
      <4>1. accounts' \subseteq User
        BY <1>1, <3>1 DEF HandleAuthLogin
      <4>2. CASE q.who \in accounts /\ q.right
        BY <1>1, <3>1, <4>1, <4>2 DEF HandleAuthLogin
      <4>3. CASE ~(q.who \in accounts /\ q.right)
        <5>1. Answer(q, Failure) /\ UNCHANGED <<sessions, live>>
          BY <3>1, <4>3, Zenon DEF HandleAuthLogin
        <5> QED  BY <4>1, <5>1
      <4> QED  BY <4>2, <4>3
    <3>2. CASE HandleAuthRegister(q)
      <4>1. q.who \in User
        BY <1>1, <3>2, Fields DEF HandleAuthRegister
      <4>2. CASE q.who \notin accounts
        <5>1. accounts' = accounts \cup {q.who} /\ OpenSession(q, q.who)
          BY <3>2, <4>2 DEF HandleAuthRegister
        <5> QED  BY <1>1, <4>1, <5>1
      <4>3. CASE q.who \in accounts
        <5>1. Answer(q, Failure) /\ UNCHANGED server
          BY <3>2, <4>3 DEF HandleAuthRegister
        <5>2. accounts' = accounts /\ UNCHANGED <<sessions, live>>
          BY <5>1 DEF server
        <5>3. accounts' \subseteq User
          BY <1>1, <5>2
        <5> QED  BY <5>1, <5>2, <5>3, Zenon
      <4> QED  BY <4>2, <4>3
    <3> QED  BY <1>5, <3>1, <3>2
  <2>2. CASE Answer(q, Failure) /\ UNCHANGED <<sessions, live>>
    <3>1. Made' = Made
      BY <2>2 DEF Made
    <3> QED  BY <1>1, <1>3, <2>1, <2>2, <3>1, FailureKeeps, ServerStep
  <2>3. CASE q.who \in User /\ OpenSession(q, q.who)
    <3>1. cookie' \in 0..(Made + 1)
      BY <1>1, <1>3
    <3> QED  BY <1>3, <2>1, <2>3, <3>1, OpenSessionKeeps, ServerStep
  <2> QED  BY <2>1, <2>2, <2>3
<1>6. CASE HandleAuthLogout(q)
  <2>1. live' = live \ {q.sent} /\ Answer(q, Success(None, Clear)) /\ UNCHANGED <<accounts, sessions>>
    BY <1>6 DEF HandleAuthLogout
  <2>2. Made' = Made
    BY <2>1 DEF Made
  <2> QED  BY <1>1, <1>3, <2>1, <2>2, ClearKeeps, ServerStep
<1> QED  BY <1>4, <1>5, <1>6

LEMMA FaultsKeep ==
  ASSUME IInv, NEW q \in requests, ServerFails(q) \/ Lose(q) \/ CookieArrives(q) \/ Cancelled(q)
  PROVE  IInv'
<1>1. /\ q \in Requests(Made) /\ Made \in Nat /\ sessions \in Seq(User)
      /\ accounts \subseteq User /\ live \subseteq 1..Made /\ cookie \in 0..Made
  BY DEF IInv, Sound, ServerOK, Made
<1>2. UNCHANGED <<tab, sessions, live>> /\ Made' = Made
  BY DEF ServerFails, Lose, CookieArrives, Cancelled, server, Made
<1>3. CASE ServerFails(q) \/ Lose(q)
  <2>1. HistoryOK'
    <3>1. Turn /\ Failed
      BY <1>3 DEF ServerFails, Lose
    <3>2. turns' \in 0..MaxTurns
      BY <3>1, TurnTaken DEF IInv
    <3>3. excused' \in BOOLEAN /\ left' \in BOOLEAN /\ stale' \in BOOLEAN
      BY <3>1, Zenon DEF Failed, IInv, HistoryOK
    <3> QED  BY <3>2, <3>3 DEF HistoryOK
  <2>2. cookie' = cookie
    BY <1>3 DEF ServerFails, Lose
  <2>3. accounts' \subseteq User
    <3>1. CASE ServerFails(q)
      <4>1. q.kind = "register" => q.who \in User
        BY <1>1, Fields
      <4>2. accounts' = accounts \/ (q.kind = "register" /\ accounts' = accounts \cup {q.who})
        <5>1. accounts' \in {accounts} \cup
                (IF q.kind = "register" THEN {accounts \cup {q.who}} ELSE {})
          BY <3>1, Zenon DEF ServerFails
        <5>2. CASE q.kind = "register"
          BY <5>1, <5>2
        <5>3. CASE q.kind # "register"
          BY <5>1, <5>3
        <5> QED  BY <5>2, <5>3
      <4> QED  BY <1>1, <4>1, <4>2
    <3>2. CASE Lose(q)
      BY <1>1, <3>2 DEF Lose, server
    <3> QED  BY <1>3, <3>1, <3>2
  <2>4. Answer(q, Failure) \/ Answer(q, Success(None, Clear))
    BY <1>3 DEF ServerFails, Lose
  <2> QED  BY <1>1, <1>2, <2>1, <2>2, <2>3, <2>4, FailureKeeps, ClearKeeps, ServerStep
<1>4. CASE CookieArrives(q)
  <2>1. HistoryOK' /\ accounts' \subseteq User
    BY <1>1, <1>4 DEF CookieArrives, IInv, HistoryOK, history, server
  <2>2. q.answer \in Answers(Made) /\ q.answer.cookie # Keep
    BY <1>1, <1>4, Fields DEF CookieArrives
  <2>3. cookie' \in 0..Made
    <3>1. q.answer.cookie \in Cookies(Made)
      BY <1>1, <2>2, AnswerTypes
    <3>2. q.answer.cookie # Clear => q.answer.cookie.session \in 1..Made
      BY <1>1, <2>2, <3>1, CookiesAre
    <3> QED  BY <1>1, <1>4, <3>2 DEF CookieArrives
  <2> DEFINE a == [q.answer EXCEPT !.cookie = Keep]
  <2>4. a \in Answers(Made)
    BY <1>1, <2>2, CookieTaken
  <2>5. Answer(q, a)
    BY <1>4 DEF CookieArrives
  <2> HIDE DEF a
  <2>6. Made <= Made
    BY <1>1
  <2> QED  BY <1>1, <1>2, <2>1, <2>3, <2>4, <2>5, <2>6, AnswerKeeps, ServerStep
<1>5. CASE Cancelled(q)
  <2>1. HistoryOK' /\ accounts' \subseteq User /\ cookie' = cookie
    BY <1>1, <1>5 DEF Cancelled, IInv, HistoryOK, history, server
  <2>2. requests' = requests \ {q} /\ ~OfPage(q) /\ ~OfModal(q)
    BY <1>1, <1>5, WhoWaits DEF Cancelled
  <2>3. /\ Sound(requests', Made)
        /\ PageWaits(requests') <=> PageWaits(requests)
        /\ ModalWaits(requests') <=> ModalWaits(requests)
    BY <1>1, <2>2, Fewer DEF IInv
  <2> QED  BY <1>1, <1>2, <2>1, <2>3, ServerStep
<1> QED  BY <1>3, <1>4, <1>5

-----------------------------------------------------------------------------
(* Pages, forms and what they read. *)

\* The invariant, when server and cookie stay.
LEMMA TabStep ==
  ASSUME IInv, UNCHANGED <<cookie, server>>, TabOK', HistoryOK', Sound(requests', Made), FormsOK'
  PROVE  IInv'
<1>1. ServerOK' /\ Made' = Made
  BY DEF IInv, ServerOK, server, Made
<1> QED  BY <1>1 DEF IInv

\* A step that shows a page and closes the modal or leaves it alone.
LEMMA ShowKeeps ==
  ASSUME IInv, UNCHANGED <<cookie, server>>, turns' \in 0..MaxTurns,
         excused' \in BOOLEAN, left' \in BOOLEAN,
         NEW r \in Route, NEW u \in Names, NEW R, Sound(R, Made),
         Land(r, u) = route => (pageForm = "sending" <=> PageWaits(R)),
         Show(r, u, R), PageForm(pageForm),
         modal' \in Form, modal' = "sending" <=> ModalWaits(R)
  PROVE  IInv'
<1>1. pageForm \in Form /\ (pageForm = "absent" <=> route \notin FormPages)
      /\ TabOK /\ ServerOK /\ HistoryOK
  BY DEF IInv, TabOK
<1>2. /\ Sound(requests', Made)
      /\ pageForm' = "sending" <=> PageWaits(requests')
      /\ ModalWaits(requests') <=> ModalWaits(R)
      /\ route' \in Route /\ user' \in Names /\ own' \in Names /\ pageForm' \in Form
      /\ pageForm' = "absent" <=> route' \notin FormPages
      /\ stale' \in BOOLEAN
  BY <1>1, Shown
<1>3. TabOK' /\ FormsOK' /\ HistoryOK'
  BY <1>2 DEF TabOK, FormsOK, HistoryOK
<1> QED  BY <1>2, <1>3, TabStep

LEMMA PagesKeep ==
  ASSUME IInv, NEW r \in Route, Navigate(r) \/ CloseModal(r)
  PROVE  IInv'
<1>1. UNCHANGED <<cookie, server, excused, left>> /\ Turn
  BY DEF Navigate, CloseModal
<1>2. Made \in Nat /\ user \in Names /\ pageForm \in Form /\ modal \in Form
  BY DEF IInv, ServerOK, TabOK, Made
<1>3. PICK R : /\ Sound(R, Made) /\ Show(r, user, R) /\ PageForm(pageForm)
               /\ PageWaits(R) <=> PageWaits(requests)
               /\ modal' \in Form /\ (modal' = "sending" <=> ModalWaits(R))
  <2>1. CASE Navigate(r)
    BY <2>1 DEF Navigate, IInv, FormsOK, TabOK
  <2>2. CASE CloseModal(r)
    <3> DEFINE R == CloseModalOf(requests)
    <3>1. Sound(R, Made) /\ ~ModalWaits(R) /\ (PageWaits(R) <=> PageWaits(requests))
      BY <1>2, Closed DEF IInv
    <3>2. Show(r, user, R) /\ PageForm(pageForm) /\ modal' = "absent"
      BY <2>2 DEF CloseModal
    <3> HIDE DEF R
    <3> QED  BY <3>1, <3>2 DEF Form
  <2> QED  BY <2>1, <2>2
<1>4. pageForm = "sending" <=> PageWaits(R)
  BY <1>3 DEF IInv, FormsOK
<1>5. turns' \in 0..MaxTurns
  BY <1>1, TurnTaken DEF IInv
<1>6. excused' \in BOOLEAN /\ left' \in BOOLEAN
  BY <1>1, Zenon DEF IInv, HistoryOK
<1> QED  BY <1>1, <1>2, <1>3, <1>4, <1>5, <1>6, ShowKeeps

LEMMA ReloadKeeps ==
  ASSUME IInv, NEW r \in Route, Reload(r)
  PROVE  IInv'
<1>1. UNCHANGED <<cookie, server>> /\ Turn
  BY DEF Reload
<1>2. Made \in Nat /\ cookie \in 0..Made /\ turns \in Nat
  BY DEF IInv, ServerOK, HistoryOK, Made
<1>3. TabOK' /\ pageForm' # "sending" /\ modal' # "sending"
  BY DEF Reload, TabOK, Names, Form
<1>4. HistoryOK'
  <2>1. turns' \in 0..MaxTurns
    BY <1>1, TurnTaken DEF IInv
  <2>2. excused' = Changing /\ stale' = Changing /\ left' = (left \/ Changing)
    BY DEF Reload
  <2>3. Changing \in BOOLEAN
    BY DEF Changing
  <2>4. excused' \in BOOLEAN /\ stale' \in BOOLEAN /\ left' \in BOOLEAN
    BY <2>2, <2>3, Zenon
  <2> QED  BY <2>1, <2>4 DEF HistoryOK
<1> DEFINE gone(q) == [q EXCEPT !.asker = "nobody"]
           old == {gone(q) : q \in {p \in requests : Change(p)}}
<1>5. ASSUME NEW q \in requests, Change(q)
      PROVE  gone(q) \in Requests(Made) /\ gone(q).asker = "nobody"
  <2>1. q \in Requests(Made)
    BY DEF IInv, Sound
  <2>2. "nobody" \in AskersOf[q.kind] /\ "nobody" \in Asker
    BY <1>2, <1>5, <2>1, Fields DEF Kinds, AskersOf, Asker, Change
  <2> QED  BY <1>2, <2>1, <2>2, Reasked
<1>6. requests' = (old \cup {AskMe("layout")}) \cup MeOf(r)
  BY DEF Reload
<1>7. \A b \in old : b \in Requests(Made) /\ b.asker = "nobody"
  BY <1>5
<1> HIDE DEF old, gone
<1>8. Sound(old, Made) /\ ~PageWaits(old) /\ ~ModalWaits(old)
  BY <1>7 DEF Sound, PageWaits, ModalWaits, OfPage, OfModal
<1>9. LET R == old \cup {AskMe("layout")}
      IN Sound(R, Made) /\ ~PageWaits(R) /\ ~ModalWaits(R)
  <2> DEFINE b == AskMe("layout")
  <2>1. b \in Requests(Made) /\ b.asker = "layout"
    BY <1>2, MeRequest
  <2> HIDE DEF b
  <2>2. ~OfPage(b) /\ ~OfModal(b)
    BY <2>1 DEF OfPage, OfModal
  <2>3. Sound(old \cup {b}, Made) /\ ~PageWaits(old \cup {b}) /\ ~ModalWaits(old \cup {b})
    BY <1>2, <1>8, <2>1, <2>2, OneMore
  <2> QED  BY <2>3 DEF b
<1>10. Sound(requests', Made) /\ ~PageWaits(requests') /\ ~ModalWaits(requests')
  BY <1>2, <1>6, <1>9, PageAsksMe
<1> QED  BY <1>1, <1>3, <1>4, <1>10, TabStep DEF FormsOK

LEMMA SendsKeeps ==
  ASSUME IInv, NEW b \in Requests(Made), Sends(b),
         OfPage(b) => pageForm # "sending", OfModal(b) => modal # "sending"
  PROVE  /\ Sound(requests', Made)
         /\ PageWaits(requests') <=> PageWaits(requests) \/ OfPage(b)
         /\ ModalWaits(requests') <=> ModalWaits(requests) \/ OfModal(b)
         /\ excused' \in BOOLEAN /\ stale' \in BOOLEAN /\ left' \in BOOLEAN
<1>1. Made \in Nat /\ requests' = requests \cup {b}
  BY DEF IInv, ServerOK, Made, Sends
<1>2. (OfPage(b) => ~PageWaits(requests)) /\ (OfModal(b) => ~ModalWaits(requests))
  BY DEF IInv, FormsOK
<1>3. excused' \in BOOLEAN /\ stale' \in BOOLEAN /\ left' \in BOOLEAN
  <2>1. PICK overlaps \in BOOLEAN, again \in BOOLEAN :
          excused' = (excused \/ overlaps) /\ left' = (left \/ overlaps \/ again)
    BY Zenon DEF Sends
  <2>2. stale' = TRUE
    BY DEF Sends
  <2> QED  BY <2>1, <2>2, Zenon
<1> QED  BY <1>1, <1>2, <1>3, OneMore DEF IInv

LEMMA FormsKeep ==
  ASSUME IInv, OpenModal \/ SubmitInvalid
  PROVE  IInv'
<1>1. UNCHANGED <<route, user, own, cookie, server, requests, history>>
  BY DEF OpenModal, SubmitInvalid
<1>2. HistoryOK'
  <2>1. turns' \in 0..MaxTurns
    BY TurnTaken DEF OpenModal, SubmitInvalid, IInv, HistoryOK
  <2>2. excused' \in BOOLEAN /\ stale' \in BOOLEAN /\ left' \in BOOLEAN
    BY <1>1, Zenon DEF history, IInv, HistoryOK
  <2> QED  BY <2>1, <2>2 DEF HistoryOK
<1>3. TabOK'
  BY <1>1 DEF OpenModal, SubmitInvalid, IInv, TabOK, Form
<1>4. /\ pageForm' = "sending" <=> pageForm = "sending"
      /\ modal' = "sending" <=> modal = "sending"
  BY DEF OpenModal, SubmitInvalid
<1>5. FormsOK' /\ Sound(requests', Made)
  BY <1>1, <1>4 DEF IInv, FormsOK
<1> QED  BY <1>1, <1>2, <1>3, <1>5, TabStep

LEMMA SubmitsKeep ==
  ASSUME IInv, NEW u \in User, NEW right \in BOOLEAN,
         SubmitLogin(u, right) \/ SubmitRegister(u) \/ Logout
  PROVE  IInv'
<1>1. UNCHANGED <<route, user, own, cookie, server>> /\ Turn
  BY DEF SubmitLogin, SubmitRegister, Logout, tab
<1>2. turns' \in 0..MaxTurns
  BY <1>1, TurnTaken DEF IInv
<1>3. Made \in Nat /\ cookie \in 0..Made /\ turns \in Nat
  BY DEF IInv, ServerOK, HistoryOK, Made
<1>4. /\ u \in Names /\ "login" \in Kinds /\ "page" \in Asker /\ "modal" \in Asker
      /\ "page" \in AskersOf["login"] /\ "modal" \in AskersOf["login"]
  BY DEF Names, Kinds, AskersOf, Asker
\* Which form sends, and what.
<1>5. PICK b \in Requests(Made) :
        /\ Sends(b)
        /\ \/ /\ OfPage(b) /\ ~OfModal(b) /\ MayEnter(pageForm)
              /\ pageForm' = "sending" /\ modal' = modal
           \/ /\ ~OfPage(b) /\ OfModal(b) /\ MayEnter(modal)
              /\ modal' = "sending" /\ pageForm' = pageForm
           \/ /\ ~OfPage(b) /\ ~OfModal(b)
              /\ UNCHANGED <<modal, pageForm>>
  <2>1. CASE SubmitLogin(u, right)
    <3>1. CASE /\ MayEnter(pageForm) /\ pageForm' = "sending" /\ modal' = modal
               /\ Sends(Ask("login", "page", u, right))
      <4> DEFINE b == Ask("login", "page", u, right)
      <4>1. b \in Requests(Made) /\ b.kind = "login" /\ b.asker = "page"
        BY <1>3, <1>4, Asking
      <4>2. OfPage(b) /\ ~OfModal(b)
        BY <4>1 DEF OfPage, OfModal, Change
      <4> HIDE DEF b
      <4> QED  BY <3>1, <4>1, <4>2, Zenon DEF b
    <3>2. CASE /\ MayEnter(modal) /\ modal' = "sending" /\ pageForm' = pageForm
               /\ Sends(Ask("login", "modal", u, right))
      <4> DEFINE b == Ask("login", "modal", u, right)
      <4>1. b \in Requests(Made) /\ b.kind = "login" /\ b.asker = "modal"
        BY <1>3, <1>4, Asking
      <4>2. ~OfPage(b) /\ OfModal(b)
        BY <4>1 DEF OfPage, OfModal
      <4> HIDE DEF b
      <4> QED  BY <3>2, <4>1, <4>2, Zenon DEF b
    <3> QED  BY <2>1, <3>1, <3>2, Zenon DEF SubmitLogin
  <2>2. CASE SubmitRegister(u)
    <3> DEFINE b == Ask("register", "page", u, TRUE)
    <3>1. b \in Requests(Made) /\ b.kind = "register" /\ b.asker = "page"
      BY <1>3, Registering
    <3>2. OfPage(b) /\ ~OfModal(b)
      BY <3>1 DEF OfPage, OfModal, Change
    <3>3. MayEnter(pageForm) /\ pageForm' = "sending" /\ modal' = modal /\ Sends(b)
      BY <2>2 DEF SubmitRegister
    <3> HIDE DEF b
    <3> QED  BY <3>1, <3>2, <3>3, Zenon
  <2>3. CASE Logout
    <3> DEFINE b == Ask("logout", "layout", None, TRUE)
    <3>1. b \in Requests(Made) /\ b.kind = "logout" /\ b.asker = "layout"
      BY <1>3, LogoutRequest
    <3>2. ~OfPage(b) /\ ~OfModal(b)
      BY <3>1 DEF OfPage, OfModal
    <3>3. UNCHANGED <<modal, pageForm>> /\ Sends(b)
      BY <2>3 DEF Logout, tab
    <3> HIDE DEF b
    <3> QED  BY <3>1, <3>2, <3>3, Zenon
  <2> QED  BY <2>1, <2>2, <2>3
<1>6. (OfPage(b) => pageForm # "sending") /\ (OfModal(b) => modal # "sending")
  BY <1>5 DEF MayEnter
<1>7. /\ Sound(requests', Made)
      /\ PageWaits(requests') <=> PageWaits(requests) \/ OfPage(b)
      /\ ModalWaits(requests') <=> ModalWaits(requests) \/ OfModal(b)
      /\ excused' \in BOOLEAN /\ stale' \in BOOLEAN /\ left' \in BOOLEAN
  BY <1>5, <1>6, SendsKeeps
<1>8. FormsOK'
  BY <1>5, <1>7 DEF IInv, FormsOK
<1>9. TabOK'
  BY <1>1, <1>5 DEF IInv, TabOK, MayEnter, Form
<1> QED  BY <1>1, <1>2, <1>7, <1>8, <1>9, TabStep DEF HistoryOK

\* What is left of the requests when one has been read, and who it named.
LEMMA ReadKeeps ==
  ASSUME IInv, NEW q \in requests, Read(q)
  PROVE  /\ UNCHANGED <<cookie, server>> /\ turns' \in 0..MaxTurns
         /\ excused' \in BOOLEAN /\ left' \in BOOLEAN
         /\ q.answer.user \in Names
         /\ Sound(Rest(q), Made)
         /\ IF OfPage(q) THEN ~PageWaits(Rest(q)) ELSE PageWaits(Rest(q)) <=> pageForm = "sending"
         /\ IF OfModal(q) THEN ~ModalWaits(Rest(q)) ELSE ModalWaits(Rest(q)) <=> modal = "sending"
<1>1. UNCHANGED <<cookie, server, turns, excused, left>>
  BY DEF Read
<1>2. Made \in Nat /\ q \in Requests(Made)
  BY DEF IInv, ServerOK, Made, Sound
<1>3. q.answer.user \in Names
  BY <1>2, Fields, AnswerTypes
<1>4. turns' \in 0..MaxTurns
  BY <1>1 DEF IInv, HistoryOK
<1>5. excused' \in BOOLEAN /\ left' \in BOOLEAN
  BY <1>1, Zenon DEF IInv, HistoryOK
<1>6. /\ Sound(Rest(q), Made)
      /\ IF OfPage(q) THEN ~PageWaits(Rest(q)) ELSE PageWaits(Rest(q)) <=> PageWaits(requests)
      /\ IF OfModal(q) THEN ~ModalWaits(Rest(q)) ELSE ModalWaits(Rest(q)) <=> ModalWaits(requests)
  BY <1>2, Fewer DEF Rest, IInv
<1> QED  BY <1>1, <1>3, <1>4, <1>5, <1>6 DEF IInv, FormsOK


\* A step that shows the same page.
LEMMA StayKeeps ==
  ASSUME IInv, UNCHANGED <<cookie, server, route, user, stale>>, turns' \in 0..MaxTurns,
         excused' \in BOOLEAN, left' \in BOOLEAN, own' \in Names, Sound(requests', Made),
         pageForm' \in Form, pageForm' = "sending" <=> PageWaits(requests'),
         pageForm' = "absent" <=> pageForm = "absent",
         modal' \in Form, modal' = "sending" <=> ModalWaits(requests')
  PROVE  IInv'
<1>1. stale' \in BOOLEAN
  BY Zenon DEF IInv, HistoryOK
<1>2. TabOK' /\ FormsOK' /\ HistoryOK'
  BY <1>1 DEF IInv, TabOK, FormsOK, HistoryOK
<1> QED  BY <1>2, TabStep

LEMMA HooksKeep ==
  ASSUME IInv, NEW q \in requests, MeRead(q) \/ LogoutRead(q)
  PROVE  IInv'
<1>1. Read(q) /\ modal' = modal /\ q.kind \in {"me", "logout"}
  BY DEF MeRead, LogoutRead
<1>2. Made \in Nat /\ q \in Requests(Made) /\ TabOK
  BY DEF IInv, ServerOK, Made, Sound
<1>3. ~OfPage(q) /\ ~OfModal(q)
  BY <1>1, <1>2, WhoWaits
<1>4. /\ UNCHANGED <<cookie, server>> /\ turns' \in 0..MaxTurns
      /\ excused' \in BOOLEAN /\ left' \in BOOLEAN
      /\ q.answer.user \in Names /\ None \in Names
      /\ Sound(Rest(q), Made)
      /\ pageForm = "sending" <=> PageWaits(Rest(q))
      /\ modal' = "sending" <=> ModalWaits(Rest(q))
      /\ modal' \in Form /\ route \in Route /\ own \in Names /\ pageForm \in Form
  BY <1>1, <1>2, <1>3, ReadKeeps DEF TabOK, Names
<1>5. CASE \E u \in Names : Show(route, u, Rest(q)) /\ PageForm(pageForm)
  BY <1>4, <1>5, ShowKeeps
<1>6. CASE /\ requests' = Rest(q) /\ own' \in Names
           /\ UNCHANGED <<route, user, pageForm, stale>>
  BY <1>4, <1>6, StayKeeps
<1>7. CASE MeRead(q)
  BY <1>4, <1>5, <1>6, <1>7 DEF MeRead
<1>8. CASE LogoutRead(q)
  BY <1>4, <1>5, <1>8 DEF LogoutRead
<1> QED  BY <1>7, <1>8

LEMMA PageAnsweredKeeps ==
  ASSUME IInv, NEW q \in requests, PageAnswered(q)
  PROVE  IInv'
<1>1. Read(q) /\ modal' = modal /\ Change(q) /\ q.asker \in {"page", "pastPage"}
  BY DEF PageAnswered, Change
<1>2. (OfPage(q) <=> q.asker = "page") /\ ~OfModal(q)
  BY <1>1 DEF OfPage, OfModal
<1>3. /\ UNCHANGED <<cookie, server>> /\ turns' \in 0..MaxTurns
      /\ excused' \in BOOLEAN /\ left' \in BOOLEAN
      /\ q.answer.user \in Names /\ Sound(Rest(q), Made)
      /\ IF OfPage(q) THEN ~PageWaits(Rest(q)) ELSE PageWaits(Rest(q)) <=> pageForm = "sending"
      /\ modal' = "sending" <=> ModalWaits(Rest(q))
  BY <1>1, <1>2, ReadKeeps
<1>4. /\ modal' \in Form /\ route \in Route /\ own \in Names /\ pageForm \in Form
      /\ pageForm = "absent" <=> route \notin FormPages
  BY <1>1 DEF IInv, TabOK
<1>5. OfPage(q) => pageForm = "sending"
  BY DEF IInv, FormsOK, PageWaits
<1>6. CASE Show("home", q.answer.user, Rest(q)) /\ PageForm(pageForm)
  <2>1. "home" \in Route
    BY DEF Route
  <2>2. Land("home", q.answer.user) = "home" /\ "home" \notin FormPages
    BY DEF Land, FormPages
  <2>3. OfPage(q) => route # "home"
    BY <1>4, <1>5, <2>2
  <2>4. Land("home", q.answer.user) = route => (pageForm = "sending" <=> PageWaits(Rest(q)))
    BY <1>3, <2>2, <2>3
  <2> QED  BY <1>3, <1>4, <1>6, <2>1, <2>4, ShowKeeps
<1>7. CASE /\ pageForm' = IF q.asker = "page" THEN "failed" ELSE pageForm
           /\ requests' = Rest(q) /\ UNCHANGED <<route, user, own, stale>>
  <2>1. pageForm' \in Form /\ (pageForm' = "absent" <=> pageForm = "absent")
    BY <1>2, <1>4, <1>5, <1>7 DEF Form
  <2>2. pageForm' = "sending" <=> PageWaits(requests')
    BY <1>2, <1>3, <1>7
  <2> QED  BY <1>3, <1>4, <1>7, <2>1, <2>2, StayKeeps
<1> QED  BY <1>6, <1>7 DEF PageAnswered

LEMMA ModalAnsweredKeeps ==
  ASSUME IInv, NEW q \in requests, ModalAnswered(q)
  PROVE  IInv'
<1>1. Read(q) /\ q.asker \in {"modal", "pastModal"} /\ (OfModal(q) <=> q.asker = "modal")
  BY DEF ModalAnswered, OfModal
<1>2. Made \in Nat /\ ~OfPage(q)
  BY <1>1 DEF OfPage, IInv, ServerOK, Made
<1>3. /\ UNCHANGED <<cookie, server>> /\ turns' \in 0..MaxTurns
      /\ excused' \in BOOLEAN /\ left' \in BOOLEAN
      /\ q.answer.user \in Names /\ Sound(Rest(q), Made)
      /\ pageForm = "sending" <=> PageWaits(Rest(q))
      /\ IF OfModal(q) THEN ~ModalWaits(Rest(q)) ELSE ModalWaits(Rest(q)) <=> modal = "sending"
  BY <1>1, <1>2, ReadKeeps
<1>4. modal \in Form /\ route \in Route /\ own \in Names /\ pageForm \in Form
  BY DEF IInv, TabOK
<1>5. CASE /\ modal' = "absent" /\ PageForm(pageForm)
           /\ Show(route, q.answer.user, CloseModalOf(Rest(q)))
  <2> DEFINE R == CloseModalOf(Rest(q))
  <2>1. Sound(R, Made) /\ ~ModalWaits(R) /\ (PageWaits(R) <=> PageWaits(Rest(q)))
    BY <1>2, <1>3, Closed
  <2>2. Show(route, q.answer.user, R)
    BY <1>5
  <2>3. modal' \in Form /\ modal' # "sending"
    BY <1>5 DEF Form
  <2> HIDE DEF R
  <2> QED  BY <1>3, <1>4, <1>5, <2>1, <2>2, <2>3, ShowKeeps
<1>6. CASE /\ modal' = IF q.asker = "modal" THEN "failed" ELSE modal
           /\ requests' = Rest(q) /\ UNCHANGED <<route, user, own, stale, pageForm>>
  <2>1. modal' \in Form /\ (modal' = "sending" <=> ModalWaits(requests'))
    BY <1>1, <1>3, <1>4, <1>6 DEF Form
  <2> QED  BY <1>3, <1>4, <1>6, <2>1, StayKeeps
<1> QED  BY <1>5, <1>6 DEF ModalAnswered

-----------------------------------------------------------------------------
(* The invariant. *)

LEMMA Initially ==
  ASSUME Init
  PROVE  IInv
<1>1. /\ user = None /\ own = None /\ None \in Names /\ route \in Route /\ modal = "absent"
      /\ turns = 0 /\ excused = FALSE /\ stale = FALSE /\ left = FALSE
      /\ pageForm = IF route \in FormPages THEN "ready" ELSE "absent"
  BY DEF Init, Names
<1>2. TabOK /\ HistoryOK /\ pageForm # "sending" /\ modal # "sending"
  <2>1. turns \in 0..MaxTurns
    BY <1>1, TurnsBound
  <2>2. excused \in BOOLEAN /\ stale \in BOOLEAN /\ left \in BOOLEAN
    BY <1>1, Zenon
  <2> QED  BY <1>1, <2>1, <2>2 DEF TabOK, HistoryOK, Form
<1>3. ServerOK
  <2>1. PICK u \in accounts \cup {None} :
          IF u = None THEN cookie = 0 /\ sessions = <<>> /\ live = {}
          ELSE cookie = 1 /\ sessions = <<u>> /\ live \in {{1}, {}}
    BY DEF Init
  <2>2. accounts \subseteq User
    BY DEF Init
  <2>3. CASE u = None
    BY <2>1, <2>2, <2>3 DEF ServerOK, Made
  <2>4. CASE u # None
    <3>1. sessions = <<u>> /\ u \in User
      BY <2>1, <2>2, <2>4
    <3>2. sessions \in Seq(User) /\ Len(sessions) = 1
      BY <3>1
    <3> QED  BY <2>1, <2>2, <2>4, <3>2 DEF ServerOK, Made
  <2> QED  BY <2>3, <2>4
<1>4. Made \in Nat /\ cookie \in 0..Made /\ turns \in Nat
  BY <1>3, <1>2 DEF ServerOK, HistoryOK, Made
<1> DEFINE b == AskMe("layout")
<1>5. b \in Requests(Made) /\ ~OfPage(b) /\ ~OfModal(b)
  BY <1>4, MeRequest DEF OfPage, OfModal
<1> HIDE DEF b
<1>6. Sound({b}, Made) /\ ~PageWaits({b}) /\ ~ModalWaits({b})
  BY <1>5 DEF Sound, PageWaits, ModalWaits
<1>7. requests = {b} \cup MeOf(route)
  BY DEF Init, b
<1>8. Sound(requests, Made) /\ ~PageWaits(requests) /\ ~ModalWaits(requests)
  BY <1>4, <1>6, <1>7, PageAsksMe
<1> QED  BY <1>2, <1>3, <1>8 DEF IInv, FormsOK

LEMMA StepKeeps ==
  ASSUME IInv, [Next]_vars
  PROVE  IInv'
<1>1. CASE UNCHANGED vars
  BY <1>1 DEF vars, tab, server, history, IInv, TabOK, ServerOK, HistoryOK, FormsOK, Made,
              Sound, PageWaits, ModalWaits, Requests, Records, Answers, Cookies
<1>2. CASE Next
  <2>1. ASSUME NEW r \in Route, Navigate(r) \/ CloseModal(r) \/ Reload(r)  PROVE IInv'
    BY <2>1, PagesKeep, ReloadKeeps
  <2>2. CASE OpenModal \/ SubmitInvalid
    BY <2>2, FormsKeep
  <2>3. ASSUME NEW u \in User, NEW right \in BOOLEAN,
               SubmitLogin(u, right) \/ SubmitRegister(u) \/ Logout
        PROVE  IInv'
    BY <2>3, SubmitsKeep
  <2>4. ASSUME NEW q \in requests,
               \/ HandleAuthMe(q) \/ HandleAuthLogin(q) \/ HandleAuthRegister(q)
               \/ HandleAuthLogout(q) \/ ServerFails(q) \/ Lose(q)
               \/ CookieArrives(q) \/ Cancelled(q)
               \/ MeRead(q) \/ PageAnswered(q) \/ ModalAnswered(q) \/ LogoutRead(q)
        PROVE  IInv'
    BY <2>4, HandlersKeep, FaultsKeep, HooksKeep, PageAnsweredKeeps, ModalAnsweredKeeps
  <2>5. CASE Logout
    <3>1. user \in User
      BY <2>5 DEF Logout, IInv, TabOK, Names
    <3> QED  BY <2>5, <3>1, SubmitsKeep
  <2> QED  BY <1>2, <2>1, <2>2, <2>3, <2>4, <2>5 DEF Next
<1> QED  BY <1>1, <1>2

\* The sets of requests are sound, and a form waits exactly for its own.
THEOREM Invariance == Spec => []IInv
<1>1. Init => IInv
  BY Initially
<1>2. IInv /\ [Next]_vars => IInv'
  BY StepKeeps
<1> QED  BY <1>1, <1>2, PTL DEF Spec

\* Session.tla: every state is well typed.
THEOREM TypeCorrect == Spec => []TypeOK
<1>1. IInv => TypeOK
  <2> SUFFICES ASSUME IInv PROVE TypeOK
    OBVIOUS
  <2>1. DOMAIN sessions = 1..Made /\ Made \in Nat
    BY DEF IInv, ServerOK, Made
  <2>2. \A q \in requests : q \in Requests(Made) /\ q.asker \in Asker
    BY DEF IInv, Sound, Requests, Records
  <2>3. \A q \in requests :
          /\ q.kind \in Kinds /\ q.asker \in Asker /\ q.who \in Names /\ q.sent \in 0..Made
    BY <2>1, <2>2, Fields
  <2>4. 0..Made = {0} \cup DOMAIN sessions
    BY <2>1
  <2>5. {excused, stale, left} \subseteq BOOLEAN
    BY DEF IInv, HistoryOK
  <2> QED  BY <2>1, <2>3, <2>4, <2>5 DEF IInv, TabOK, ServerOK, HistoryOK, TypeOK, Names, Kinds
<1> QED  BY <1>1, Invariance, PTL

\* A form whose fields are disabled waits for an answer of its own request, and
\* only for one, whatever was closed, reopened, left or reloaded before.
THEOREM FormsNeverWaitInVain == Spec => []NoFormWaitsInVain
<1>1. IInv => NoFormWaitsInVain
  BY DEF IInv, FormsOK, PageWaits, ModalWaits, OfPage, OfModal, NoFormWaitsInVain
<1> QED  BY <1>1, Invariance, PTL

-----------------------------------------------------------------------------
(* Sessions left behind, and who is shown.  While nothing overlapped there *)
(* is one login or logout at most, and what its answer names is the user   *)
(* of the session the cookie will have by the time the answer is read.     *)

Single(R) == \A p, q \in R : Change(p) /\ Change(q) => p = q
NoOrphan(R) == \A q \in R : q.asker # "nobody"
Quiet(R) == \A q \in R : ~Change(q)
LayoutMe(q) == q.kind = "me" /\ q.asker = "layout"
PageMe(q) == q.kind = "me" /\ q.asker = "page"

\* The user of the session s[c] of a cookie c, l being the live sessions.
UserOf(c, l, s) == IF c \in l THEN s[c] ELSE None

\* Only a login or registration sets a cookie, a logout names nobody.
Shape(R) ==
  \A q \in R : /\ q.kind = "me" => q.answer.cookie = Keep
               /\ q.kind = "logout" => q.answer.user = None

\* Nothing is left behind: the session of the cookie has ended before another
\* takes its place, and a logout ends the session of the cookie.
LeftOK(R, c, l) ==
  /\ NoOrphan(R) /\ Single(R)
  /\ \A q \in R : Change(q) =>
       /\ q.answer.cookie # Keep => c \notin l
       /\ q.answer = Pending => IF q.kind = "logout" THEN q.sent = c ELSE c \notin l
  /\ \A t \in l : t = c \/ \E q \in R : q.answer.cookie = SetTo(t)

\* An answer of GET /auth/me tells what still is so.
Told(q, l, s) ==
  /\ Succeeded(q) => q.sent \in l /\ q.answer.user = s[q.sent]
  /\ q.answer = Failure => q.sent \notin l

\* The header's user u is the session's, or an answer under way will make it so.
UserOK(R, u, c, l, s) ==
  /\ NoOrphan(R) /\ Single(R)
  /\ \A q \in R : LayoutMe(q) => Told(q, l, s) /\ (q.sent \in l => q.sent = c /\ Quiet(R))
  /\ \A q \in R : Change(q) =>
       /\ Succeeded(q) /\ q.answer.cookie = Keep => q.answer.user = UserOf(c, l, s)
       /\ \A t \in l : q.answer.cookie = SetTo(t) => q.answer.user = s[t]
       /\ q.answer.cookie \in {Keep, Clear} \cup {SetTo(t) : t \in l}
       /\ q.kind = "logout" => q.answer # Failure
       /\ q.answer.cookie = Clear => q.kind = "logout"
  /\ \/ u = UserOf(c, l, s)
     \/ \E q \in R : LayoutMe(q) /\ q.sent \in l
     \/ \E q \in R : Change(q) /\ Succeeded(q)

\* The same of the page's own user o, while nobody logs in or out.
OwnOK(R, o, c, l, s) ==
  /\ \A q \in R : PageMe(q) => q.sent = c /\ Told(q, l, s)
  /\ o = UserOf(c, l, s) \/ (o = None /\ \E q \in R : PageMe(q))

LInv ==
  /\ Shape(requests)
  /\ ~left => LeftOK(requests, cookie, live)
  /\ ~excused => UserOK(requests, user, cookie, live, sessions)
  /\ ~stale => Quiet(requests)
  /\ ~excused /\ ~stale /\ route = "video" => OwnOK(requests, own, cookie, live, sessions)

LEMMA AnswerKinds ==
  ASSUME NEW n \in Nat, NEW a \in Answers(n)
  PROVE  /\ a = Pending \/ a = Failure \/ a.is = "ok"
         /\ a.is = "ok" => a # Pending /\ a # Failure
         /\ a.cookie # Keep => a.is = "ok"
         /\ a.cookie = Keep \/ a.cookie = Clear \/ \E t \in 1..n : a.cookie = SetTo(t)
<1>1. CASE a = Pending \/ a = Failure
  BY <1>1, AnswerFields
<1>2. CASE \E u \in Names, c \in Cookies(n) : a = Success(u, c)
  BY <1>2, AnswerFields DEF Cookies
<1> QED  BY <1>1, <1>2 DEF Answers

LEMMA RequestFacts ==
  ASSUME IInv, NEW q \in requests
  PROVE  /\ q \in Requests(Made) /\ Made \in Nat /\ q.sent \in 0..Made
         /\ cookie \in 0..Made /\ live \subseteq 1..Made
         /\ q.answer = Pending \/ q.answer = Failure \/ Succeeded(q)
         /\ Succeeded(q) => q.answer # Pending /\ q.answer # Failure
         /\ q.answer.cookie # Keep => Succeeded(q)
         /\ \/ q.answer.cookie = Keep \/ q.answer.cookie = Clear
            \/ \E t \in 1..Made : q.answer.cookie = SetTo(t)
         /\ Change(q) \/ LayoutMe(q) \/ PageMe(q)
         /\ q.asker = "nobody" => Change(q)
<1>1. q \in Requests(Made) /\ Made \in Nat /\ cookie \in 0..Made /\ live \subseteq 1..Made
  BY DEF IInv, Sound, ServerOK, Made
<1>2. q.sent \in 0..Made /\ q.answer \in Answers(Made) /\ q.asker \in AskersOf[q.kind] /\ q.kind \in Kinds
  BY <1>1, Fields
<1>3. q.kind = "me" => q.asker \in {"layout", "page"}
  BY <1>2 DEF AskersOf
<1> QED  BY <1>1, <1>2, <1>3, AnswerKinds DEF Succeeded, Change, LayoutMe, PageMe

-----------------------------------------------------------------------------
(* Requests that change their asker only. *)

Same(b, q) ==
  /\ b.kind = q.kind /\ b.sent = q.sent /\ b.answer = q.answer
  /\ b.asker = "layout" <=> q.asker = "layout"
  /\ b.asker = "nobody" <=> q.asker = "nobody"

Becomes(S, R) ==
  /\ \A b \in S : \E q \in R : Same(b, q)
  /\ \A q \in R : Change(q) \/ LayoutMe(q) => \E b \in S : Same(b, q)
  /\ Single(R) => Single(S)

LEMMA SameFacts ==
  ASSUME NEW b, NEW q, Same(b, q)
  PROVE  /\ (Change(b) <=> Change(q)) /\ (LayoutMe(b) <=> LayoutMe(q))
         /\ (Succeeded(b) <=> Succeeded(q))
         /\ \A l, s : Told(b, l, s) <=> Told(q, l, s)
  BY DEF Same, Change, LayoutMe, Succeeded, Told

LEMMA BecomesHolds ==
  ASSUME NEW R, NEW S, Becomes(S, R), Shape(R)
  PROVE  /\ Shape(S)
         /\ Quiet(S) <=> Quiet(R)
         /\ \A c, l : LeftOK(R, c, l) /\ l \subseteq Nat => LeftOK(S, c, l)
         /\ \A u, c, l, s : UserOK(R, u, c, l, s) => UserOK(S, u, c, l, s)
<1>1. Shape(S)
  BY DEF Shape, Becomes, Same
<1>2. Quiet(S) <=> Quiet(R)
  BY SameFacts DEF Quiet, Becomes
<1>3. NoOrphan(R) => NoOrphan(S)
  BY DEF NoOrphan, Becomes, Same
<1>4. ASSUME NEW c, NEW l, LeftOK(R, c, l), l \subseteq Nat PROVE LeftOK(S, c, l)
  <2>1. ASSUME NEW b \in S, Change(b)
        PROVE  /\ b.answer.cookie # Keep => c \notin l
               /\ b.answer = Pending => IF b.kind = "logout" THEN b.sent = c ELSE c \notin l
    <3>1. PICK q \in R : Same(b, q)
      BY DEF Becomes
    <3> QED  BY <1>4, <2>1, <3>1, SameFacts DEF LeftOK, Same
  <2>2. ASSUME NEW t \in l PROVE t = c \/ \E b \in S : b.answer.cookie = SetTo(t)
    <3>1. t = c \/ \E q \in R : q.answer.cookie = SetTo(t)
      BY <1>4 DEF LeftOK
    <3>2. ASSUME NEW q \in R, q.answer.cookie = SetTo(t) PROVE \E b \in S : b.answer.cookie = SetTo(t)
      <4>1. SetTo(t) # Keep
        BY <1>4, CookiesAre
      <4>2. Change(q)
        BY <3>2, <4>1 DEF Shape, Change
      <4> QED  BY <3>2, <4>2 DEF Becomes, Same
    <3> QED  BY <3>1, <3>2
  <2> QED  BY <1>3, <1>4, <2>1, <2>2 DEF LeftOK, Becomes
<1>5. ASSUME NEW u, NEW c, NEW l, NEW s, UserOK(R, u, c, l, s) PROVE UserOK(S, u, c, l, s)
  <2>1. ASSUME NEW b \in S, LayoutMe(b)
        PROVE  Told(b, l, s) /\ (b.sent \in l => b.sent = c /\ Quiet(S))
    <3>1. PICK q \in R : Same(b, q)
      BY DEF Becomes
    <3>2. LayoutMe(q) /\ (Told(b, l, s) <=> Told(q, l, s)) /\ b.sent = q.sent
      BY <2>1, <3>1, SameFacts DEF Same
    <3> QED  BY <1>2, <1>5, <3>2 DEF UserOK
  <2>2. ASSUME NEW b \in S, Change(b)
        PROVE  /\ Succeeded(b) /\ b.answer.cookie = Keep => b.answer.user = UserOf(c, l, s)
               /\ \A t \in l : b.answer.cookie = SetTo(t) => b.answer.user = s[t]
               /\ b.answer.cookie \in {Keep, Clear} \cup {SetTo(t) : t \in l}
               /\ b.kind = "logout" => b.answer # Failure
               /\ b.answer.cookie = Clear => b.kind = "logout"
    <3>1. PICK q \in R : Same(b, q)
      BY DEF Becomes
    <3>2. Change(q) /\ (Succeeded(b) <=> Succeeded(q)) /\ b.answer = q.answer /\ b.kind = q.kind
      BY <2>2, <3>1, SameFacts DEF Same
    <3> QED  BY <1>5, <3>2 DEF UserOK
  <2>3. \/ u = UserOf(c, l, s)
        \/ \E b \in S : LayoutMe(b) /\ b.sent \in l
        \/ \E b \in S : Change(b) /\ Succeeded(b)
    <3>1. ASSUME NEW q \in R, LayoutMe(q), q.sent \in l PROVE \E b \in S : LayoutMe(b) /\ b.sent \in l
      <4>1. PICK b \in S : Same(b, q)
        BY <3>1 DEF Becomes
      <4> QED  BY <3>1, <4>1, SameFacts DEF Same
    <3>2. ASSUME NEW q \in R, Change(q), Succeeded(q) PROVE \E b \in S : Change(b) /\ Succeeded(b)
      <4>1. PICK b \in S : Same(b, q)
        BY <3>2 DEF Becomes
      <4> QED  BY <3>2, <4>1, SameFacts
    <3> QED  BY <1>5, <3>1, <3>2 DEF UserOK
  <2>4. NoOrphan(S) /\ Single(S)
    BY <1>3, <1>5 DEF UserOK, Becomes
  <2> QED  BY <2>1, <2>2, <2>3, <2>4 DEF UserOK
<1> QED  BY <1>1, <1>2, <1>4, <1>5

LEMMA LeavingBecomes ==
  ASSUME NEW n \in Nat, NEW R, R \subseteq Records(n)
  PROVE  Becomes(LeavePage(R), R) /\ \A b \in LeavePage(R) : ~PageMe(b)
<1> DEFINE past(q) == [q EXCEPT !.asker = IF @ = "page" THEN "pastPage" ELSE @]
<1>1. ASSUME NEW q \in R
      PROVE  Same(past(q), q) /\ past(q).asker # "page"
  BY DEF Same, Records
<1>2. \A b \in LeavePage(R) : \E q \in R : b = past(q)
  BY DEF LeavePage
<1>3. \A q \in R : ~(q.kind = "me" /\ q.asker = "page") => past(q) \in LeavePage(R)
  BY DEF LeavePage
<1> HIDE DEF past
<1>4. \A q \in R : Change(q) \/ LayoutMe(q) => past(q) \in LeavePage(R)
  BY <1>3 DEF Change, LayoutMe
<1>5. Single(R) => Single(LeavePage(R))
  BY <1>1, <1>2, SameFacts DEF Single
<1> QED  BY <1>1, <1>2, <1>4, <1>5 DEF Becomes, PageMe

LEMMA ClosingBecomes ==
  ASSUME NEW n \in Nat, NEW R, R \subseteq Records(n)
  PROVE  /\ Becomes(CloseModalOf(R), R)
         /\ \A q : PageMe(q) => (q \in CloseModalOf(R) <=> q \in R)
<1> DEFINE past(q) == [q EXCEPT !.asker = IF @ = "modal" THEN "pastModal" ELSE @]
<1>1. ASSUME NEW q \in R
      PROVE  /\ Same(past(q), q)
             /\ PageMe(q) \/ PageMe(past(q)) => past(q) = q
  <2>1. q.asker # "modal" => past(q) = q
    BY DEF Records
  <2>2. q.asker = "modal" => past(q).asker = "pastModal"
    BY DEF Records
  <2>3. Same(past(q), q)
    BY DEF Same, Records
  <2> QED  BY <2>1, <2>2, <2>3 DEF PageMe
<1>2. \A b \in CloseModalOf(R) : \E q \in R : b = past(q)
  BY DEF CloseModalOf
<1>3. \A q \in R : past(q) \in CloseModalOf(R)
  BY DEF CloseModalOf
<1> HIDE DEF past
<1>4. Single(R) => Single(CloseModalOf(R))
  BY <1>1, <1>2, SameFacts DEF Single
<1> QED  BY <1>1, <1>2, <1>3, <1>4 DEF Becomes

\* The page that comes asks for its user, once.
LEMMA AskedByPage ==
  ASSUME NEW R, Shape(R), cookie \in Nat, NEW r
  PROVE  LET S == R \cup MeOf(r)
         IN /\ Shape(S) /\ (Quiet(S) <=> Quiet(R))
            /\ \A c, l : LeftOK(R, c, l) => LeftOK(S, c, l)
            /\ \A u, c, l, s : UserOK(R, u, c, l, s) => UserOK(S, u, c, l, s)
            /\ \A b \in MeOf(r) : PageMe(b) /\ b.sent = cookie /\ \A l, s : Told(b, l, s)
            /\ r = "video" => MeOf(r) # {}
<1>1. ASSUME NEW b \in MeOf(r)
      PROVE  /\ b.kind = "me" /\ b.asker = "page" /\ b.sent = cookie /\ b.answer = Pending
             /\ PageMe(b) /\ ~Change(b) /\ ~LayoutMe(b) /\ b.answer.cookie = Keep
             /\ \A l, s : Told(b, l, s)
  <2>1. b = Ask("me", "page", None, TRUE)
    BY DEF MeOf, AskMe
  <2>2. b.kind = "me" /\ b.asker = "page" /\ b.sent = cookie /\ b.answer = Pending
    BY <2>1 DEF Ask
  <2>3. Pending # Failure /\ ~Succeeded(b) /\ Pending.cookie = Keep
    BY <2>2, AnswerFields DEF Succeeded
  <2> QED  BY <2>2, <2>3 DEF PageMe, Change, LayoutMe, Told
<1> DEFINE S == R \cup MeOf(r)
<1>2. Shape(S) /\ (Quiet(S) <=> Quiet(R))
  BY <1>1 DEF Shape, Quiet
<1>3. /\ NoOrphan(R) => NoOrphan(S)
      /\ Single(R) => Single(S)
  BY <1>1 DEF NoOrphan, Single
<1>4. ASSUME NEW c, NEW l, LeftOK(R, c, l) PROVE LeftOK(S, c, l)
  BY <1>1, <1>3, <1>4 DEF LeftOK
<1>5. ASSUME NEW u, NEW c, NEW l, NEW s, UserOK(R, u, c, l, s) PROVE UserOK(S, u, c, l, s)
  BY <1>1, <1>2, <1>3, <1>5 DEF UserOK
<1>6. r = "video" => MeOf(r) # {}
  BY DEF MeOf
<1> QED  BY <1>1, <1>2, <1>4, <1>5, <1>6

\* What Show leaves, when what it shows is right of the requests it is given.
LEMMA ShowHolds ==
  ASSUME IInv, NEW R, R \subseteq Records(Made), NEW r, NEW u, Show(r, u, R),
         UNCHANGED <<cookie, server, excused, left>>,
         Shape(R),
         ~left => LeftOK(R, cookie, live),
         ~excused => UserOK(R, u, cookie, live, sessions),
         ~stale => Quiet(R),
         ~excused /\ ~stale /\ route = "video" => OwnOK(R, own, cookie, live, sessions)
  PROVE  LInv'
<1>1. /\ UNCHANGED <<cookie, live, sessions, excused, left>> /\ user' = u
      /\ Made \in Nat /\ cookie \in Nat /\ live \subseteq Nat
  BY DEF server, IInv, ServerOK, Made, Show
<1> DEFINE goes == Land(r, u)
<1>2. CASE goes = route
  <2>1. requests' = R /\ own' = own /\ stale' = stale /\ route' = route
    BY <1>2 DEF Show
  <2> QED  BY <1>1, <2>1 DEF LInv
<1>3. CASE goes # route
  <2>1. /\ requests' = LeavePage(R) \cup MeOf(goes) /\ own' = None /\ route' = goes
        /\ ~stale' => Quiet(R)
    BY <1>3 DEF Show, Quiet
  <2>2. Becomes(LeavePage(R), R) /\ \A b \in LeavePage(R) : ~PageMe(b)
    BY <1>1, LeavingBecomes
  <2>3. /\ Shape(LeavePage(R)) /\ (Quiet(LeavePage(R)) <=> Quiet(R))
        /\ ~left => LeftOK(LeavePage(R), cookie, live)
        /\ ~excused => UserOK(LeavePage(R), u, cookie, live, sessions)
    BY <1>1, <2>2, BecomesHolds
  <2>4. /\ Shape(requests') /\ (Quiet(requests') <=> Quiet(R))
        /\ ~left => LeftOK(requests', cookie, live)
        /\ ~excused => UserOK(requests', u, cookie, live, sessions)
        /\ \A b \in MeOf(goes) : PageMe(b) /\ b.sent = cookie /\ Told(b, live, sessions)
        /\ goes = "video" => MeOf(goes) # {}
    BY <1>1, <2>1, <2>3, AskedByPage
  <2>5. route' = "video" => OwnOK(requests', own', cookie, live, sessions)
    BY <2>1, <2>2, <2>4 DEF OwnOK
  <2> QED  BY <1>1, <2>1, <2>4, <2>5 DEF LInv
<1> QED  BY <1>2, <1>3

LEMMA ClosedHolds ==
  ASSUME IInv, NEW R, R \subseteq Records(Made), NEW r, NEW u, Show(r, u, CloseModalOf(R)),
         UNCHANGED <<cookie, server, excused, left>>,
         Shape(R),
         ~left => LeftOK(R, cookie, live),
         ~excused => UserOK(R, u, cookie, live, sessions),
         ~stale => Quiet(R),
         ~excused /\ ~stale /\ route = "video" => OwnOK(R, own, cookie, live, sessions)
  PROVE  LInv'
<1> DEFINE S == CloseModalOf(R)
<1>1. Made \in Nat /\ live \subseteq Nat
  BY DEF IInv, ServerOK, Made
<1>2. Becomes(S, R) /\ \A q : PageMe(q) => (q \in S <=> q \in R)
  BY <1>1, ClosingBecomes
<1>3. /\ Shape(S) /\ (Quiet(S) <=> Quiet(R))
      /\ ~left => LeftOK(S, cookie, live)
      /\ ~excused => UserOK(S, u, cookie, live, sessions)
  BY <1>1, <1>2, BecomesHolds
<1>4. ~excused /\ ~stale /\ route = "video" => OwnOK(S, own, cookie, live, sessions)
  BY <1>2 DEF OwnOK
<1>5. S \subseteq Records(Made)
  <2>1. ASSUME NEW q \in R
        PROVE  [q EXCEPT !.asker = IF @ = "modal" THEN "pastModal" ELSE @] \in Records(Made)
    BY DEF Records, Asker
  <2> QED  BY <2>1 DEF CloseModalOf
<1>6. Show(r, u, S)
  OBVIOUS
<1> HIDE DEF S
<1> QED  BY <1>3, <1>4, <1>5, <1>6, ShowHolds

-----------------------------------------------------------------------------
(* Answers that are read. *)

\* The user that is shown once the answer q has been read.
Shows(q) ==
  IF q.kind = "logout" THEN None
  ELSE IF (Change(q) \/ LayoutMe(q)) /\ Succeeded(q) THEN q.answer.user ELSE user

LEMMA RestHolds ==
  ASSUME IInv, LInv, NEW q \in requests, Read(q)
  PROVE  /\ Rest(q) \subseteq Records(Made) /\ Shape(Rest(q))
         /\ ~left => LeftOK(Rest(q), cookie, live)
         /\ ~stale => Quiet(Rest(q)) /\ ~Change(q)
         /\ ~excused => UserOK(Rest(q), Shows(q), cookie, live, sessions)
<1>1. /\ q.answer # Pending /\ q.answer.cookie = Keep
      /\ Rest(q) \subseteq requests /\ q \notin Rest(q)
      /\ requests \subseteq Requests(Made)
      /\ \A p \in requests : p \in Rest(q) \/ p = q
  BY DEF Read, Rest, IInv, Sound
<1>2. /\ Shape(requests)
      /\ ~left => LeftOK(requests, cookie, live)
      /\ ~stale => Quiet(requests)
      /\ ~excused => UserOK(requests, user, cookie, live, sessions)
  BY DEF LInv
<1>3. Shape(Rest(q)) /\ (~stale => Quiet(Rest(q)) /\ ~Change(q)) /\ Rest(q) \subseteq Records(Made)
  BY <1>1, <1>2 DEF Shape, Quiet, Requests
<1>4. /\ NoOrphan(requests) => NoOrphan(Rest(q))
      /\ Single(requests) => Single(Rest(q))
      /\ Single(requests) /\ Change(q) => Quiet(Rest(q))
      /\ Quiet(requests) => Quiet(Rest(q))
  BY <1>1 DEF NoOrphan, Single, Quiet
<1>5. /\ Change(q) \/ LayoutMe(q) \/ PageMe(q)
      /\ live \subseteq 1..Made /\ Made \in Nat
      /\ q.answer = Failure \/ Succeeded(q)
  BY <1>1, RequestFacts
<1>6. ASSUME ~left PROVE LeftOK(Rest(q), cookie, live)
  <2>1. ASSUME NEW t \in live, q.answer.cookie = SetTo(t) PROVE FALSE
    BY <1>1, <1>5, <2>1, CookiesAre
  <2> QED  BY <1>1, <1>2, <1>4, <1>6, <2>1 DEF LeftOK
<1>7. ASSUME ~excused PROVE UserOK(Rest(q), Shows(q), cookie, live, sessions)
  <2>1. UserOK(requests, user, cookie, live, sessions)
    BY <1>2, <1>7
  <2>2. /\ NoOrphan(Rest(q)) /\ Single(Rest(q))
        /\ Change(q) => Quiet(Rest(q))
    BY <1>4, <2>1 DEF UserOK
  <2>3. \A p \in Rest(q) : LayoutMe(p) =>
          Told(p, live, sessions) /\ (p.sent \in live => p.sent = cookie /\ Quiet(Rest(q)))
    BY <1>1, <1>4, <2>1 DEF UserOK
  <2>4. \A p \in Rest(q) : Change(p) =>
          /\ Succeeded(p) /\ p.answer.cookie = Keep => p.answer.user = UserOf(cookie, live, sessions)
          /\ \A t \in live : p.answer.cookie = SetTo(t) => p.answer.user = sessions[t]
          /\ p.answer.cookie \in {Keep, Clear} \cup {SetTo(t) : t \in live}
          /\ p.kind = "logout" => p.answer # Failure
          /\ p.answer.cookie = Clear => p.kind = "logout"
    BY <1>1, <2>1 DEF UserOK
  <2>5. \/ Shows(q) = UserOf(cookie, live, sessions)
        \/ \E p \in Rest(q) : LayoutMe(p) /\ p.sent \in live
        \/ \E p \in Rest(q) : Change(p) /\ Succeeded(p)
    <3>1. CASE Change(q) /\ Succeeded(q)
      <4>1. q.answer.user = UserOf(cookie, live, sessions)
        BY <1>1, <2>1, <3>1 DEF UserOK
      <4>2. q.kind = "logout" => q.answer.user = None
        BY <1>2 DEF Shape
      <4> QED  BY <3>1, <4>1, <4>2 DEF Shows
    <3>2. CASE LayoutMe(q) /\ Succeeded(q)
      <4>1. q.sent = cookie /\ cookie \in live /\ q.answer.user = sessions[cookie]
        BY <2>1, <3>2 DEF UserOK, Told
      <4>2. q.kind # "logout"
        BY <3>2 DEF LayoutMe
      <4> QED  BY <3>2, <4>1, <4>2 DEF Shows, UserOf
    <3>3. CASE PageMe(q) \/ ~Succeeded(q)
      <4>1. q.kind # "logout"
        BY <1>5, <2>1, <3>3 DEF UserOK, PageMe, Change
      <4>2. Shows(q) = user
        BY <3>3, <4>1 DEF Shows, PageMe, LayoutMe, Change
      <4>3. LayoutMe(q) => q.sent \notin live
        BY <1>5, <2>1, <3>3 DEF UserOK, Told, PageMe, LayoutMe
      <4>4. ~(Change(q) /\ Succeeded(q))
        BY <3>3 DEF PageMe, Change
      <4> QED  BY <1>1, <2>1, <4>2, <4>3, <4>4 DEF UserOK
    <3> QED  BY <1>5, <3>1, <3>2, <3>3
  <2> QED  BY <2>2, <2>3, <2>4, <2>5 DEF UserOK
<1> QED  BY <1>3, <1>6, <1>7

LEMMA OwnRestHolds ==
  ASSUME IInv, LInv, NEW q \in requests, Read(q), ~excused, ~stale, route = "video"
  PROVE  OwnOK(Rest(q), IF PageMe(q) /\ Succeeded(q) THEN q.answer.user ELSE own,
               cookie, live, sessions)
<1>1. /\ q.answer # Pending /\ \A p \in requests : p \in Rest(q) \/ p = q
      /\ Rest(q) \subseteq requests
  BY DEF Read, Rest
<1>2. OwnOK(requests, own, cookie, live, sessions)
  BY DEF LInv
<1>3. q.answer = Failure \/ Succeeded(q)
  BY <1>1, RequestFacts
<1>4. CASE PageMe(q) /\ Succeeded(q)
  BY <1>1, <1>2, <1>4 DEF OwnOK, Told, UserOf
<1>5. CASE PageMe(q) /\ ~Succeeded(q)
  <2>1. cookie \notin live
    BY <1>2, <1>3, <1>5 DEF OwnOK, Told
  <2>2. own = None /\ UserOf(cookie, live, sessions) = None
    BY <1>2, <2>1 DEF OwnOK, UserOf
  <2> QED  BY <1>1, <1>2, <1>5, <2>2 DEF OwnOK
<1>6. CASE ~PageMe(q)
  BY <1>1, <1>2, <1>6 DEF OwnOK
<1> QED  BY <1>4, <1>5, <1>6

\* An answer is read: what it shows is Shows.
LEMMA ReadHolds ==
  ASSUME IInv, LInv, NEW q \in requests,
         MeRead(q) \/ PageAnswered(q) \/ ModalAnswered(q) \/ LogoutRead(q)
  PROVE  LInv'
<1>1. Read(q) /\ UNCHANGED <<cookie, server, excused, left>>
  BY DEF MeRead, PageAnswered, ModalAnswered, LogoutRead, Read
<1>2. /\ Rest(q) \subseteq Records(Made) /\ Shape(Rest(q))
      /\ ~left => LeftOK(Rest(q), cookie, live)
      /\ ~stale => Quiet(Rest(q)) /\ ~Change(q)
      /\ ~excused => UserOK(Rest(q), Shows(q), cookie, live, sessions)
  BY <1>1, RestHolds
<1>3. /\ Made \in Nat /\ live \subseteq Nat /\ UNCHANGED <<live, sessions>>
      /\ Change(q) \/ LayoutMe(q) \/ PageMe(q)
      /\ q.answer = Failure \/ Succeeded(q)
      /\ q.asker = "layout" => q.kind \in {"me", "logout"}
  <2>1. q.answer # Pending
    BY <1>1 DEF Read
  <2> QED  BY <1>1, <2>1, RequestFacts, WhoWaits DEF server
\* The page or the modal goes on to another page, or stays with a new user.
<1>4. CASE \E r \in Route : /\ Show(r, Shows(q), Rest(q)) \/ Show(r, Shows(q), CloseModalOf(Rest(q)))
                            /\ ~PageMe(q)
  <2>1. PICK r \in Route : Show(r, Shows(q), Rest(q)) \/ Show(r, Shows(q), CloseModalOf(Rest(q)))
    BY <1>4
  <2>2. ~excused /\ ~stale /\ route = "video" => OwnOK(Rest(q), own, cookie, live, sessions)
    BY <1>1, <1>4, OwnRestHolds
  <2>3. CASE Show(r, Shows(q), Rest(q))
    BY <1>1, <1>2, <2>2, <2>3, ShowHolds
  <2>4. CASE Show(r, Shows(q), CloseModalOf(Rest(q)))
    BY <1>1, <1>2, <2>2, <2>4, ClosedHolds
  <2> QED  BY <2>1, <2>3, <2>4
<1>5. CASE /\ requests' = Rest(q) /\ UNCHANGED <<route, user, stale>> /\ Shows(q) = user
           /\ own' = IF PageMe(q) /\ Succeeded(q) THEN q.answer.user ELSE own
  <2>1. ~excused /\ ~stale /\ route = "video" => OwnOK(Rest(q), own', cookie, live, sessions)
    BY <1>1, <1>5, OwnRestHolds
  <2> QED  BY <1>1, <1>2, <1>3, <1>5, <2>1 DEF LInv
<1>6. CASE MeRead(q)
  <2>1. q.kind = "me" /\ ~Change(q) /\ (LayoutMe(q) <=> q.asker = "layout") /\ (PageMe(q) <=> ~LayoutMe(q))
    BY <1>3, <1>6 DEF MeRead, LayoutMe, PageMe, Change
  <2>2. CASE LayoutMe(q) /\ Succeeded(q)
    <3>1. Show(route, Shows(q), Rest(q)) /\ ~PageMe(q)
      BY <1>6, <2>1, <2>2 DEF MeRead, Shows
    <3> QED  BY <1>4, <3>1 DEF IInv, TabOK
  <2>3. CASE ~(LayoutMe(q) /\ Succeeded(q))
    <3>1. Shows(q) = user
      BY <2>1, <2>3 DEF Shows
    <3>2. own' = IF PageMe(q) /\ Succeeded(q) THEN q.answer.user ELSE own
      BY <1>6, <2>1, <2>3 DEF MeRead
    <3> QED  BY <1>5, <1>6, <2>1, <2>3, <3>1, <3>2 DEF MeRead
  <2> QED  BY <2>2, <2>3
<1>7. CASE PageAnswered(q)
  <2>1. Change(q) /\ ~LayoutMe(q) /\ ~PageMe(q) /\ q.kind # "logout"
    <3>1. q.kind # "logout"
      BY <1>7, RequestFacts, Fields DEF PageAnswered, AskersOf
    <3> QED  BY <1>7, <3>1 DEF PageAnswered, Change, LayoutMe, PageMe
  <2>2. CASE Succeeded(q)
    <3>1. Show("home", Shows(q), Rest(q)) /\ "home" \in Route
      BY <1>7, <2>1, <2>2 DEF PageAnswered, Shows, Route
    <3> QED  BY <1>4, <2>1, <3>1
  <2>3. CASE ~Succeeded(q)
    BY <1>5, <1>7, <2>1, <2>3 DEF PageAnswered, Shows
  <2> QED  BY <2>2, <2>3
<1>8. CASE ModalAnswered(q)
  <2>1. Change(q) /\ ~LayoutMe(q) /\ ~PageMe(q) /\ q.kind # "logout"
    <3>1. q.kind # "logout" /\ q.kind # "me"
      BY <1>8, RequestFacts, Fields DEF ModalAnswered, AskersOf
    <3> QED  BY <3>1 DEF Change, LayoutMe, PageMe
  <2>2. CASE Succeeded(q)
    <3>1. Show(route, Shows(q), CloseModalOf(Rest(q)))
      BY <1>8, <2>1, <2>2 DEF ModalAnswered, Shows
    <3> QED  BY <1>4, <2>1, <3>1 DEF IInv, TabOK
  <2>3. CASE ~Succeeded(q)
    BY <1>5, <1>8, <2>1, <2>3 DEF ModalAnswered, Shows
  <2> QED  BY <2>2, <2>3
<1>9. CASE LogoutRead(q)
  <2>1. Show(route, Shows(q), Rest(q)) /\ ~PageMe(q)
    BY <1>9 DEF LogoutRead, Shows, PageMe
  <2> QED  BY <1>4, <2>1 DEF IInv, TabOK
<1> QED  BY <1>6, <1>7, <1>8, <1>9

-----------------------------------------------------------------------------
(* The user's steps. *)

LEMMA PagesHold ==
  ASSUME IInv, LInv, NEW r \in Route, Navigate(r) \/ CloseModal(r)
  PROVE  LInv'
<1>1. /\ UNCHANGED <<cookie, server, excused, left>>
      /\ Show(r, user, requests) \/ Show(r, user, CloseModalOf(requests))
  BY DEF Navigate, CloseModal
<1>2. /\ requests \subseteq Records(Made) /\ Shape(requests)
      /\ ~left => LeftOK(requests, cookie, live)
      /\ ~excused => UserOK(requests, user, cookie, live, sessions)
      /\ ~stale => Quiet(requests)
      /\ ~excused /\ ~stale /\ route = "video" => OwnOK(requests, own, cookie, live, sessions)
  BY DEF LInv, IInv, Sound, Requests
<1>3. CASE Show(r, user, requests)
  BY <1>1, <1>2, <1>3, ShowHolds
<1>4. CASE Show(r, user, CloseModalOf(requests))
  BY <1>1, <1>2, <1>4, ClosedHolds
<1> QED  BY <1>1, <1>3, <1>4

LEMMA ReloadHolds ==
  ASSUME IInv, LInv, NEW r, Reload(r)
  PROVE  LInv'
<1> DEFINE old == {[q EXCEPT !.asker = "nobody"] : q \in {p \in requests : Change(p)}}
           new == {AskMe("layout")} \cup MeOf(r)
<1>1. /\ requests' = old \cup new /\ route' = r /\ user' = None /\ own' = None
      /\ UNCHANGED <<cookie, live, sessions>>
      /\ ~left' => ~left /\ Quiet(requests)
      /\ ~excused' => Quiet(requests)
      /\ ~stale' => Quiet(requests)
  BY DEF Reload, server, Changing, Quiet
<1>2. ASSUME NEW b \in new
      PROVE  /\ b.kind = "me" /\ b.asker \in {"layout", "page"} /\ b.sent = cookie
             /\ ~Change(b) /\ b.answer.cookie = Keep /\ ~Succeeded(b)
             /\ \A l, s : Told(b, l, s)
  <2>1. b = Ask("me", "layout", None, TRUE) \/ b = Ask("me", "page", None, TRUE)
    BY DEF MeOf, AskMe
  <2>2. b.kind = "me" /\ b.asker \in {"layout", "page"} /\ b.sent = cookie /\ b.answer = Pending
    BY <2>1 DEF Ask
  <2>3. Pending # Failure /\ ~Succeeded(b) /\ Pending.cookie = Keep
    BY <2>2, AnswerFields DEF Succeeded
  <2> QED  BY <2>2, <2>3 DEF Change, Told
<1>3. Shape(old)
  <2>1. ASSUME NEW q \in requests, Change(q)
        PROVE  LET b == [q EXCEPT !.asker = "nobody"]
               IN b.kind = q.kind /\ b.answer = q.answer
    BY DEF IInv, Sound, Requests, Records
  <2>2. ASSUME NEW x \in old PROVE \E q \in requests : x.kind = q.kind /\ x.answer = q.answer
    <3>1. PICK q \in {p \in requests : Change(p)} : x = [q EXCEPT !.asker = "nobody"]
      OBVIOUS
    <3> QED  BY <2>1, <3>1
  <2> HIDE DEF old
  <2> QED  BY <2>2 DEF Shape, LInv
<1>4. Quiet(requests) => old = {}
  <2>1. Quiet(requests) => {p \in requests : Change(p)} = {}
    BY DEF Quiet
  <2> QED  BY <2>1
<1>5. AskMe("layout") \in new /\ LayoutMe(AskMe("layout"))
      /\ (r = "video" => \E b \in new : PageMe(b))
  <2>1. LayoutMe(AskMe("layout")) /\ PageMe(AskMe("page"))
    BY DEF AskMe, Ask, LayoutMe, PageMe
  <2>2. r = "video" => AskMe("page") \in new
    BY DEF MeOf
  <2> QED  BY <2>1, <2>2
<1> HIDE DEF old, new
<1>6. Shape(requests')
  BY <1>1, <1>2, <1>3 DEF Shape
<1>7. Quiet(new) /\ NoOrphan(new) /\ Single(new)
  BY <1>2 DEF Quiet, NoOrphan, Single
<1>8. ASSUME ~left' PROVE LeftOK(new, cookie, live)
  <2>1. LeftOK(requests, cookie, live) /\ Quiet(requests) /\ Shape(requests)
    BY <1>1, <1>8 DEF LInv
  <2>2. ASSUME NEW t \in live PROVE t = cookie
    <3>1. SetTo(t) # Keep
      BY CookiesAre DEF IInv, ServerOK, Made
    <3>2. \A q \in requests : q.answer.cookie # SetTo(t)
      BY <2>1, <3>1 DEF Quiet, Shape, Change
    <3> QED  BY <2>1, <3>2 DEF LeftOK
  <2> QED  BY <1>7, <2>2 DEF LeftOK, Quiet
<1>9. UserOK(new, None, cookie, live, sessions)
  BY <1>2, <1>5, <1>7 DEF UserOK, Quiet, UserOf
<1>10. r = "video" => OwnOK(new, None, cookie, live, sessions)
  BY <1>2, <1>5 DEF OwnOK
<1> QED  BY <1>1, <1>4, <1>6, <1>7, <1>8, <1>9, <1>10 DEF LInv

\* A login, registration or logout is sent, with the cookie of the moment.
LEMMA SubmitsHold ==
  ASSUME IInv, LInv, NEW u, NEW right, SubmitLogin(u, right) \/ SubmitRegister(u) \/ Logout
  PROVE  LInv'
<1>1. PICK b : /\ Sends(b) /\ Change(b) /\ b.sent = cookie /\ b.answer = Pending
               /\ b.asker # "nobody"
               /\ UNCHANGED <<cookie, server>> /\ UNCHANGED <<route, user, own>>
  <2>1. CASE SubmitLogin(u, right)
    <3>1. PICK x \in {"page", "modal"} : Sends(Ask("login", x, u, right))
      BY <2>1 DEF SubmitLogin
    <3>2. LET b == Ask("login", x, u, right)
          IN Change(b) /\ b.sent = cookie /\ b.answer = Pending /\ b.asker # "nobody"
      BY DEF Ask, Change
    <3>3. UNCHANGED <<cookie, server>> /\ UNCHANGED <<route, user, own>>
      BY <2>1 DEF SubmitLogin
    <3> QED  BY <3>1, <3>2, <3>3
  <2>2. CASE SubmitRegister(u)
    <3>1. LET b == Ask("register", "page", u, TRUE)
          IN Change(b) /\ b.sent = cookie /\ b.answer = Pending /\ b.asker # "nobody"
      BY DEF Ask, Change
    <3>2. Sends(Ask("register", "page", u, TRUE))
          /\ UNCHANGED <<cookie, server>> /\ UNCHANGED <<route, user, own>>
      BY <2>2 DEF SubmitRegister
    <3> QED  BY <3>1, <3>2
  <2>3. CASE Logout
    <3>1. LET b == Ask("logout", "layout", None, TRUE)
          IN Change(b) /\ b.sent = cookie /\ b.answer = Pending /\ b.asker # "nobody"
      BY DEF Ask, Change
    <3>2. Sends(Ask("logout", "layout", None, TRUE))
          /\ UNCHANGED <<cookie, server>> /\ UNCHANGED <<route, user, own>>
      BY <2>3 DEF Logout, tab
    <3> QED  BY <3>1, <3>2
  <2> QED  BY <2>1, <2>2, <2>3
<1>2. /\ requests' = requests \cup {b} /\ stale' = TRUE /\ UNCHANGED <<live, sessions>>
      /\ ~excused' => /\ ~excused /\ Quiet(requests)
                      /\ \A p \in requests : ~TellsEarlierUser(p)
      /\ ~left' => /\ ~left /\ Quiet(requests)
                   /\ b.kind = "logout" \/ cookie \notin live
  BY <1>1 DEF Sends, Quiet, server
<1>3. /\ Pending # Failure /\ ~Succeeded(b) /\ b.answer.cookie = Keep /\ b.answer.user = None
      /\ Keep # Clear /\ ~LayoutMe(b)
  BY <1>1, AnswerFields, CookiesAre DEF Succeeded, LayoutMe, Change
<1>4. Shape(requests')
  BY <1>2, <1>3 DEF LInv, Shape
<1>5. Quiet(requests) => Single(requests')
  BY <1>2 DEF Quiet, Single
<1>6. NoOrphan(requests) => NoOrphan(requests')
  BY <1>1, <1>2 DEF NoOrphan
<1>7. ASSUME ~left' PROVE LeftOK(requests', cookie, live)
  <2>1. LeftOK(requests, cookie, live) /\ Quiet(requests)
    BY <1>2, <1>7 DEF LInv
  <2>2. \A q \in requests' : Change(q) => q = b
    BY <1>2, <2>1 DEF Quiet
  <2> QED  BY <1>1, <1>2, <1>3, <1>5, <1>6, <1>7, <2>1, <2>2 DEF LeftOK
<1>8. ASSUME ~excused' PROVE UserOK(requests', user, cookie, live, sessions)
  <2>1. UserOK(requests, user, cookie, live, sessions) /\ Quiet(requests)
    BY <1>2, <1>8 DEF LInv
  <2>2. \A q \in requests' : Change(q) => q = b
    BY <1>2, <2>1 DEF Quiet
  <2>3. \A q \in requests : LayoutMe(q) => q.sent \notin live
    BY <1>2, <1>8 DEF TellsEarlierUser, LayoutMe
  <2>4. user = UserOf(cookie, live, sessions)
    BY <2>1, <2>3 DEF UserOK, Quiet
  <2>5. \A q \in requests' : LayoutMe(q) => Told(q, live, sessions) /\ q.sent \notin live
    BY <1>2, <1>3, <2>1, <2>3 DEF UserOK
  <2>6. NoOrphan(requests')
    BY <1>6, <2>1 DEF UserOK
  <2>7. \A q \in requests' : Change(q) =>
          /\ ~Succeeded(q) /\ q.answer.cookie = Keep /\ q.answer # Failure
          /\ \A t \in live : q.answer.cookie # SetTo(t)
    <3>1. \A t \in live : SetTo(t) # Keep
      BY CookiesAre DEF IInv, ServerOK, Made
    <3> QED  BY <1>1, <1>3, <2>2, <3>1
  <2> QED  BY <1>3, <1>5, <2>1, <2>4, <2>5, <2>6, <2>7 DEF UserOK
<1> QED  BY <1>1, <1>2, <1>4, <1>7, <1>8 DEF LInv

-----------------------------------------------------------------------------
(* The server, and answers on their way. *)

\* The request q with another answer, b, takes its place.
Replaces(q, b, a) ==
  /\ requests' = Rest(q) \cup {b} /\ b.answer = a
  /\ b.kind = q.kind /\ b.asker = q.asker /\ b.sent = q.sent

LEMMA Replacing ==
  ASSUME IInv, NEW q \in requests, NEW a, Answer(q, a)
  PROVE  /\ Replaces(q, [q EXCEPT !.answer = a], a)
         /\ \A p \in requests : p \in Rest(q) \/ p = q
         /\ Rest(q) \subseteq requests /\ q \notin Rest(q)
<1>1. q \in Records(Made)
  BY DEF IInv, Sound, Requests
<1> QED  BY <1>1 DEF Answer, Replaces, Rest, Records

\* What does not depend on the answer.
LEMMA ReplacedFacts ==
  ASSUME IInv, LInv, NEW q \in requests, NEW a, NEW b, Replaces(q, b, a)
  PROVE  /\ Change(b) <=> Change(q)
         /\ LayoutMe(b) <=> LayoutMe(q)
         /\ PageMe(b) <=> PageMe(q)
         /\ NoOrphan(requests) => NoOrphan(requests')
         /\ Single(requests) => Single(requests')
         /\ Quiet(requests) <=> Quiet(requests')
         /\ Single(requests) /\ Change(q) => \A p \in requests' : Change(p) => p = b
         /\ (q.kind = "me" => a.cookie = Keep) /\ (q.kind = "logout" => a.user = None)
              => Shape(requests')
<1>1. (Change(b) <=> Change(q)) /\ (LayoutMe(b) <=> LayoutMe(q)) /\ (PageMe(b) <=> PageMe(q))
  BY DEF Replaces, Change, LayoutMe, PageMe
<1>2. requests' = (requests \ {q}) \cup {b} /\ b.asker = q.asker
  BY DEF Replaces, Rest
<1>3. NoOrphan(requests) => NoOrphan(requests')
  BY <1>2 DEF NoOrphan
<1>4. /\ Single(requests) => Single(requests')
      /\ Quiet(requests) <=> Quiet(requests')
      /\ Single(requests) /\ Change(q) => \A p \in requests' : Change(p) => p = b
  <2> HIDE DEF Change
  <2> QED  BY <1>1, <1>2 DEF Single, Quiet
<1>5. (q.kind = "me" => a.cookie = Keep) /\ (q.kind = "logout" => a.user = None) => Shape(requests')
  BY <1>2 DEF Shape, LInv, Replaces
<1> QED  BY <1>1, <1>3, <1>4, <1>5

LEMMA MeHolds ==
  ASSUME IInv, LInv, NEW q \in requests, HandleAuthMe(q)
  PROVE  LInv'
<1> DEFINE a == IF q.sent \in live THEN Success(sessions[q.sent], Keep) ELSE Failure
           b == [q EXCEPT !.answer = a]
<1>1. /\ q.kind = "me" /\ q.answer = Pending /\ Answer(q, a)
      /\ UNCHANGED <<route, user, own, cookie, live, sessions, excused, stale, left>>
  BY DEF HandleAuthMe, tab, server, history
<1>2. /\ a.cookie = Keep
      /\ a.is = "ok" => q.sent \in live /\ a.user = sessions[q.sent]
      /\ a = Failure => q.sent \notin live
  BY AnswerFields
<1>3. Replaces(q, b, a) /\ (\A p \in requests : p \in Rest(q) \/ p = q) /\ Rest(q) \subseteq requests
  BY <1>1, Replacing
<1> HIDE DEF a, b
<1>4. Told(b, live, sessions) /\ ~Change(q) /\ b.sent = q.sent /\ b.answer.cookie = Keep
      /\ requests' = Rest(q) \cup {b}
  BY <1>1, <1>2, <1>3 DEF Told, Succeeded, Replaces, Change
<1>5. Pending.cookie = Keep /\ \A t \in live : SetTo(t) # Keep
  BY AnswerFields, CookiesAre DEF IInv, ServerOK, Made
<1>6. /\ (LayoutMe(b) <=> LayoutMe(q)) /\ (PageMe(b) <=> PageMe(q)) /\ ~Change(b)
      /\ NoOrphan(requests) => NoOrphan(requests')
      /\ Single(requests) => Single(requests')
      /\ Quiet(requests) <=> Quiet(requests')
  BY <1>3, <1>4, ReplacedFacts
<1>7. Shape(requests')
  BY <1>1, <1>2, <1>3, ReplacedFacts
<1>8. ASSUME ~left PROVE LeftOK(requests', cookie, live)
  <2>1. LeftOK(requests, cookie, live)
    BY <1>8 DEF LInv
  <2>2. \A t \in live : t = cookie \/ \E p \in requests' : p.answer.cookie = SetTo(t)
    BY <1>1, <1>3, <1>4, <1>5, <2>1 DEF LeftOK
  <2> QED  BY <1>3, <1>4, <1>6, <2>1, <2>2 DEF LeftOK
<1>9. ASSUME ~excused PROVE UserOK(requests', user, cookie, live, sessions)
  <2>1. UserOK(requests, user, cookie, live, sessions)
    BY <1>9 DEF LInv
  <2> QED  BY <1>3, <1>4, <1>6, <2>1 DEF UserOK
<1>10. ASSUME ~excused, ~stale, route = "video" PROVE OwnOK(requests', own, cookie, live, sessions)
  <2>1. OwnOK(requests, own, cookie, live, sessions)
    BY <1>10 DEF LInv
  <2> QED  BY <1>3, <1>4, <1>6, <2>1 DEF OwnOK
<1>11. ~stale => Quiet(requests')
  BY <1>6 DEF LInv
<1> QED  BY <1>1, <1>7, <1>8, <1>9, <1>10, <1>11 DEF LInv

\* A login or registration that is refused.
LEMMA RefusedHolds ==
  ASSUME IInv, LInv, NEW q \in requests, q.kind \in {"login", "register"}, q.answer = Pending,
         Answer(q, Failure), UNCHANGED <<tab, cookie, sessions, live, history>>
  PROVE  LInv'
<1> DEFINE b == [q EXCEPT !.answer = Failure]
<1>1. /\ Replaces(q, b, Failure) /\ Rest(q) \subseteq requests
      /\ \A p \in requests : p \in Rest(q) \/ p = q
  BY Replacing
<1> HIDE DEF b
<1>2. /\ Change(q) /\ q.kind # "logout" /\ q.kind # "me" /\ ~Succeeded(q) /\ ~Succeeded(b)
      /\ b.answer = Failure /\ Failure # Pending /\ Failure.cookie = Keep /\ Pending.cookie = Keep
      /\ b.kind = q.kind /\ requests' = Rest(q) \cup {b} /\ Keep # Clear
      /\ \A t \in live : SetTo(t) # Keep
  BY <1>1, AnswerFields, CookiesAre DEF Replaces, Change, Succeeded, IInv, ServerOK, Made
<1>3. /\ Change(b) /\ ~LayoutMe(b) /\ ~LayoutMe(q) /\ Shape(requests')
      /\ NoOrphan(requests) => NoOrphan(requests')
      /\ Single(requests) => Single(requests')
      /\ Quiet(requests) <=> Quiet(requests')
      /\ Single(requests) => \A p \in requests' : Change(p) => p = b
      /\ Single(requests) => \A p \in requests : Change(p) => p = q
  BY <1>1, <1>2, ReplacedFacts DEF LayoutMe, Change, Single
<1>4. ASSUME ~left PROVE LeftOK(requests', cookie, live)
  <2>1. LeftOK(requests, cookie, live) /\ Single(requests)
    BY <1>4 DEF LInv, LeftOK
  <2>2. \A t \in live : t = cookie \/ \E p \in requests' : p.answer.cookie = SetTo(t)
    BY <1>1, <1>2, <2>1 DEF LeftOK
  <2> QED  BY <1>2, <1>3, <2>1, <2>2 DEF LeftOK
<1>5. ASSUME ~excused PROVE UserOK(requests', user, cookie, live, sessions)
  <2>1. UserOK(requests, user, cookie, live, sessions) /\ Single(requests)
    BY <1>5 DEF LInv, UserOK
  <2>2. \A p \in requests' : LayoutMe(p) => Told(p, live, sessions) /\ p.sent \notin live
    BY <1>1, <1>2, <1>3, <2>1 DEF UserOK, Quiet
  <2>3. user = UserOf(cookie, live, sessions)
    BY <1>1, <1>2, <1>3, <2>1, <2>2 DEF UserOK
  <2> QED  BY <1>2, <1>3, <2>1, <2>2, <2>3 DEF UserOK
<1>6. stale /\ UNCHANGED <<route, user, own, excused, stale, left>>
  BY <1>2 DEF LInv, Quiet, tab, history
<1> QED  BY <1>3, <1>4, <1>5, <1>6 DEF LInv

\* A login or registration that makes a session.
LEMMA OpenedHolds ==
  ASSUME IInv, LInv, NEW q \in requests, q.kind \in {"login", "register"}, q.answer = Pending,
         NEW u \in User, OpenSession(q, u), UNCHANGED <<tab, cookie, history>>
  PROVE  LInv'
<1> DEFINE n == Made + 1
           a == Success(u, SetTo(n))
           b == [q EXCEPT !.answer = a]
<1>1. /\ Made \in Nat /\ sessions \in Seq(User) /\ live \subseteq 1..Made /\ cookie \in 0..Made
      /\ n \in Nat /\ \A p \in requests : p.sent \in 0..Made
  BY RequestFacts DEF IInv, ServerOK, Made
<1>2. /\ sessions' = Append(sessions, u) /\ live' = live \cup {n} /\ Answer(q, a)
  BY <1>1 DEF OpenSession, Made
<1>3. /\ Replaces(q, b, a) /\ Rest(q) \subseteq requests /\ q \notin Rest(q)
      /\ \A p \in requests : p \in Rest(q) \/ p = q
  BY <1>2, Replacing
<1>4. /\ sessions'[n] = u /\ n \notin live
      /\ \A t \in 0..Made : (t \in live' <=> t \in live) /\ (t \in live => sessions'[t] = sessions[t])
  BY <1>1, <1>2 DEF Made
<1>5. /\ a.is = "ok" /\ a.cookie = SetTo(n) /\ a.user = u /\ a # Pending
      /\ SetTo(n) # Keep /\ SetTo(n) # Clear /\ Pending.cookie = Keep
      /\ \A t \in live : SetTo(t) # Keep
      /\ \A t \in live' : SetTo(t) = SetTo(n) => t = n
  <2>1. live' \subseteq Nat
    BY <1>1, <1>2
  <2>2. \A t \in Nat : SetTo(t) # Keep /\ SetTo(t) # Clear /\ SetTo(t).session = t
    BY CookiesAre
  <2>3. a.is = "ok" /\ a.cookie = SetTo(n) /\ a.user = u /\ Pending.is # "ok" /\ Pending.cookie = Keep
    BY AnswerFields
  <2> HIDE DEF n, a
  <2> QED  BY <1>1, <2>1, <2>2, <2>3
<1> HIDE DEF n, a, b
<1>6. /\ Change(q) /\ q.kind # "logout" /\ q.kind # "me" /\ Succeeded(b)
      /\ b.answer = a /\ b.kind = q.kind /\ requests' = Rest(q) \cup {b}
  BY <1>3, <1>5 DEF Replaces, Change, Succeeded
<1>7. /\ Change(b) /\ ~LayoutMe(b) /\ Shape(requests')
      /\ NoOrphan(requests) => NoOrphan(requests')
      /\ Single(requests) => Single(requests')
      /\ Single(requests) => \A p \in requests' : Change(p) => p = b
  BY <1>3, <1>6, ReplacedFacts DEF LayoutMe, Change
<1>8. ASSUME ~left PROVE LeftOK(requests', cookie, live')
  <2>1. LeftOK(requests, cookie, live) /\ Single(requests)
    BY <1>8 DEF LInv, LeftOK
  <2>2. cookie \notin live'
    BY <1>1, <1>4, <1>6, <2>1 DEF LeftOK
  <2>3. ASSUME NEW t \in live' PROVE t = cookie \/ \E p \in requests' : p.answer.cookie = SetTo(t)
    <3>1. CASE t = n
      BY <1>5, <1>6, <3>1
    <3>2. CASE t \in live
      BY <1>3, <1>5, <1>6, <2>1, <3>2 DEF LeftOK
    <3> QED  BY <1>2, <3>1, <3>2
  <2> QED  BY <1>5, <1>6, <1>7, <2>1, <2>2, <2>3 DEF LeftOK
<1>9. ASSUME ~excused PROVE UserOK(requests', user, cookie, live', sessions')
  <2>1. UserOK(requests, user, cookie, live, sessions) /\ Single(requests)
    BY <1>9 DEF LInv, UserOK
  <2>2. \A p \in requests' : LayoutMe(p) => Told(p, live', sessions') /\ p.sent \notin live'
    BY <1>1, <1>3, <1>4, <1>6, <1>7, <2>1 DEF UserOK, Quiet, Told
  <2>3. /\ b.answer.cookie # Keep /\ b.answer.cookie # Clear
        /\ \A t \in live' : b.answer.cookie = SetTo(t) => b.answer.user = sessions'[t]
        /\ b.answer.cookie \in {SetTo(t) : t \in live'}
    BY <1>2, <1>4, <1>5, <1>6
  <2> QED  BY <1>6, <1>7, <2>1, <2>2, <2>3 DEF UserOK
<1>10. stale /\ UNCHANGED <<route, user, own, excused, stale, left>>
  BY <1>6 DEF LInv, Quiet, tab, history
<1> QED  BY <1>7, <1>8, <1>9, <1>10 DEF LInv

LEMMA LogoutHolds ==
  ASSUME IInv, LInv, NEW q \in requests, HandleAuthLogout(q)
  PROVE  LInv'
<1> DEFINE a == Success(None, Clear)
           b == [q EXCEPT !.answer = a]
<1>1. /\ q.kind = "logout" /\ q.answer = Pending /\ Answer(q, a) /\ live' = live \ {q.sent}
      /\ UNCHANGED <<route, user, own, cookie, sessions, excused, stale, left>>
  BY DEF HandleAuthLogout, tab, history
<1>2. /\ a.is = "ok" /\ a.cookie = Clear /\ a.user = None /\ a # Pending /\ Pending.cookie = Keep
      /\ Clear # Keep /\ \A t \in live : SetTo(t) # Keep /\ SetTo(t) # Clear
  BY AnswerFields, CookiesAre DEF IInv, ServerOK, Made
<1>3. /\ Replaces(q, b, a) /\ Rest(q) \subseteq requests
      /\ \A p \in requests : p \in Rest(q) \/ p = q
  BY <1>1, Replacing
<1> HIDE DEF a, b
<1>4. /\ Change(q) /\ Succeeded(b) /\ b.answer = a /\ b.kind = "logout" /\ requests' = Rest(q) \cup {b}
  BY <1>1, <1>2, <1>3 DEF Replaces, Change, Succeeded
<1>5. /\ Change(b) /\ ~LayoutMe(b) /\ Shape(requests')
      /\ NoOrphan(requests) => NoOrphan(requests')
      /\ Single(requests) => Single(requests')
      /\ Single(requests) => \A p \in requests' : Change(p) => p = b
  BY <1>1, <1>2, <1>3, <1>4, ReplacedFacts DEF LayoutMe, Change
<1>6. ASSUME ~left PROVE LeftOK(requests', cookie, live')
  <2>1. LeftOK(requests, cookie, live) /\ Single(requests)
    BY <1>6 DEF LInv, LeftOK
  <2>2. cookie \notin live'
    BY <1>1, <1>4, <2>1 DEF LeftOK
  <2>3. \A t \in live' : t = cookie \/ \E p \in requests' : p.answer.cookie = SetTo(t)
    BY <1>1, <1>2, <1>3, <1>4, <2>1 DEF LeftOK
  <2> QED  BY <1>2, <1>4, <1>5, <2>1, <2>2, <2>3 DEF LeftOK
<1>7. ASSUME ~excused PROVE UserOK(requests', user, cookie, live', sessions)
  <2>1. UserOK(requests, user, cookie, live, sessions) /\ Single(requests)
    BY <1>7 DEF LInv, UserOK
  <2>2. \A p \in requests' : LayoutMe(p) => Told(p, live', sessions) /\ p.sent \notin live'
    BY <1>1, <1>3, <1>4, <1>5, <2>1 DEF UserOK, Quiet, Told
  <2>3. a # Failure /\ \A t \in live' : a.cookie # SetTo(t)
    BY <1>1, <1>2, AnswerFields
  <2> QED  BY <1>2, <1>4, <1>5, <2>1, <2>2, <2>3 DEF UserOK
<1>8. stale
  BY <1>4 DEF LInv, Quiet
<1> QED  BY <1>1, <1>5, <1>6, <1>7, <1>8 DEF LInv

LEMMA FaultsHold ==
  ASSUME IInv, LInv, NEW q \in requests, ServerFails(q) \/ Lose(q)
  PROVE  LInv'
<1>1. PICK a : /\ Answer(q, a) /\ excused' = TRUE /\ left' = TRUE /\ stale' = stale
               /\ a = Failure \/ (q.kind = "logout" /\ a = Success(None, Clear))
  BY DEF ServerFails, Lose, Failed
<1>2. (q.kind = "me" => a.cookie = Keep) /\ (q.kind = "logout" => a.user = None)
  BY <1>1, AnswerFields
<1>3. Replaces(q, [q EXCEPT !.answer = a], a)
  BY <1>1, Replacing
<1>4. Shape(requests') /\ (Quiet(requests) <=> Quiet(requests'))
  BY <1>2, <1>3, ReplacedFacts
<1> QED  BY <1>1, <1>4 DEF LInv

\* The cookie takes the value that was on its way.
LEMMA CookieHolds ==
  ASSUME IInv, LInv, NEW q \in requests, CookieArrives(q)
  PROVE  LInv'
<1> DEFINE a == [q.answer EXCEPT !.cookie = Keep]
           b == [q EXCEPT !.answer = a]
<1>1. /\ q.answer.cookie # Keep /\ Answer(q, a)
      /\ cookie' = IF q.answer.cookie = Clear THEN 0 ELSE q.answer.cookie.session
      /\ UNCHANGED <<route, user, own, live, sessions, excused, stale, left>>
  BY DEF CookieArrives, tab, server, history
<1>2. /\ q.answer \in Answers(Made) /\ Made \in Nat /\ live \subseteq 1..Made
      /\ Succeeded(q)
      /\ q.answer.cookie = Clear \/ \E t \in 1..Made : q.answer.cookie = SetTo(t)
  BY <1>1, RequestFacts, Fields
<1>3. a.is = "ok" /\ a.cookie = Keep /\ a.user = q.answer.user /\ a # Pending
  <2>1. PICK u \in Names, c \in Cookies(Made) : q.answer = Success(u, c)
    BY <1>1, <1>2, AnswerFields DEF Answers
  <2>2. a = Success(u, Keep)
    BY <2>1 DEF Success
  <2> HIDE DEF a
  <2> QED  BY <2>1, <2>2, AnswerFields
<1>4. /\ Replaces(q, b, a) /\ Rest(q) \subseteq requests
      /\ \A p \in requests : p \in Rest(q) \/ p = q
  BY <1>1, Replacing
<1> HIDE DEF a, b
<1>5. /\ Change(q) /\ Succeeded(b) /\ b.answer = a /\ b.kind = q.kind /\ requests' = Rest(q) \cup {b}
  BY <1>1, <1>3, <1>4 DEF Replaces, Change, Succeeded, LInv, Shape
<1>6. /\ Change(b) /\ ~LayoutMe(b) /\ Shape(requests')
      /\ NoOrphan(requests) => NoOrphan(requests')
      /\ Single(requests) => Single(requests')
      /\ Single(requests) => \A p \in requests' : Change(p) => p = b
      /\ Single(requests) => \A p \in requests : Change(p) => p = q
  <2>1. (q.kind = "me" => a.cookie = Keep) /\ (q.kind = "logout" => a.user = None)
    BY <1>3 DEF LInv, Shape
  <2> QED  BY <1>4, <1>5, <2>1, ReplacedFacts DEF LayoutMe, Change, Single
\* The new cookie, and what it was before.
<1>7. /\ q.answer.cookie = Clear => cookie' = 0 /\ 0 \notin live
      /\ \A t \in live : q.answer.cookie = SetTo(t) <=> cookie' = t
      /\ Keep # Clear /\ \A t \in live : SetTo(t) # Keep /\ SetTo(t) # Clear
  <2>1. \A t \in Nat : SetTo(t) # Keep /\ SetTo(t) # Clear /\ SetTo(t).session = t
    BY CookiesAre
  <2>2. Keep # Clear
    BY CookiesAre
  <2> QED  BY <1>1, <1>2, <2>1, <2>2
<1>8. ASSUME ~left PROVE LeftOK(requests', cookie', live)
  <2>1. LeftOK(requests, cookie, live) /\ Single(requests)
    BY <1>8 DEF LInv, LeftOK
  <2>2. cookie \notin live
    BY <1>1, <1>5, <2>1 DEF LeftOK
  <2>3. ASSUME NEW t \in live PROVE t = cookie'
    <3>1. PICK p \in requests : p.answer.cookie = SetTo(t)
      BY <2>1, <2>2 DEF LeftOK
    <3>2. p = q
      BY <1>6, <1>7, <2>1, <3>1 DEF LInv, Shape, Change
    <3> QED  BY <1>7, <3>1, <3>2
  <2> QED  BY <1>3, <1>5, <1>6, <2>1, <2>3 DEF LeftOK
<1>9. ASSUME ~excused PROVE UserOK(requests', user, cookie', live, sessions)
  <2>1. UserOK(requests, user, cookie, live, sessions) /\ Single(requests)
    BY <1>9 DEF LInv, UserOK
  <2>2. \A p \in requests' : LayoutMe(p) => Told(p, live, sessions) /\ p.sent \notin live
    BY <1>4, <1>5, <1>6, <2>1 DEF UserOK, Quiet
  <2>3. a.user = UserOf(cookie', live, sessions)
    <3>1. CASE q.answer.cookie = Clear
      BY <1>3, <1>5, <1>7, <2>1, <3>1 DEF UserOK, UserOf, LInv, Shape
    <3>2. CASE q.answer.cookie # Clear
      <4>1. PICK t \in live : q.answer.cookie = SetTo(t)
        BY <1>1, <1>5, <2>1, <3>2 DEF UserOK
      <4> QED  BY <1>3, <1>5, <1>7, <2>1, <4>1 DEF UserOK, UserOf
    <3> QED  BY <3>1, <3>2
  <2>4. a # Failure /\ \A t \in live : a.cookie # SetTo(t)
    BY <1>3, <1>7, AnswerFields
  <2> QED  BY <1>3, <1>5, <1>6, <1>7, <2>1, <2>2, <2>3, <2>4 DEF UserOK
<1>10. stale
  BY <1>5 DEF LInv, Quiet
<1> QED  BY <1>1, <1>6, <1>8, <1>9, <1>10 DEF LInv

LEMMA CancelledHolds ==
  ASSUME IInv, LInv, NEW q \in requests, Cancelled(q)
  PROVE  LInv'
<1>1. /\ q.asker = "nobody" /\ requests' \subseteq requests
      /\ UNCHANGED <<excused, stale, left>>
  BY DEF Cancelled, history
<1>2. left /\ excused
  BY <1>1 DEF LInv, LeftOK, UserOK, NoOrphan
<1>3. Shape(requests') /\ (Quiet(requests) => Quiet(requests'))
  BY <1>1 DEF LInv, Shape, Quiet
<1> QED  BY <1>1, <1>2, <1>3 DEF LInv

-----------------------------------------------------------------------------

LEMMA InitiallyHolds ==
  ASSUME Init
  PROVE  LInv
<1>1. /\ user = None /\ own = None
      /\ requests = {AskMe("layout")} \cup MeOf(route)
      /\ \A t \in live : t = cookie
  BY DEF Init
<1>2. ASSUME NEW b \in requests
      PROVE  /\ b.kind = "me" /\ b.asker # "nobody" /\ b.sent = cookie
             /\ ~Change(b) /\ b.answer.cookie = Keep /\ ~Succeeded(b)
             /\ Told(b, live, sessions)
  <2>1. b = Ask("me", "layout", None, TRUE) \/ b = Ask("me", "page", None, TRUE)
    BY <1>1 DEF MeOf, AskMe
  <2>2. b.kind = "me" /\ b.asker # "nobody" /\ b.sent = cookie /\ b.answer = Pending
    BY <2>1 DEF Ask
  <2>3. Pending # Failure /\ ~Succeeded(b) /\ Pending.cookie = Keep
    BY <2>2, AnswerFields DEF Succeeded
  <2> QED  BY <2>2, <2>3 DEF Change, Told
<1>3. /\ \E b \in requests : LayoutMe(b)
      /\ route = "video" => \E b \in requests : PageMe(b)
  <2>1. LayoutMe(AskMe("layout")) /\ PageMe(AskMe("page"))
    BY DEF AskMe, Ask, LayoutMe, PageMe
  <2>2. AskMe("layout") \in requests /\ (route = "video" => AskMe("page") \in requests)
    BY <1>1 DEF MeOf
  <2> QED  BY <2>1, <2>2
<1>4. Shape(requests) /\ Quiet(requests) /\ NoOrphan(requests) /\ Single(requests)
  BY <1>2 DEF Shape, Quiet, NoOrphan, Single
<1>5. LeftOK(requests, cookie, live)
  BY <1>1, <1>4 DEF LeftOK, Quiet
<1>6. UserOK(requests, user, cookie, live, sessions)
  BY <1>1, <1>2, <1>3, <1>4 DEF UserOK, Quiet, UserOf
<1>7. route = "video" => OwnOK(requests, own, cookie, live, sessions)
  BY <1>1, <1>2, <1>3 DEF OwnOK
<1> QED  BY <1>4, <1>5, <1>6, <1>7 DEF LInv

LEMMA StepHolds ==
  ASSUME IInv, LInv, [Next]_vars
  PROVE  LInv'
<1>1. CASE UNCHANGED <<route, user, own, cookie, live, sessions, requests, history>>
  BY <1>1 DEF LInv, history
<1>2. CASE UNCHANGED vars
  BY <1>1, <1>2 DEF vars, tab, server
<1>3. CASE OpenModal \/ SubmitInvalid
  BY <1>1, <1>3 DEF OpenModal, SubmitInvalid, server
<1>4. ASSUME NEW r \in Route, Navigate(r) \/ CloseModal(r) \/ Reload(r)  PROVE LInv'
  BY <1>4, PagesHold, ReloadHolds
<1>5. CASE Logout \/ \E u \in User : SubmitRegister(u) \/ \E right \in BOOLEAN : SubmitLogin(u, right)
  BY <1>5, SubmitsHold
<1>6. ASSUME NEW q \in requests,
             \/ HandleAuthMe(q) \/ HandleAuthLogin(q) \/ HandleAuthRegister(q)
             \/ HandleAuthLogout(q) \/ ServerFails(q) \/ Lose(q)
             \/ CookieArrives(q) \/ Cancelled(q)
             \/ MeRead(q) \/ PageAnswered(q) \/ ModalAnswered(q) \/ LogoutRead(q)
      PROVE  LInv'
  <2>1. CASE HandleAuthLogin(q) \/ HandleAuthRegister(q)
    <3>1. /\ q.kind \in {"login", "register"} /\ q.answer = Pending
          /\ UNCHANGED <<tab, cookie, history>>
      BY <2>1 DEF HandleAuthLogin, HandleAuthRegister
    <3>2. \/ Answer(q, Failure) /\ UNCHANGED <<sessions, live>>
          \/ q.who \in User /\ OpenSession(q, q.who)
      <4>1. accounts \subseteq User /\ (q.kind = "register" => q.who \in User)
        BY RequestFacts, Fields DEF IInv, ServerOK
      <4>2. CASE HandleAuthLogin(q)
        BY <4>1, <4>2, Zenon DEF HandleAuthLogin
      <4>3. CASE HandleAuthRegister(q)
        <5>1. CASE q.who \notin accounts
          BY <4>1, <4>3, <5>1 DEF HandleAuthRegister
        <5>2. CASE q.who \in accounts
          BY <4>3, <5>2 DEF HandleAuthRegister, server
        <5> QED  BY <5>1, <5>2
      <4> QED  BY <2>1, <4>2, <4>3
    <3>3. CASE Answer(q, Failure) /\ UNCHANGED <<sessions, live>>
      BY <3>1, <3>3, RefusedHolds
    <3>4. CASE q.who \in User /\ OpenSession(q, q.who)
      BY <3>1, <3>4, OpenedHolds
    <3> QED  BY <3>2, <3>3, <3>4
  <2> QED
    BY <1>6, <2>1, MeHolds, LogoutHolds, FaultsHold, CookieHolds, CancelledHolds, ReadHolds
<1> QED  BY <1>2, <1>3, <1>4, <1>5, <1>6 DEF Next

\* What is under way tells who will be shown, and which session will be the
\* browser's.
THEOREM OneChangeAtATime == Spec => [](IInv /\ LInv)
<1>1. Init => IInv /\ LInv
  BY Initially, InitiallyHolds
<1>2. (IInv /\ LInv) /\ [Next]_vars => (IInv /\ LInv)'
  BY StepKeeps, StepHolds
<1> QED  BY <1>1, <1>2, PTL DEF Spec

\* A session that is neither the browser's nor on its way there has been ended by
\* a logout, unless the user logged in while he had it, requests overlapped or
\* one failed.
THEOREM NoSessionLeftBehind == Spec => []NoSessionIsLeftBehind
<1>1. LInv => NoSessionIsLeftBehind
  BY DEF LInv, LeftOK, NoSessionIsLeftBehind
<1> QED  BY <1>1, OneChangeAtATime, PTL

\* When nothing is under way the header shows the user of the browser's session,
\* and so does the page's own hook if nobody logged in or out since it mounted.
THEOREM SettledShowTheSession == Spec => []SettledUsersAreTheSession
<1>1. LInv => SettledUsersAreTheSession
  <2> SUFFICES ASSUME LInv, requests = {}, ~excused
               PROVE  user = SessionUser /\ (route = "video" /\ ~stale => own = SessionUser)
    BY DEF SettledUsersAreTheSession
  <2>1. UserOK({}, user, cookie, live, sessions)
    BY DEF LInv
  <2>2. route = "video" /\ ~stale => OwnOK({}, own, cookie, live, sessions)
    BY DEF LInv
  <2> QED  BY <2>1, <2>2 DEF UserOK, OwnOK, UserOf, SessionUser
<1> QED  BY <1>1, OneChangeAtATime, PTL
=============================================================================
