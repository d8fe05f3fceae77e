------------------------------- MODULE Session -------------------------------
(***************************************************************************)
(* Who is logged in, as one tab of the front sees it: the hook useAuth of  *)
(* the layout and the one that watch and channel pages hold for            *)
(* themselves, the login and registration pages, the login modal and the   *)
(* header, with the session cookie and the handlers of /auth.  A request   *)
(* carries the cookie of the moment it is sent, the cookie changes when    *)
(* the headers of an answer arrive and the page when its body has been     *)
(* read; a form may be gone by then, and a reload forgets everything but   *)
(* the cookie.  The sessions' lifetime and their rows are Accounts'.       *)
(***************************************************************************)
EXTENDS Naturals, Sequences, FiniteSets

CONSTANTS User,       \* user names
          None,       \* nobody (null)
          MaxTurns    \* bound on what the user does and on failures, together

ASSUME NoneIsNoUser == None \notin User
ASSUME TurnsBound == MaxTurns \in Nat

VARIABLES
  route,     \* the page; "video" stands for the two that call useAuth themselves
  user,      \* user of the layout's useAuth, handed to the header and the forms
  own,       \* user of the page's own useAuth
  pageForm,  \* the form of the login or registration page
  modal,     \* the form of the login modal
  cookie,    \* session_id: a session, or 0
  accounts,  \* server: users that exist
  sessions,  \* server: the user of each session ever made
  live,      \* server: sessions that are not ended
  requests,  \* requests not yet answered, and answers not yet read
  turns,     \* what the user did, and failures
  excused,   \* history: the layout's requests overlapped, or one failed
  stale,     \* history: a login or logout was under way since the page mounted
  left       \* history: a session may have been left without a logout

tab == <<route, user, own, pageForm, modal>>
server == <<accounts, sessions, live>>
history == <<excused, stale, left>>
vars == <<tab, cookie, server, requests, turns, history>>

Route == {"home", "video", "login", "register"}
FormPages == {"login", "register"}
Form == {"absent", "ready", "sending", "failed"}

\* What the continuation of a request still finds: its page or modal, one that
\* has gone, the layout alone, or nothing since the tab was loaded anew.
Asker == {"page", "modal", "pastPage", "pastModal", "layout", "nobody"}

Keep == [is |-> "keep"]
Clear == [is |-> "clear"]
SetTo(s) == [is |-> "set", session |-> s]

\* Answers: none yet; not 2xx, or a fetch that rejects; 2xx with its user.
Pending == [is |-> "pending", user |-> None, cookie |-> Keep]
Failure == [is |-> "failure", user |-> None, cookie |-> Keep]
Success(u, c) == [is |-> "ok", user |-> u, cookie |-> c]
Succeeded(q) == q.answer.is = "ok"

Ask(kind, asker, who, right) ==
  [kind |-> kind, asker |-> asker, who |-> who, right |-> right,
   sent |-> cookie, answer |-> Pending, no |-> turns]

Change(q) == q.kind # "me"
Changing == \E q \in requests : Change(q)

\* GET /auth/me when a hook mounts.
AskMe(asker) == Ask("me", asker, None, TRUE)
MeOf(r) == IF r = "video" THEN {AskMe("page")} ELSE {}

Init ==
  /\ route \in Route
  /\ user = None /\ own = None
  /\ pageForm = IF route \in FormPages THEN "ready" ELSE "absent"
  /\ modal = "absent"
  /\ accounts \in SUBSET User \ {User}
  /\ \E u \in accounts \cup {None} :
       IF u = None THEN cookie = 0 /\ sessions = <<>> /\ live = {}
       ELSE cookie = 1 /\ sessions = <<u>> /\ live \in {{1}, {}}
  /\ turns = 0
  /\ requests = {AskMe("layout")} \cup MeOf(route)
  /\ excused = FALSE /\ stale = FALSE /\ left = FALSE

-----------------------------------------------------------------------------
(* Pages and modals come and go. *)

\* The effect of the two form pages sends a user who is logged in home.
Land(r, u) == IF u # None /\ r \in FormPages THEN "home" ELSE r

\* The requests of a page that is left: its own GET /auth/me changes nothing.
LeavePage(reqs) ==
  {[q EXCEPT !.asker = IF @ = "page" THEN "pastPage" ELSE @] :
     q \in {p \in reqs : ~(p.kind = "me" /\ p.asker = "page")}}

CloseModalOf(reqs) ==
  {[q EXCEPT !.asker = IF @ = "modal" THEN "pastModal" ELSE @] : q \in reqs}

\* The page r with the header showing u, when the requests reqs are under way.
Show(r, u, reqs) ==
  LET goes == Land(r, u)
  IN /\ user' = u /\ route' = goes
     /\ IF goes = route
        THEN requests' = reqs /\ UNCHANGED <<own, stale>>
        ELSE /\ own' = None
             /\ requests' = LeavePage(reqs) \cup MeOf(goes)
             /\ stale' = \E q \in reqs : Change(q)

\* The form of the page after Show, f being its state if the page stays.
PageForm(f) ==
  pageForm' = IF route' = route THEN f
              ELSE IF route' \in FormPages THEN "ready" ELSE "absent"

Turn == turns < MaxTurns /\ turns' = turns + 1

\* Links, buttons of the header, and the history of the browser.
Navigate(r) ==
  /\ Turn /\ Land(r, user) # route
  /\ Show(r, user, requests) /\ PageForm(pageForm)
  /\ UNCHANGED <<modal, cookie, server, excused, left>>

OpenModal ==
  /\ Turn /\ user = None /\ modal = "absent"
  /\ modal' = "ready"
  /\ UNCHANGED <<route, user, own, pageForm, cookie, server, requests, history>>

\* The cross, a click outside, or the link to the registration page.
CloseModal(r) ==
  /\ Turn /\ modal # "absent" /\ r \in {route, "register"}
  /\ modal' = "absent"
  /\ Show(r, user, CloseModalOf(requests)) /\ PageForm(pageForm)
  /\ UNCHANGED <<cookie, server, excused, left>>

\* A reload or a typed address: what was under way may still reach the server.
Reload(r) ==
  /\ Turn
  /\ route' = r /\ user' = None /\ own' = None /\ modal' = "absent"
  /\ pageForm' = IF r \in FormPages THEN "ready" ELSE "absent"
  /\ requests' = {[q EXCEPT !.asker = "nobody"] : q \in {p \in requests : Change(p)}}
                   \cup {AskMe("layout")} \cup MeOf(r)
  /\ excused' = Changing /\ stale' = Changing /\ left' = (left \/ Changing)
  /\ UNCHANGED <<cookie, server>>

-----------------------------------------------------------------------------
(* What the user asks for. *)

\* The answer of this GET /auth/me names a user, but not the one of a later login.
TellsEarlierUser(q) == q.kind = "me" /\ q.asker = "layout" /\ q.sent \in live

Sends(q) ==
  /\ requests' = requests \cup {q}
  /\ LET overlaps == \E p \in requests : Change(p) \/ TellsEarlierUser(p)
     IN /\ excused' = (excused \/ overlaps)
        /\ left' = (left \/ overlaps \/ (q.kind # "logout" /\ cookie \in live))
  /\ stale' = TRUE

\* A field is empty, or an input of the registration is not valid.
SubmitInvalid ==
  /\ \/ pageForm = "ready" /\ pageForm' = "failed" /\ modal' = modal
     \/ modal = "ready" /\ modal' = "failed" /\ pageForm' = pageForm
  /\ UNCHANGED <<route, user, own, cookie, server, requests, turns, history>>

\* Its inputs and its button are disabled while a form waits.
MayEnter(form) == form \in {"ready", "failed"}

\* "right": the password is the user's.
SubmitLogin(u, right) ==
  /\ Turn
  /\ \/ /\ route = "login" /\ MayEnter(pageForm)
        /\ pageForm' = "sending" /\ modal' = modal
        /\ Sends(Ask("login", "page", u, right))
     \/ /\ MayEnter(modal)
        /\ modal' = "sending" /\ pageForm' = pageForm
        /\ Sends(Ask("login", "modal", u, right))
  /\ UNCHANGED <<route, user, own, cookie, server>>

SubmitRegister(u) ==
  /\ Turn /\ route = "register" /\ MayEnter(pageForm)
  /\ pageForm' = "sending"
  /\ Sends(Ask("register", "page", u, TRUE))
  /\ UNCHANGED <<route, user, own, modal, cookie, server>>

Logout ==
  /\ Turn /\ user # None
  /\ Sends(Ask("logout", "layout", None, TRUE))
  /\ UNCHANGED <<tab, cookie, server>>

-----------------------------------------------------------------------------
(* The server.  Its transactions are indivisible here. *)

Answer(q, a) == requests' = (requests \ {q}) \cup {[q EXCEPT !.answer = a]}

HandleAuthMe(q) ==
  /\ q.kind = "me" /\ q.answer = Pending
  /\ Answer(q, IF q.sent \in live THEN Success(sessions[q.sent], Keep) ELSE Failure)
  /\ UNCHANGED <<tab, cookie, server, turns, history>>

\* A new session of u, and the answer that sets its cookie.
OpenSession(q, u) ==
  /\ sessions' = Append(sessions, u)
  /\ live' = live \cup {Len(sessions')}
  /\ Answer(q, Success(u, SetTo(Len(sessions'))))

HandleAuthLogin(q) ==
  /\ q.kind = "login" /\ q.answer = Pending
  /\ IF q.who \in accounts /\ q.right
     THEN OpenSession(q, q.who)
     ELSE Answer(q, Failure) /\ UNCHANGED <<sessions, live>>
  /\ UNCHANGED <<tab, cookie, accounts, turns, history>>

\* 409 when the name is taken.
HandleAuthRegister(q) ==
  /\ q.kind = "register" /\ q.answer = Pending
  /\ IF q.who \notin accounts
     THEN accounts' = accounts \cup {q.who} /\ OpenSession(q, q.who)
     ELSE Answer(q, Failure) /\ UNCHANGED server
  /\ UNCHANGED <<tab, cookie, turns, history>>

\* A mutant: the cookie is cleared, the session stays.
HandleAuthLogoutClearingOnly(q) ==
  /\ q.kind = "logout" /\ q.answer = Pending
  /\ Answer(q, Success(None, Clear))
  /\ UNCHANGED <<tab, cookie, server, turns, history>>

\* The session of the cookie that came with the request ends.
HandleAuthLogout(q) ==
  /\ q.kind = "logout" /\ q.answer = Pending
  /\ live' = live \ {q.sent}
  /\ Answer(q, Success(None, Clear))
  /\ UNCHANGED <<tab, cookie, accounts, sessions, turns, history>>

Failed == excused' = TRUE /\ left' = TRUE /\ stale' = stale

\* The database fails: logout answers 204 all the same, register may have
\* inserted the user.
ServerFails(q) ==
  /\ Turn /\ q.answer = Pending
  /\ Answer(q, IF q.kind = "logout" THEN Success(None, Clear) ELSE Failure)
  /\ accounts' \in {accounts} \cup
       (IF q.kind = "register" THEN {accounts \cup {q.who}} ELSE {})
  /\ Failed
  /\ UNCHANGED <<tab, cookie, sessions, live>>

\* The request does not reach the server, or its answer not the tab.
Lose(q) ==
  /\ Turn /\ q.answer # Failure
  /\ Answer(q, Failure)
  /\ Failed
  /\ UNCHANGED <<tab, cookie, server>>

-----------------------------------------------------------------------------
(* Answers arrive at the tab. *)

CookieArrives(q) ==
  /\ q.answer.cookie # Keep
  /\ cookie' = IF q.answer.cookie = Clear THEN 0 ELSE q.answer.cookie.session
  /\ Answer(q, [q.answer EXCEPT !.cookie = Keep])
  /\ UNCHANGED <<tab, server, turns, history>>

\* A request of a tab that was loaded anew is cancelled, at some point.
Cancelled(q) ==
  /\ q.asker = "nobody"
  /\ requests' = requests \ {q}
  /\ UNCHANGED <<tab, cookie, server, turns, history>>

\* The body has been read: the hook and the form that asked go on.
Read(q) ==
  /\ q.asker # "nobody"
  /\ q.answer # Pending /\ q.answer.cookie = Keep
  /\ UNCHANGED <<cookie, server, turns, excused, left>>

Rest(q) == requests \ {q}

\* A mutant: an answer that names nobody clears the user.
MeReadClearing(q) ==
  /\ q.kind = "me" /\ Read(q)
  /\ IF q.asker = "layout"
     THEN Show(route, q.answer.user, Rest(q)) /\ PageForm(pageForm)
     ELSE /\ requests' = Rest(q) /\ own' = q.answer.user
          /\ UNCHANGED <<route, user, pageForm, stale>>
  /\ modal' = modal

\* The hook leaves its user alone when the answer names none.
MeRead(q) ==
  /\ q.kind = "me" /\ Read(q)
  /\ IF q.asker = "layout" /\ Succeeded(q)
     THEN Show(route, q.answer.user, Rest(q)) /\ PageForm(pageForm)
     ELSE /\ requests' = Rest(q)
          /\ own' = IF Succeeded(q) THEN q.answer.user ELSE own
          /\ UNCHANGED <<route, user, pageForm, stale>>
  /\ modal' = modal

\* Success leads home, also from the page the user went to in the meantime.
PageAnswered(q) ==
  /\ q.asker \in {"page", "pastPage"} /\ q.kind # "me" /\ Read(q)
  /\ \/ /\ Succeeded(q)
        /\ Show("home", q.answer.user, Rest(q)) /\ PageForm(pageForm)
     \/ /\ ~Succeeded(q)
        /\ pageForm' = IF q.asker = "page" THEN "failed" ELSE pageForm
        /\ requests' = Rest(q)
        /\ UNCHANGED <<route, user, own, stale>>
  /\ modal' = modal

\* A mutant: the form is enabled again only after success.
ModalAnsweredOnSuccess(q) ==
  /\ q.asker \in {"modal", "pastModal"} /\ Read(q)
  /\ \/ /\ Succeeded(q) /\ modal' = "absent"
        /\ Show(route, q.answer.user, CloseModalOf(Rest(q))) /\ PageForm(pageForm)
     \/ /\ ~Succeeded(q) /\ requests' = Rest(q)
        /\ UNCHANGED <<route, user, own, stale, pageForm, modal>>

\* Success closes the modal, also one that was opened since.
ModalAnswered(q) ==
  /\ q.asker \in {"modal", "pastModal"} /\ Read(q)
  /\ \/ /\ Succeeded(q) /\ modal' = "absent"
        /\ Show(route, q.answer.user, CloseModalOf(Rest(q))) /\ PageForm(pageForm)
     \/ /\ ~Succeeded(q)
        /\ modal' = IF q.asker = "modal" THEN "failed" ELSE modal
        /\ requests' = Rest(q)
        /\ UNCHANGED <<route, user, own, stale, pageForm>>

\* The user is forgotten whatever the answer was.
LogoutRead(q) ==
  /\ q.kind = "logout" /\ Read(q)
  /\ Show(route, None, Rest(q)) /\ PageForm(pageForm)
  /\ modal' = modal

-----------------------------------------------------------------------------

Next ==
  \/ \E r \in Route : Navigate(r) \/ CloseModal(r) \/ Reload(r)
  \/ OpenModal \/ SubmitInvalid \/ Logout
  \/ \E u \in User : SubmitRegister(u) \/ \E right \in BOOLEAN : SubmitLogin(u, right)
  \/ \E q \in requests :
       \/ HandleAuthMe(q) \/ HandleAuthLogin(q) \/ HandleAuthRegister(q)
       \/ HandleAuthLogout(q) \/ ServerFails(q) \/ Lose(q)
       \/ CookieArrives(q) \/ Cancelled(q)
       \/ MeRead(q) \/ PageAnswered(q) \/ ModalAnswered(q) \/ LogoutRead(q)

Spec == Init /\ [][Next]_vars

-----------------------------------------------------------------------------

TypeOK ==
  /\ route \in Route /\ {user, own} \subseteq User \cup {None}
  /\ {pageForm, modal} \subseteq Form
  /\ pageForm = "absent" <=> route \notin FormPages
  /\ accounts \subseteq User /\ sessions \in Seq(User)
  /\ live \subseteq DOMAIN sessions /\ cookie \in {0} \cup DOMAIN sessions
  /\ \A q \in requests :
       /\ q.kind \in {"me", "login", "register", "logout"} /\ q.asker \in Asker
       /\ q.who \in User \cup {None} /\ q.sent \in {0} \cup DOMAIN sessions
  /\ turns \in 0..MaxTurns /\ {excused, stale, left} \subseteq BOOLEAN

\* The user of the session the browser's cookie belongs to.
SessionUser == IF cookie \in live THEN sessions[cookie] ELSE None

\* useAuth.ts: when nothing is under way the header shows the user of the
\* browser's session, and so does the page's own hook if nobody logged in or
\* out since it mounted; except when the layout's requests overlapped or one
\* failed since the tab was loaded.
SettledUsersAreTheSession ==
  requests = {} /\ ~excused =>
    /\ user = SessionUser
    /\ route = "video" /\ ~stale => own = SessionUser

\* LoginPage.tsx, RegisterPage.tsx, LoginModal.tsx: a form whose fields are
\* disabled waits for an answer of its own request, and only for one, whatever
\* was closed, reopened, left or reloaded before.
NoFormWaitsInVain ==
  /\ pageForm = "sending" <=> \E q \in requests : q.asker = "page" /\ Change(q)
  /\ modal = "sending" <=> \E q \in requests : q.asker = "modal"

\* auth_handlers.go with useAuth.ts: a session that is neither the browser's nor
\* on its way there has been ended by a logout, unless the user logged in while he
\* had it, requests overlapped or one failed.
NoSessionIsLeftBehind ==
  ~left => \A s \in live :
             s = cookie \/ \E q \in requests : q.answer.cookie = SetTo(s)
=============================================================================
