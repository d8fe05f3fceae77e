--------------------------- MODULE AccountsProofs ---------------------------
(***************************************************************************)
(* Types, the sessions that outlive a change of their user, and deleted    *)
(* users, for any users, logins and requests.                              *)
(***************************************************************************)
EXTENDS Accounts, TLAPS

USE SeededUsers, NobodyIsNoUser

LEMMA DropKeepsTypes ==
  ASSUME TypeOK, NEW u \in User, DropSessions(u)
  PROVE  /\ sessions' \subseteq Login /\ expired' \subseteq sessions'
         /\ \A l \in sessions' : login'[l] = "over"
         /\ raced' \subseteq Login /\ unclear' \subseteq User
         /\ UNCHANGED <<users, login, who, seen, target, change>>
BY DEF TypeOK, DropSessions, Of, users

LEMMA LoginKeepsTypes ==
  ASSUME TypeOK, NEW l \in Login, LoginStep(l)
  PROVE  TypeOK'
<1>1. ASSUME NEW u \in User, ReadUser(l, u) PROVE TypeOK'
  BY <1>1 DEF TypeOK, ReadUser, Verify, users, requests
<1>2. ASSUME NEW u \in User, RegisterUser(l, u) PROVE TypeOK'
  BY <1>2 DEF TypeOK, RegisterUser, Verify, Role, requests
<1>3. ASSUME NEW u \in User, CreateTeacherUser(l, u) PROVE TypeOK'
  BY <1>3 DEF TypeOK, CreateTeacherUser, Role, logins, requests
<1>4. CASE CreateSession(l)
  BY <1>4 DEF TypeOK, CreateSession, users, requests
<1>5. CASE Logout(l)
  <2>1. l \notin expired /\ sessions' = sessions \ {l}
    BY <1>5 DEF Logout, Authenticates
  <2> QED
    BY <1>5, <2>1 DEF TypeOK, Logout, users, requests
<1>6. CASE Expire(l)
  BY <1>6 DEF TypeOK, Expire, users, requests
<1> QED
  BY <1>1, <1>2, <1>3, <1>4, <1>5, <1>6 DEF LoginStep

LEMMA RequestKeepsTypes ==
  ASSUME TypeOK, NEW r \in Request, RequestStep(r)
  PROVE  TypeOK'
<1>1. ASSUME NEW l \in Login, NEW u \in User, NEW c \in Patch \cup {"delete"}, Begin(r, l, u, c)
      PROVE  TypeOK'
  BY <1>1 DEF TypeOK, Begin, Patch, users, logins
<1>2. CASE Fail(r)
  BY <1>2 DEF TypeOK, Fail, Moves, users, logins
<1>3. CASE Update(r)
  <2>1. target[r] \in User
    BY <1>3 DEF TypeOK, Update, LoseAnswer, Moves
  <2>2. /\ account' \in [User -> {"none", "active", "inactive", "deleted"}]
        /\ role' \in [User -> Role] /\ version' \in [User -> Nat]
    BY <1>3, <2>1 DEF TypeOK, Update, Write, Role
  <2>3. /\ request' \in [Request -> {"new", "found", "updated", "cleared", "over"}]
        /\ \A q \in Request : request'[q] # "new" => target[q] \in User
        /\ unclear' \subseteq User
    BY <1>3, <2>1 DEF TypeOK, Update, LoseAnswer, Moves
  <2> QED
    BY <1>3, <2>2, <2>3 DEF TypeOK, Update, logins
<1>4. ASSUME request[r] # "new", DropSessions(target[r]),
             request' \in [Request -> {"new", "found", "updated", "cleared", "over"}],
             \A q \in Request : request'[q] # "new" => target[q] \in User
      PROVE  TypeOK'
  <2>1. target[r] \in User
    BY <1>4 DEF TypeOK
  <2> QED
    BY <1>4, <2>1, DropKeepsTypes DEF TypeOK, users
<1>5. CASE EndSessions(r)
  <2>1. /\ request' \in [Request -> {"new", "found", "updated", "cleared", "over"}]
        /\ \A q \in Request : request'[q] # "new" => target[q] \in User
        /\ request[r] # "new" /\ target[r] \in User
    BY <1>5 DEF TypeOK, EndSessions, Moves
  <2>2. CASE DropSessions(target[r])
    BY <1>4, <2>1, <2>2
  <2>3. CASE unclear' = unclear \cup {target[r]} /\ UNCHANGED <<users, logins, target, change, raced>>
    BY <2>1, <2>3 DEF TypeOK, users, logins
  <2> QED
    BY <1>5, <2>2, <2>3 DEF EndSessions
<1>6. CASE ClearSessions(r)
  <2>1. /\ request' \in [Request -> {"new", "found", "updated", "cleared", "over"}]
        /\ \A q \in Request : request'[q] # "new" => target[q] \in User
        /\ request[r] # "new" /\ DropSessions(target[r])
    BY <1>6 DEF TypeOK, ClearSessions, Moves
  <2> QED
    BY <1>4, <2>1
<1>7. CASE SoftDelete(r)
  BY <1>7 DEF TypeOK, SoftDelete, Moves, logins
<1> QED
  BY <1>1, <1>2, <1>3, <1>5, <1>6, <1>7 DEF RequestStep

\* The rows and the requests keep their types; a session is made once.
THEOREM TypeCorrect == Spec => []TypeOK
<1>1. Init => TypeOK
  BY DEF Init, TypeOK, Role
<1>2. TypeOK /\ [Next]_vars => TypeOK'
  <2> SUFFICES ASSUME TypeOK, [Next]_vars PROVE TypeOK'
    OBVIOUS
  <2>1. CASE DeleteExpired
    BY <2>1 DEF TypeOK, DeleteExpired, users, requests
  <2>2. CASE UNCHANGED vars
    BY <2>2 DEF TypeOK, vars, users, logins, requests
  <2> QED
    BY <2>1, <2>2, LoginKeepsTypes, RequestKeepsTypes DEF Next
<1> QED
  BY <1>1, <1>2, PTL DEF Spec

-----------------------------------------------------------------------------
(* Sessions older than a change of their user. *)

LEMMA LoginKeepsExcuses ==
  ASSUME TypeOK, OldSessionsRaced, NEW k \in Login, LoginStep(k)
  PROVE  OldSessionsRaced'
<1>1. ASSUME NEW u \in User, ReadUser(k, u) PROVE OldSessionsRaced'
  BY <1>1 DEF TypeOK, OldSessionsRaced, ReadUser, Verify, users, requests
<1>2. ASSUME NEW u \in User, RegisterUser(k, u) PROVE OldSessionsRaced'
  BY <1>2 DEF TypeOK, OldSessionsRaced, RegisterUser, Verify, requests
<1>3. ASSUME NEW u \in User, CreateTeacherUser(k, u) PROVE OldSessionsRaced'
  BY <1>3 DEF OldSessionsRaced, CreateTeacherUser, logins, requests
<1>4. CASE CreateSession(k)
  BY <1>4 DEF TypeOK, OldSessionsRaced, CreateSession, users, requests
<1>5. CASE Logout(k)
  BY <1>5 DEF OldSessionsRaced, Logout, users, requests
<1>6. CASE Expire(k)
  BY <1>6 DEF OldSessionsRaced, Expire, users, requests
<1> QED
  BY <1>1, <1>2, <1>3, <1>4, <1>5, <1>6 DEF LoginStep

\* The DELETE of a user's sessions leaves only logins that have read his row,
\* and these overlap it.
LEMMA DropExcuses ==
  ASSUME TypeOK, OldSessionsRaced, NEW r \in Request, target[r] \in User,
         DropSessions(target[r]),
         \A q \in Request : q # r => request'[q] = request[q]
  PROVE  OldSessionsRaced'
<1> SUFFICES ASSUME NEW l \in Login, login'[l] = "verified" \/ l \in sessions',
                    seen'[l] < version'[who'[l]]
             PROVE  \/ l \in raced' \/ who'[l] \in unclear'
                    \/ \E q \in Request : request'[q] = "updated" /\ target'[q] = who'[l]
  BY DEF OldSessionsRaced
<1>1. UNCHANGED <<version, login, who, seen, target>>
  BY DEF DropSessions, users
<1>2. /\ sessions' = sessions \ Of(target[r])
      /\ raced' = raced \cup {k \in Login : login[k] = "verified" /\ who[k] = target[r]}
      /\ unclear' = unclear \ {target[r]}
  BY DEF DropSessions
<1>3. CASE who[l] = target[r]
  BY <1>1, <1>2, <1>3 DEF Of
<1>4. CASE who[l] # target[r]
  <2>1. \/ l \in raced \/ who[l] \in unclear
        \/ \E q \in Request : request[q] = "updated" /\ target[q] = who[l]
    BY <1>1, <1>2 DEF OldSessionsRaced
  <2> QED
    BY <1>1, <1>2, <1>4, <2>1
<1> QED
  BY <1>3, <1>4

LEMMA RequestKeepsExcuses ==
  ASSUME TypeOK, OldSessionsRaced, NEW r \in Request, RequestStep(r)
  PROVE  OldSessionsRaced'
<1>1. ASSUME NEW l \in Login, NEW u \in User, NEW c \in Patch \cup {"delete"}, Begin(r, l, u, c)
      PROVE  OldSessionsRaced'
  BY <1>1 DEF TypeOK, OldSessionsRaced, Begin, users, logins
<1>2. CASE Fail(r)
  BY <1>2 DEF TypeOK, OldSessionsRaced, Fail, Moves, users, logins
<1>3. CASE Update(r)
  <2>1. /\ UNCHANGED <<login, who, seen, sessions, target, raced>>
        /\ target[r] \in User /\ request[r] = "found"
        /\ version' = IF change[r] \in Privileged THEN [version EXCEPT ![target[r]] = @ + 1]
                      ELSE version
    BY <1>3 DEF TypeOK, Update, Write, LoseAnswer, Moves, logins
  <2>2. /\ \A q \in Request : request[q] = "updated" => request'[q] = "updated"
        /\ unclear \subseteq unclear'
    BY <1>3 DEF TypeOK, Update, LoseAnswer, Moves
  <2>3. change[r] \in Privileged => request'[r] = "updated" \/ target[r] \in unclear'
    BY <1>3 DEF TypeOK, Update, LoseAnswer, Moves
  <2> SUFFICES ASSUME NEW l \in Login, login[l] = "verified" \/ l \in sessions,
                      seen[l] < version'[who[l]]
               PROVE  \/ l \in raced \/ who[l] \in unclear'
                      \/ \E q \in Request : request'[q] = "updated" /\ target[q] = who[l]
    BY <2>1 DEF OldSessionsRaced
  <2>4. CASE change[r] \in Privileged /\ who[l] = target[r]
    BY <2>3, <2>4
  <2>5. CASE ~(change[r] \in Privileged /\ who[l] = target[r])
    <3>1. version'[who[l]] = version[who[l]]
      BY <2>1, <2>5 DEF TypeOK
    <3> QED
      BY <2>2, <3>1 DEF OldSessionsRaced
  <2> QED
    BY <2>4, <2>5
<1>4. ASSUME request[r] # "new", DropSessions(target[r]),
             \A q \in Request : q # r => request'[q] = request[q]
      PROVE  OldSessionsRaced'
  <2>1. target[r] \in User
    BY <1>4 DEF TypeOK
  <2> QED
    BY <1>4, <2>1, DropExcuses
<1>5. CASE EndSessions(r)
  <2>1. request[r] # "new" /\ \A q \in Request : q # r => request'[q] = request[q]
    BY <1>5 DEF TypeOK, EndSessions, Moves
  <2>2. CASE DropSessions(target[r])
    BY <1>4, <2>1, <2>2
  <2>3. CASE unclear' = unclear \cup {target[r]} /\ UNCHANGED <<users, logins, target, change, raced>>
    BY <2>1, <2>3 DEF OldSessionsRaced, users, logins
  <2> QED
    BY <1>5, <2>2, <2>3 DEF EndSessions
<1>6. CASE ClearSessions(r)
  <2>1. /\ request[r] # "new" /\ \A q \in Request : q # r => request'[q] = request[q]
        /\ DropSessions(target[r])
    BY <1>6 DEF TypeOK, ClearSessions, Moves
  <2> QED
    BY <1>4, <2>1
<1>7. CASE SoftDelete(r)
  BY <1>7 DEF TypeOK, OldSessionsRaced, SoftDelete, Moves, logins
<1> QED
  BY <1>1, <1>2, <1>3, <1>5, <1>6, <1>7 DEF RequestStep

\* A session that is older than the last change of its user raced with the
\* DELETE of his sessions, or that DELETE is to come or has failed.
THEOREM OldSessionsHaveRaced == Spec => []OldSessionsRaced
<1>1. Init => OldSessionsRaced
  BY DEF Init, OldSessionsRaced
<1>2. TypeOK /\ OldSessionsRaced /\ [Next]_vars => OldSessionsRaced'
  <2> SUFFICES ASSUME TypeOK, OldSessionsRaced, [Next]_vars PROVE OldSessionsRaced'
    OBVIOUS
  <2>1. CASE DeleteExpired
    BY <2>1 DEF OldSessionsRaced, DeleteExpired, users, requests
  <2>2. CASE UNCHANGED vars
    BY <2>2 DEF OldSessionsRaced, vars, users, logins, requests
  <2> QED
    BY <2>1, <2>2, LoginKeepsExcuses, RequestKeepsExcuses DEF Next
<1> QED
  BY <1>1, <1>2, TypeCorrect, PTL DEF Spec

-----------------------------------------------------------------------------
(* Deleted users. *)

\* A user once deleted is never changed again.
THEOREM DeletedForGood == Spec => DeletedUsersStayDeleted
<1> DEFINE Same(u) == account[u] = "deleted" =>
             account'[u] = "deleted" /\ role'[u] = role[u] /\ version'[u] = version[u]
<1>1. TypeOK /\ [Next]_vars => [\A u \in User : Same(u)]_vars
  <2> SUFFICES ASSUME TypeOK, Next, NEW u \in User, account[u] = "deleted"
               PROVE  account'[u] = "deleted" /\ role'[u] = role[u] /\ version'[u] = version[u]
    OBVIOUS
  <2>1. ASSUME NEW l \in Login, LoginStep(l)
        PROVE  account'[u] = "deleted" /\ role'[u] = role[u] /\ version'[u] = version[u]
    BY <2>1 DEF TypeOK, LoginStep, ReadUser, RegisterUser, CreateTeacherUser, CreateSession,
                Logout, Expire, users
  <2>2. ASSUME NEW r \in Request, RequestStep(r)
        PROVE  account'[u] = "deleted" /\ role'[u] = role[u] /\ version'[u] = version[u]
    <3>1. CASE Update(r)
      BY <3>1 DEF TypeOK, Update, Write, Exists
    <3>2. CASE SoftDelete(r)
      BY <3>2 DEF TypeOK, SoftDelete
    <3>3. CASE UNCHANGED users
      BY <3>3 DEF users
    <3> QED
      BY <2>2, <3>1, <3>2, <3>3
      DEF RequestStep, Begin, Fail, EndSessions, ClearSessions, DropSessions
  <2>3. CASE DeleteExpired
    BY <2>3 DEF DeleteExpired, users
  <2> QED
    BY <2>1, <2>2, <2>3 DEF Next
<1> QED
  BY <1>1, TypeCorrect, PTL DEF Spec, DeletedUsersStayDeleted

-----------------------------------------------------------------------------
(* Whose requests end a session. *)

\* A PATCH goes on to the sessions only when it changed more than the name.
OnlyPrivilegedGoOn == \A r \in Request : request[r] = "updated" => change[r] \in Privileged

LEMMA GoingOnIsPrivileged == Spec => []OnlyPrivilegedGoOn
<1>1. Init => OnlyPrivilegedGoOn
  BY DEF Init, OnlyPrivilegedGoOn
<1>2. TypeOK /\ OnlyPrivilegedGoOn /\ [Next]_vars => OnlyPrivilegedGoOn'
  <2> SUFFICES ASSUME TypeOK, OnlyPrivilegedGoOn, [Next]_vars
               PROVE  OnlyPrivilegedGoOn'
    OBVIOUS
  <2>1. ASSUME NEW l \in Login, LoginStep(l)  PROVE OnlyPrivilegedGoOn'
    <3>1. UNCHANGED requests
      BY <2>1 DEF LoginStep, ReadUser, RegisterUser, CreateTeacherUser, CreateSession, Logout, Expire
    <3> QED
      BY <3>1 DEF requests, OnlyPrivilegedGoOn
  <2>2. ASSUME NEW r \in Request, RequestStep(r)  PROVE OnlyPrivilegedGoOn'
    <3>1. CASE \E l \in Login, u \in User, c \in Patch \cup {"delete"} : Begin(r, l, u, c)
      BY <3>1 DEF TypeOK, Begin, OnlyPrivilegedGoOn
    <3>2. CASE Update(r)
      BY <3>2 DEF TypeOK, Update, LoseAnswer, Moves, OnlyPrivilegedGoOn
    <3>3. CASE Fail(r) \/ EndSessions(r) \/ ClearSessions(r) \/ SoftDelete(r)
      BY <3>3 DEF TypeOK, Fail, EndSessions, ClearSessions, DropSessions, SoftDelete, Moves,
                  OnlyPrivilegedGoOn
    <3> QED
      BY <2>2, <3>1, <3>2, <3>3 DEF RequestStep
  <2>3. CASE DeleteExpired \/ UNCHANGED vars
    BY <2>3 DEF DeleteExpired, vars, requests, OnlyPrivilegedGoOn
  <2> QED
    BY <2>1, <2>2, <2>3 DEF Next
<1> QED
  BY <1>1, <1>2, TypeCorrect, PTL DEF Spec

\* A session ends by its own logout, by age, or by a request about its user that
\* changes more than his name or deletes him; nobody else's login, logout or
\* request takes it away.
THEOREM OnlyTheirOwnEnd == Spec => OnlyOwnSessionsEnd
<1> DEFINE Deserved(l) ==
       \/ l \in expired \/ Logout(l)
       \/ \E r \in Request : /\ target[r] = who[l] /\ change[r] \in Privileged \cup {"delete"}
                             /\ request'[r] # request[r]
<1>1. TypeOK /\ OnlyPrivilegedGoOn /\ [Next]_vars
        => [\A l \in sessions \ sessions' : Deserved(l)]_vars
  <2> SUFFICES ASSUME TypeOK, OnlyPrivilegedGoOn, Next, NEW l \in sessions \ sessions'
               PROVE  Deserved(l)
    OBVIOUS
  <2>1. ASSUME NEW k \in Login, LoginStep(k)  PROVE Deserved(l)
    <3>1. CASE Logout(k)
      BY <3>1 DEF Logout
    <3>2. CASE sessions \subseteq sessions'
      BY <3>2
    <3> QED
      BY <2>1, <3>1, <3>2
      DEF LoginStep, ReadUser, RegisterUser, CreateTeacherUser, CreateSession, Expire, logins
  <2>2. ASSUME NEW r \in Request, RequestStep(r)  PROVE Deserved(l)
    <3>1. ASSUME DropSessions(target[r])  PROVE target[r] = who[l]
      BY <3>1 DEF DropSessions, Of
    <3>2. CASE EndSessions(r)
      <4>1. change[r] \in Privileged /\ request'[r] # request[r]
        BY <3>2 DEF EndSessions, Moves, OnlyPrivilegedGoOn, TypeOK
      <4>2. DropSessions(target[r])
        BY <3>2 DEF EndSessions, logins
      <4> QED
        BY <3>1, <4>1, <4>2
    <3>3. CASE ClearSessions(r)
      <4>1. change[r] = "delete" /\ request'[r] # request[r]
        BY <3>3 DEF ClearSessions, Moves, TypeOK
      <4> QED
        BY <3>1, <3>3, <4>1 DEF ClearSessions
    <3>4. CASE UNCHANGED logins
      BY <3>4 DEF logins
    <3> QED
      BY <2>2, <3>2, <3>3, <3>4 DEF RequestStep, Begin, Fail, Update, SoftDelete
  <2>3. CASE DeleteExpired
    BY <2>3 DEF DeleteExpired
  <2> QED
    BY <2>1, <2>2, <2>3 DEF Next
<1> QED
  BY <1>1, TypeCorrect, GoingOnIsPrivileged, PTL DEF Spec, OnlyOwnSessionsEnd
=============================================================================
