------------------------------ MODULE Accounts ------------------------------
(***************************************************************************)
(* Users and their sessions: AuthService, UserService and the statements   *)
(* they send.  No transaction spans two of them, so a login that has read  *)
(* the user's row may meet a change or the deletion of that user anywhere  *)
(* before it inserts its session; statements fail, some after their commit.*)
(*                                                                         *)
(* A Login is an attempt to log in or to register, and the session it      *)
(* makes.  A version counts the changes of a user's password, role and     *)
(* is_active.  A Request is a PATCH or DELETE of a user; its session is    *)
(* looked up once, at its start, and its principal used to the end.        *)
(***************************************************************************)
EXTENDS Naturals

CONSTANTS User,     \* usernames; a deleted user keeps his
          Seeded,   \* the users the seed script inserts
          Teacher,  \* those of them who are teachers
          Login,    \* the logins that may ever be tried (the bound)
          Request,  \* the PATCH and DELETE requests (the bound)
          Nobody    \* no user

ASSUME SeededUsers == Teacher \subseteq Seeded /\ Seeded \subseteq User
ASSUME NobodyIsNoUser == Nobody \notin User

VARIABLES
  account,   \* the row of each user
  role,      \* its role
  version,   \* its version
  login,     \* where each login is
  who,       \* the user each login is for
  seen,      \* the version each login read
  sessions,  \* rows of sessions
  expired,   \* sessions whose expires_at has passed
  request,   \* where each request is
  target,    \* the user it is about
  change,    \* what it changes
  raced,     \* history: logins that had read their user before his sessions
             \* were deleted, and inserted theirs later
  unclear    \* history: users whose sessions a change failed to delete

users == <<account, role, version>>
logins == <<login, who, seen, sessions, expired>>
requests == <<request, target, change>>
vars == <<users, logins, requests, raced, unclear>>

Role == {"student", "teacher"}
Patch == {"name", "password", "role", "isActive"}
Privileged == {"password", "role", "isActive"}
Exists(u) == account[u] \in {"active", "inactive"}

TypeOK ==
  /\ account \in [User -> {"none", "active", "inactive", "deleted"}]
  /\ role \in [User -> Role]
  /\ version \in [User -> Nat]
  /\ login \in [Login -> {"new", "verified", "over"}]
  /\ who \in [Login -> User \cup {Nobody}]
  /\ seen \in [Login -> Nat]
  /\ sessions \subseteq Login /\ expired \subseteq sessions
  /\ \A l \in Login : login[l] # "new" <=> who[l] \in User
  /\ \A l \in sessions : login[l] = "over"
  /\ request \in [Request -> {"new", "found", "updated", "cleared", "over"}]
  /\ target \in [Request -> User \cup {Nobody}]
  /\ change \in [Request -> Patch \cup {"none", "delete"}]
  /\ \A r \in Request : request[r] # "new" => target[r] \in User
  /\ raced \subseteq Login /\ unclear \subseteq User

Init ==
  /\ account = [u \in User |-> IF u \in Seeded THEN "active" ELSE "none"]
  /\ role = [u \in User |-> IF u \in Teacher THEN "teacher" ELSE "student"]
  /\ version = [u \in User |-> 0]
  /\ login = [l \in Login |-> "new"] /\ who = [l \in Login |-> Nobody]
  /\ seen = [l \in Login |-> 0] /\ sessions = {} /\ expired = {}
  /\ request = [r \in Request |-> "new"] /\ target = [r \in Request |-> Nobody]
  /\ change = [r \in Request |-> "none"]
  /\ raced = {} /\ unclear = {}

\* FindActiveWithUser: the session counts for an active user only.
Authenticates(l) == l \in sessions \ expired /\ account[who[l]] = "active"

Of(u) == {l \in sessions : who[l] = u}

-----------------------------------------------------------------------------
(* Register, Login, Logout, and the end of sessions. *)

\* Both end with a token for a row read or inserted, not yet a session.
Verify(l, u) ==
  /\ login[l] = "new" /\ login' = [login EXCEPT ![l] = "verified"]
  /\ who' = [who EXCEPT ![l] = u]
  /\ seen' = [seen EXCEPT ![l] = version[u]]

\* The password of the row that was read is compared; whoever does not know it
\* gets no further.
ReadUser(l, u) ==
  /\ account[u] = "active"
  /\ Verify(l, u)
  /\ UNCHANGED <<users, sessions, expired, requests, raced, unclear>>

\* Register inserts a student; the username is free or it is a conflict.
RegisterUser(l, u) ==
  /\ account[u] = "none" /\ account' = [account EXCEPT ![u] = "active"]
  /\ role' = [role EXCEPT ![u] = "student"]
  /\ Verify(l, u)
  /\ UNCHANGED <<version, sessions, expired, requests, raced, unclear>>

\* The INSERT INTO sessions may fail, whatever came before it.
CreateSession(l) ==
  /\ login[l] = "verified" /\ login' = [login EXCEPT ![l] = "over"]
  /\ sessions' \in {sessions, sessions \cup {l}}
  /\ UNCHANGED <<users, who, seen, expired, requests, raced, unclear>>

Logout(l) ==
  /\ Authenticates(l)
  /\ sessions' = sessions \ {l}
  /\ UNCHANGED <<users, login, who, seen, expired, requests, raced, unclear>>

Expire(l) ==
  /\ l \in sessions \ expired
  /\ expired' = expired \cup {l}
  /\ UNCHANGED <<users, login, who, seen, sessions, requests, raced, unclear>>

\* Mutants: sessions of active users only are looked at; the comparison is the
\* wrong way round.
DeleteExpiredOfActive ==
  /\ expired # {}
  /\ expired' = {l \in expired : account[who[l]] # "active"}
  /\ sessions' = {l \in sessions : l \in expired => account[who[l]] # "active"}
  /\ UNCHANGED <<users, login, who, seen, requests, raced, unclear>>

DeleteUnexpired ==
  /\ expired # {}
  /\ sessions' = expired
  /\ UNCHANGED <<users, login, who, seen, expired, requests, raced, unclear>>

\* The goroutine of main, every ten minutes.
DeleteExpired ==
  /\ expired # {} /\ expired' = {}
  /\ sessions' = sessions \ expired
  /\ UNCHANGED <<users, login, who, seen, requests, raced, unclear>>

-----------------------------------------------------------------------------
(* UserService. *)

\* A teacher creates a user of either role.
CreateTeacherUser(l, u) ==
  /\ Authenticates(l) /\ role[who[l]] = "teacher"
  /\ account[u] = "none" /\ account' = [account EXCEPT ![u] = "active"]
  /\ \E ro \in Role : role' = [role EXCEPT ![u] = ro]
  /\ UNCHANGED <<version, logins, requests, raced, unclear>>

\* The middleware, the checks of PatchUser and SoftDeleteUser and their
\* FindByPublicID: everyone may change his own name and password, a teacher
\* everything of everyone.
Begin(r, l, u, c) ==
  /\ request[r] = "new" /\ request' = [request EXCEPT ![r] = "found"]
  /\ Authenticates(l)
  /\ role[who[l]] = "teacher" \/ (who[l] = u /\ c \in {"name", "password"})
  /\ Exists(u)
  /\ target' = [target EXCEPT ![r] = u]
  /\ change' = [change EXCEPT ![r] = c]
  /\ UNCHANGED <<users, logins, raced, unclear>>

Moves(r, from, to) == request[r] = from /\ request' = [request EXCEPT ![r] = to]

\* A statement fails before its commit, and with it the request.
Fail(r) ==
  /\ Moves(r, "found", "over") \/ Moves(r, "cleared", "over")
  /\ UNCHANGED <<users, logins, target, change, raced, unclear>>

\* The one UPDATE of a PATCH.
Write(u, c) ==
  /\ role' \in IF c = "role" THEN {[role EXCEPT ![u] = ro] : ro \in Role} ELSE {role}
  /\ account' \in IF c = "isActive"
                  THEN {[account EXCEPT ![u] = a] : a \in {"active", "inactive"}}
                  ELSE {account}
  /\ version' = IF c \in Privileged THEN [version EXCEPT ![u] = @ + 1] ELSE version

\* The answer of a committed UPDATE is lost: the request ends there.
LoseAnswer(r) ==
  /\ Moves(r, "found", "over")
  /\ unclear' = IF change[r] \in Privileged THEN unclear \cup {target[r]} ELSE unclear

\* Mutants: the UPDATE has lost its deleted_at IS NULL; is_active is missing
\* from the fields that end the sessions.
UpdateAnyone(r) ==
  /\ change[r] \in Patch
  /\ \/ change[r] \in Privileged /\ Moves(r, "found", "updated") /\ UNCHANGED unclear
     \/ change[r] \notin Privileged /\ Moves(r, "found", "over") /\ UNCHANGED unclear
     \/ LoseAnswer(r)
  /\ Write(target[r], change[r])
  /\ UNCHANGED <<logins, target, change, raced>>

UpdateKeepingInactive(r) ==
  /\ change[r] \in Patch /\ Exists(target[r])
  /\ \/ /\ change[r] \in {"password", "role"}
        /\ Moves(r, "found", "updated") /\ UNCHANGED unclear
     \/ change[r] \in {"name", "isActive"} /\ Moves(r, "found", "over") /\ UNCHANGED unclear
     \/ LoseAnswer(r)
  /\ Write(target[r], change[r])
  /\ UNCHANGED <<logins, target, change, raced>>

\* Update finds the user still there.  A change of more than the name goes on
\* to his sessions.
Update(r) ==
  /\ change[r] \in Patch /\ Exists(target[r])
  /\ \/ change[r] \in Privileged /\ Moves(r, "found", "updated") /\ UNCHANGED unclear
     \/ change[r] \notin Privileged /\ Moves(r, "found", "over") /\ UNCHANGED unclear
     \/ LoseAnswer(r)
  /\ Write(target[r], change[r])
  /\ UNCHANGED <<logins, target, change, raced>>

\* DeleteByUserID.
DropSessions(u) ==
  /\ sessions' = sessions \ Of(u)
  /\ expired' = expired \ Of(u)
  /\ raced' = raced \cup {l \in Login : login[l] = "verified" /\ who[l] = u}
  /\ unclear' = unclear \ {u}
  /\ UNCHANGED <<users, login, who, seen, target, change>>

\* The end of PatchUser: an error of the DELETE is ignored.
EndSessions(r) ==
  /\ Moves(r, "updated", "over")
  /\ \/ DropSessions(target[r])
     \/ /\ unclear' = unclear \cup {target[r]}
        /\ UNCHANGED <<users, logins, target, change, raced>>

\* SoftDeleteUser: first the sessions, then the user.
ClearSessions(r) ==
  /\ change[r] = "delete"
  /\ Moves(r, "found", "cleared")
  /\ DropSessions(target[r])

SoftDelete(r) ==
  /\ Moves(r, "cleared", "over")
  /\ account' = IF Exists(target[r]) THEN [account EXCEPT ![target[r]] = "deleted"] ELSE account
  /\ UNCHANGED <<role, version, logins, target, change, raced, unclear>>

LoginStep(l) ==
  \/ \E u \in User : ReadUser(l, u) \/ RegisterUser(l, u) \/ CreateTeacherUser(l, u)
  \/ CreateSession(l) \/ Logout(l) \/ Expire(l)

RequestStep(r) ==
  \/ \E l \in Login, u \in User, c \in Patch \cup {"delete"} : Begin(r, l, u, c)
  \/ Fail(r) \/ Update(r) \/ EndSessions(r) \/ ClearSessions(r) \/ SoftDelete(r)

Next ==
  \/ \E l \in Login : LoginStep(l)
  \/ \E r \in Request : RequestStep(r)
  \/ DeleteExpired

\* Handlers run to their end, time passes, and the goroutine's DELETE succeeds
\* sooner or later.
Fairness ==
  /\ \A l \in Login : WF_vars(CreateSession(l)) /\ WF_vars(Expire(l))
  /\ WF_vars(DeleteExpired)

Spec == Init /\ [][Next]_vars
FairSpec == Spec /\ Fairness

-----------------------------------------------------------------------------
(* Properties. *)

\* A session, or a login about to make one, that is older than the last change
\* of its user's password, role or is_active overlapped the DELETE of the
\* sessions, or that DELETE is still to come, or it failed.
OldSessionsRaced ==
  \A l \in Login :
    (login[l] = "verified" \/ l \in sessions) /\ seen[l] < version[who[l]] =>
      \/ l \in raced \/ who[l] \in unclear
      \/ \E r \in Request : request[r] = "updated" /\ target[r] = who[l]

\* A session ends by its own logout, by age, or by a request that changes more
\* than the name of its user or deletes him: never by anybody else's.
OnlyOwnSessionsEnd ==
  [][\A l \in sessions \ sessions' :
       \/ l \in expired \/ Logout(l)
       \/ \E r \in Request : /\ target[r] = who[l] /\ change[r] \in Privileged \cup {"delete"}
                             /\ request'[r] # request[r]]_vars

\* Nothing changes a deleted user, whatever a PATCH had read before.
DeletedUsersStayDeleted ==
  [][\A u \in User : account[u] = "deleted" =>
       account'[u] = "deleted" /\ role'[u] = role[u] /\ version'[u] = version[u]]_vars

\* A deleted user's sessions are gone for good sooner or later, those of logins
\* that overlapped the deletion included.
DeletedUsersLoseSessions ==
  \A u \in User : account[u] = "deleted" ~> [](Of(u) = {})
=============================================================================
