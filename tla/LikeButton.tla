----------------------------- MODULE LikeButton -----------------------------
(***************************************************************************)
(* The like button of the watch page (useLike and the like_count it takes  *)
(* from useVideoDetail) and the handlers it talks to.  A watch page whose  *)
(* address changes is not mounted again: useLike keeps its state while it  *)
(* asks for that of the other video.  The page keeps no order between its  *)
(* requests: the server handles them, and their answers arrive, in any     *)
(* order, and any request or answer may be lost.  The likes themselves are *)
(* indivisible here, as Engagement shows they are; other users only move   *)
(* the counters.  The user is logged in.                                   *)
(***************************************************************************)
EXTENDS Integers

CONSTANTS Video,
          None,       \* the address of a page that is not a watch page
          MaxTurns,   \* bound on clicks, navigations, what others do, and losses
          MaxOthers   \* bound on the likes of other users, per video

ASSUME NoneIsNoVideo == None \notin Video
ASSUME Bounds == {MaxTurns, MaxOthers} \subseteq Nat

VARIABLES
  stored,     \* this user's rows of video_likes
  others,     \* likes of other users; like_count counts both
  address,    \* the video of the watch page's address
  visit,      \* the turn in which the address was visited
  mounted,    \* the turn in which the page was mounted
  page,       \* what useVideoDetail lets the page show
  initial,    \* initialCount of useLike: video?.like_count ?? 0
  liked,      \* useLike's state
  likeCount,  \* useLike's state
  requests,   \* requests under way, and answers not yet read
  turns,      \* clicks, navigations, what others did, and losses
  excused,    \* history: requests overlapped in this visit, or one was lost
  removed,    \* history: the user took a like back in this visit
  moved,      \* history: other users moved the counter in this visit
  kept        \* history: this video's like_count was that of the video before

server == <<stored, others>>
hook == <<initial, liked, likeCount>>
tab == <<address, visit, mounted, page>>
history == <<excused, removed, moved, kept>>
vars == <<server, hook, tab, requests, turns, history>>

LikeCount(v) == others[v] + (IF v \in stored THEN 1 ELSE 0)

\* No answer yet; a failed fetch or a non-2xx status; and the undefined that
\* apiFetch returns for 204 No Content.
Pending == [is |-> "pending"]
Failure == [is |-> "failure"]
NoContent == [is |-> "noContent"]
Body(l, n) == [is |-> "body", liked |-> l, count |-> n]
HasBody(q) == q.reply.is = "body"

Request(kind, v, n, no) == [kind |-> kind, video |-> v, visit |-> n, no |-> no, reply |-> Pending]
Changes(q) == q.kind \in {"PUT", "DELETE"}

\* A mutant: the status is asked for when the page mounts only.
AskedOnce(v, n) ==
  {Request("detail", v, n, 0)} \cup
    (IF n = 0 \/ address = None THEN {Request("status", v, n, 0)} ELSE {})

\* The effects of useVideoDetail and useLike when the address names a video.
Asked(v, n) == {Request("detail", v, n, 0), Request("status", v, n, 0)}

\* The tab is opened at a watch page.
Init ==
  /\ stored \in SUBSET Video /\ others \in [Video -> 0..MaxOthers]
  /\ address \in Video /\ visit = 0 /\ mounted = 0 /\ page = "loading"
  /\ initial = 0 /\ liked = FALSE /\ likeCount = 0
  /\ requests = Asked(address, 0) /\ turns = 0
  /\ excused = FALSE /\ removed = FALSE /\ moved = FALSE /\ kept = FALSE

Turn == turns < MaxTurns /\ turns' = turns + 1

-----------------------------------------------------------------------------
(* The user. *)

\* React ignores the state an unmounted page is given.
IsMounted(q) == q.visit >= mounted

\* The requests whose answer still matters when the page is left: the effect of
\* useVideoDetail drops its answer, that of useLike does so only with the page.
Left == {q \in requests : Changes(q) \/ (q.kind = "status" /\ q.visit >= mounted')}

\* Links and the history of the browser.  A page mounted anew starts from nothing.
Navigate(v) ==
  /\ Turn /\ visit' = turns'
  /\ v # address /\ address' = v
  /\ page' = IF v = None THEN "elsewhere" ELSE "loading"
  /\ IF address # None /\ v # None
     THEN UNCHANGED <<mounted, hook>>
     ELSE mounted' = visit' /\ initial' = 0 /\ liked' = FALSE /\ likeCount' = 0
  /\ requests' = Left \cup (IF v = None THEN {} ELSE Asked(v, visit'))
  /\ excused' = \E q \in Left : q.visit >= mounted' \/ q.video = v
  /\ removed' = FALSE /\ moved' = FALSE /\ kept' = FALSE
  /\ UNCHANGED server

\* toggleLike decides by the state on the page, not the server's.
Toggle ==
  /\ Turn /\ page = "shown"
  /\ requests' = requests \cup
       {Request(IF liked THEN "DELETE" ELSE "PUT", address, visit, turns')}
  /\ removed' = (removed \/ liked)
  /\ excused' = (excused \/ \E q \in requests : q.kind = "status")
  /\ UNCHANGED <<server, hook, tab, moved, kept>>

-----------------------------------------------------------------------------
(* The server. *)

Answer(q, body) == requests' = (requests \ {q}) \cup {[q EXCEPT !.reply = body]}

\* handleVideosGet, handleLikesGet, handleLikesPut, handleLikesDelete.
HandleGet(q) ==
  /\ q.kind \in {"detail", "status"} /\ q.reply = Pending
  /\ Answer(q, Body(q.video \in stored, LikeCount(q.video)))
  /\ UNCHANGED <<server, hook, tab, turns, history>>

\* A mutant: the counter answered is that before the row was inserted.
HandlePutCountingBefore(q) ==
  /\ q.kind = "PUT" /\ q.reply = Pending
  /\ stored' = stored \cup {q.video}
  /\ UNCHANGED <<others, hook, tab, turns, history>>
  /\ Answer(q, Body(TRUE, LikeCount(q.video)))

\* A mutant: the counter answered is incremented whether or not a row was inserted.
HandlePutCountingTwice(q) ==
  /\ q.kind = "PUT" /\ q.reply = Pending
  /\ stored' = stored \cup {q.video}
  /\ UNCHANGED <<others, hook, tab, turns, history>>
  /\ Answer(q, Body(TRUE, LikeCount(q.video) + 1))

HandlePut(q) ==
  /\ q.kind = "PUT" /\ q.reply = Pending
  /\ stored' = stored \cup {q.video}
  /\ UNCHANGED <<others, hook, tab, turns, history>>
  /\ Answer(q, Body(TRUE, LikeCount(q.video)'))

HandleDelete(q) ==
  /\ q.kind = "DELETE" /\ q.reply = Pending
  /\ stored' = stored \ {q.video}
  /\ Answer(q, NoContent)
  /\ UNCHANGED <<others, hook, tab, turns, history>>

\* A request never reaches the server, or its answer never the page.
Lose(q) ==
  /\ Turn /\ q.reply # Failure
  /\ Answer(q, Failure)
  /\ excused' = (excused \/ q.visit = visit)
  /\ UNCHANGED <<server, hook, tab, removed, moved, kept>>

OtherUsers(v) ==
  /\ Turn
  /\ \E n \in {others[v] - 1, others[v] + 1} \cap 0..MaxOthers :
       others' = [others EXCEPT ![v] = n]
  /\ moved' = (moved \/ v = address)
  /\ UNCHANGED <<stored, hook, tab, requests, excused, removed, kept>>

-----------------------------------------------------------------------------
(* Answers. *)

Read(q) ==
  /\ q.reply # Pending /\ requests' = requests \ {q}
  /\ UNCHANGED <<server, turns, address, visit, mounted, excused, removed, moved>>

\* useLike follows the like_count of the video, with an effect that runs when
\* that number changes.
DetailArrives(q) ==
  /\ q.kind = "detail" /\ Read(q)
  /\ liked' = liked
  /\ IF HasBody(q)
     THEN /\ page' = "shown"
          /\ initial' = q.reply.count
          /\ likeCount' = IF q.reply.count # initial THEN q.reply.count ELSE likeCount
          /\ kept' = (q.reply.count = initial /\ likeCount # initial)
     ELSE /\ page' = "error"
          /\ UNCHANGED <<initial, likeCount, kept>>

\* getLikeStatus answers FALSE when anything fails; no answer is dropped because
\* the address has changed.
StatusArrives(q) ==
  /\ q.kind = "status" /\ Read(q)
  /\ liked' = (HasBody(q) /\ q.reply.liked)
  /\ UNCHANGED <<initial, likeCount, page, kept>>

\* A mutant: the answer updates the counter only.
AnswerArrivesCountOnly(q) ==
  /\ Changes(q) /\ Read(q)
  /\ likeCount' = IF IsMounted(q) /\ HasBody(q) THEN q.reply.count ELSE likeCount
  /\ UNCHANGED <<initial, liked, page, kept>>

\* The then of toggleLike needs a body: reading liked of undefined throws, and
\* the catch changes nothing, as it does for a failure.
AnswerArrives(q) ==
  /\ Changes(q) /\ Read(q)
  /\ IF IsMounted(q) /\ HasBody(q)
     THEN liked' = q.reply.liked /\ likeCount' = q.reply.count
     ELSE UNCHANGED <<liked, likeCount>>
  /\ UNCHANGED <<initial, page, kept>>

-----------------------------------------------------------------------------

Next ==
  \/ \E v \in Video \cup {None} : Navigate(v)
  \/ \E v \in Video : OtherUsers(v)
  \/ Toggle
  \/ \E q \in requests :
       \/ HandleGet(q) \/ HandlePut(q) \/ HandleDelete(q) \/ Lose(q)
       \/ DetailArrives(q) \/ StatusArrives(q) \/ AnswerArrives(q)

Spec == Init /\ [][Next]_vars

-----------------------------------------------------------------------------

TypeOK ==
  /\ stored \subseteq Video /\ others \in [Video -> 0..MaxOthers]
  /\ address \in Video \cup {None}
  /\ visit \in 0..turns /\ mounted \in 0..visit
  /\ page \in {"elsewhere", "loading", "shown", "error"}
  /\ {initial, likeCount} \subseteq 0..MaxOthers + 1 /\ liked \in BOOLEAN
  /\ \A q \in requests :
       /\ q.kind \in {"detail", "status", "PUT", "DELETE"} /\ q.video \in Video
       /\ q.visit \in 0..visit /\ q.no \in 0..turns
       /\ HasBody(q) => q.reply.liked \in BOOLEAN /\ q.reply.count \in 0..MaxOthers + 1
  /\ turns \in 0..MaxTurns /\ {excused, removed, moved, kept} \subseteq BOOLEAN

\* Nothing is under way that could still change what the page shows.
Settled == page = "shown" /\ \A q \in requests : ~IsMounted(q)

\* useLike.ts: a settled watch page shows whether the user likes its video, also
\* after the address has changed, unless requests of the visit overlapped or one
\* was lost; a like that was taken back may still be shown, but none is missing.
SettledPageShowsTheLike ==
  Settled /\ ~excused => /\ address \in stored => liked
                         /\ liked /\ ~removed => address \in stored

\* useLike.ts: such a page also shows the video's number of likes, if no other
\* user moved it, unless it was opened from a video whose number had been the
\* same and had changed on the page: then the page goes on with the old number.
SettledPageShowsTheNumber ==
  Settled /\ ~excused /\ ~removed /\ ~moved /\ ~kept => likeCount = LikeCount(address)

\* What the comment on likeService.removeLike says: removing a like returns the
\* new state, which the page then shows.
RemovedLikeIsShown ==
  [][\A q \in requests :
       AnswerArrives(q) /\ q.kind = "DELETE" /\ q.reply # Failure /\ IsMounted(q) => ~liked']_vars
=============================================================================
