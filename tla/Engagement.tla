----------------------------- MODULE Engagement -----------------------------
(***************************************************************************)
(* Likes, comments and their counters: the requests that the Go server     *)
(* runs concurrently and the PostgreSQL transactions they consist of.      *)
(*                                                                         *)
(* A worker is one in-flight request with its pooled connection.  It walks *)
(* through the service method (access check), then through the statements  *)
(* of the repository's transaction.  Every action is one statement (or one *)
(* committed single-statement write): statements of different requests     *)
(* interleave freely, as they do at READ COMMITTED, the level pgx opens    *)
(* transactions with when BeginTx is given no options.                     *)
(*                                                                         *)
(* What PostgreSQL does is modelled from how the repositories use it:      *)
(*  - a row a transaction inserted, deleted or updated stays locked until  *)
(*    its commit or rollback, and nobody else sees the change before that; *)
(*  - INSERT ... ON CONFLICT DO NOTHING waits for an uncommitted insert or *)
(*    delete of the same key; DELETE sees committed rows only, and waits   *)
(*    for the transaction that already deleted the row it found;           *)
(*  - an UPDATE waits for the row, then re-evaluates its WHERE clause.     *)
(***************************************************************************)
EXTENDS Integers, FiniteSets

CONSTANTS User,        \* users, teachers included
          Teacher,     \* the users whose role is 'teacher'
          Video,       \* rows of the videos table
          Uploader,    \* videos.uploader_id
          Comment,     \* the comments that may ever be posted (the bound)
          CommentOn,   \* comments.video_id
          CommentBy,   \* comments.user_id
          Worker,      \* concurrent requests (the bound on the pool)
          NoComment,   \* the comment of a request that is not about one
          Op           \* the operations clients request (the bound of a run)

ASSUME FiniteTables == IsFiniteSet(User) /\ IsFiniteSet(Comment)
ASSUME Roles == Teacher \subseteq User
ASSUME ForeignKeys ==
  /\ Uploader \in [Video -> User]
  /\ CommentOn \in [Comment -> Video]
  /\ CommentBy \in [Comment -> User]
ASSUME NoCommentIsNone == NoComment \notin Comment

VARIABLES
  likes,         \* committed rows of video_likes: pairs <<video, user>>
  live,          \* committed comments whose deleted_at is null
  erased,        \* committed comments whose deleted_at is set
  deleted,       \* videos whose deleted_at is set
  hidden,        \* videos whose status is 'hidden' (else 'published')
  likeCount,     \* videos.like_count, committed
  commentCount,  \* videos.comment_count, committed
  goneUser,      \* users whose deleted_at is set
  pc,            \* the next statement of each worker's request
  req,           \* the request each worker serves
  did,           \* the open transaction holds an uncommitted row change
  pending        \* the uncommitted counter it wrote, or NoCount

tables == <<likes, live, erased, deleted, hidden, likeCount, commentCount, goneUser>>
vars == <<tables, pc, req, did, pending>>

\* No counter was written; not a number that counting by one could give.
NoCount == -2

LikeOp == {"put", "unlike"}
CommentOp == {"post", "erase"}
VideoOp == {"withdraw", "publish", "hide"}

Request == [op : LikeOp \cup CommentOp \cup VideoOp,
            user : User, video : Video, comment : Comment \cup {NoComment}]
NoRequest == [op |-> "none"]

InTx == {"insertLike", "deleteLike", "awaitDelete", "insertComment",
         "eraseComment", "count", "select", "author", "commit"}

\* A request names a comment only when it posts or erases one.
WellFormed(r) ==
  \/ r.op \notin CommentOp /\ r.comment = NoComment
  \/ /\ r.op \in CommentOp
     /\ r.comment \in Comment
     /\ r.video = CommentOn[r.comment]
     /\ r.op = "post" => r.user = CommentBy[r.comment]

TypeOK ==
  /\ likes \subseteq Video \X User
  /\ live \subseteq Comment /\ erased \subseteq Comment
  /\ deleted \subseteq Video /\ hidden \subseteq Video
  /\ likeCount \in [Video -> Nat] /\ commentCount \in [Video -> Nat]
  /\ goneUser \subseteq User
  /\ pc \in [Worker -> {"idle", "check", "softDelete", "setStatus", "reread"} \cup InTx]
  /\ req \in [Worker -> Request \cup {NoRequest}]
  /\ \A w \in Worker : IF pc[w] = "idle" THEN req[w] = NoRequest
                                         ELSE req[w] \in Request /\ WellFormed(req[w])
  /\ did \in [Worker -> BOOLEAN]
  /\ pending \in [Worker -> Nat \cup {NoCount}]

-----------------------------------------------------------------------------
VideoOf(w) == req[w].video
Key(w) == <<req[w].video, req[w].user>>

\* The uncommitted video_likes insert (delete) of another worker on w's key.
KeyInserting(w) == \E x \in Worker \ {w} : did[x] /\ req[x].op = "put" /\ Key(x) = Key(w)
KeyDeleting(w) == \E x \in Worker \ {w} : did[x] /\ req[x].op = "unlike" /\ Key(x) = Key(w)

\* Another worker's transaction already updated w's comment row.
CommentLocked(w) ==
  \E x \in Worker \ {w} : did[x] /\ req[x].op = "erase" /\ req[x].comment = req[w].comment

\* Nobody else's open transaction updated w's row of videos.
VideoFree(w) == \A x \in Worker \ {w} : pending[x] # NoCount => VideoOf(x) # VideoOf(w)

Goto(w, from, to) == pc[w] = from /\ pc' = [pc EXCEPT ![w] = to]

\* The request is answered: the transaction, if any, is over, its locks gone.
Finish(w) ==
  /\ pc' = [pc EXCEPT ![w] = "idle"]
  /\ did' = [did EXCEPT ![w] = FALSE]
  /\ pending' = [pending EXCEPT ![w] = NoCount]
  /\ req' = [req EXCEPT ![w] = NoRequest]

StepTo(w, from, to) == Goto(w, from, to) /\ UNCHANGED <<tables, req, did, pending>>

Init ==
  /\ likes = {} /\ live = {} /\ erased = {}
  /\ deleted = {} /\ hidden = {} /\ goneUser = {}
  /\ likeCount = [v \in Video |-> 0]
  /\ commentCount = [v \in Video |-> 0]
  /\ pc = [w \in Worker |-> "idle"]
  /\ req = [w \in Worker |-> NoRequest]
  /\ did = [w \in Worker |-> FALSE]
  /\ pending = [w \in Worker |-> NoCount]

-----------------------------------------------------------------------------
(* Requests arrive and pass the checks the services make before they write. *)

\* A user with a live session sends request r to an idle worker.
Receive(w, r) ==
  /\ pc[w] = "idle"
  /\ WellFormed(r)
  /\ r.op \in Op
  /\ r.user \notin goneUser
  /\ r.op = "post" => /\ r.comment \notin live \cup erased
                      /\ \A x \in Worker : req[x].op = "post" => req[x].comment # r.comment
  /\ pc' = [pc EXCEPT ![w] = "check"]
  /\ req' = [req EXCEPT ![w] = r]
  /\ UNCHANGED <<tables, did, pending>>

CanAccessVideo(v, u) == v \notin hidden \/ u \in Teacher \/ u = Uploader[v]

MayManage(owner, u) == u \in Teacher \/ u = owner

Refuse(w) == pc[w] = "check" /\ Finish(w) /\ UNCHANGED tables

\* The first statement of the transaction each request opens.
FirstStatement ==
  [put |-> "insertLike", unlike |-> "deleteLike", post |-> "insertComment"]

\* RequireAccessibleVideo: a missing and a hidden video look the same.
RequireAccessibleVideo(w) ==
  LET visible == /\ VideoOf(w) \notin deleted
                 /\ CanAccessVideo(VideoOf(w), req[w].user)
  IN /\ req[w].op \in LikeOp \cup {"post"}
     /\ \/ visible /\ StepTo(w, "check", FirstStatement[req[w].op])
        \/ ~visible /\ Refuse(w)

\* CommentService.Delete up to the call of the repository.
CheckErase(w) ==
  LET found == req[w].comment \in live
      allowed == MayManage(CommentBy[req[w].comment], req[w].user)
  IN /\ req[w].op = "erase"
     /\ \/ found /\ allowed /\ StepTo(w, "check", "eraseComment")
        \/ ~(found /\ allowed) /\ Refuse(w)

\* VideoService.DeleteVideo and PatchVideo up to their first write.
CheckManage(w) ==
  LET found == VideoOf(w) \notin deleted
      withdraw == req[w].op = "withdraw"
      allowed == IF withdraw THEN MayManage(Uploader[VideoOf(w)], req[w].user)
                             ELSE req[w].user \in Teacher
  IN /\ req[w].op \in VideoOp
     /\ \/ found /\ allowed /\ StepTo(w, "check", IF withdraw THEN "softDelete" ELSE "setStatus")
        \/ ~(found /\ allowed) /\ Refuse(w)

-----------------------------------------------------------------------------
(* LikeRepository.Add and Remove.                                           *)

\* Mutated: ON CONFLICT DO UPDATE ... RETURNING reports an old row as inserted.
InsertLikeOrUpdate(w) ==
  /\ Goto(w, "insertLike", "count")
  /\ ~KeyInserting(w) /\ ~KeyDeleting(w)
  /\ did' = [did EXCEPT ![w] = TRUE]
  /\ UNCHANGED <<tables, req, pending>>

\* Mutated: the INSERT runs on the pool instead of tx, so it commits at once.
InsertLikeOutsideTx(w) ==
  /\ pc[w] = "insertLike"
  /\ ~KeyDeleting(w)
  /\ pc' = [pc EXCEPT ![w] = IF Key(w) \in likes THEN "select" ELSE "count"]
  /\ likes' = likes \cup {Key(w)}
  /\ UNCHANGED <<live, erased, deleted, hidden, likeCount, commentCount, goneUser,
                 req, did, pending>>

\* Mutated: an uncommitted insert of the same like counts as a conflict.
InsertLikeNoWait(w) ==
  /\ pc[w] = "insertLike"
  /\ ~KeyDeleting(w)
  /\ LET inserted == Key(w) \notin likes /\ ~KeyInserting(w)
     IN /\ did' = [did EXCEPT ![w] = inserted]
        /\ pc' = [pc EXCEPT ![w] = IF inserted THEN "count" ELSE "select"]
  /\ UNCHANGED <<tables, req, pending>>

\* INSERT INTO video_likes ... ON CONFLICT DO NOTHING RETURNING video_id
InsertLike(w) ==
  /\ pc[w] = "insertLike"
  /\ ~KeyInserting(w) /\ ~KeyDeleting(w)
  /\ LET inserted == Key(w) \notin likes
     IN /\ did' = [did EXCEPT ![w] = inserted]
        /\ pc' = [pc EXCEPT ![w] = IF inserted THEN "count" ELSE "select"]
  /\ UNCHANGED <<tables, req, pending>>

\* DELETE FROM video_likes ... RETURNING video_id
DeleteLike(w) ==
  /\ pc[w] = "deleteLike"
  /\ LET found == Key(w) \in likes
         locked == KeyDeleting(w)
     IN /\ did' = [did EXCEPT ![w] = found /\ ~locked]
        /\ pc' = [pc EXCEPT ![w] = IF ~found THEN "select"
                                   ELSE IF locked THEN "awaitDelete" ELSE "count"]
  /\ UNCHANGED <<tables, req, pending>>

\* The transaction a blocked DELETE waited for rolled back: the row is its own.
ResumeDelete(w) ==
  /\ Goto(w, "awaitDelete", "count")
  /\ ~KeyDeleting(w)
  /\ did' = [did EXCEPT ![w] = TRUE]
  /\ UNCHANGED <<tables, req, pending>>

\* A statement UPDATE videos SET <counter> = n that finds (and locks) the row.
WriteCount(w, n, next) ==
  /\ VideoFree(w)
  /\ Goto(w, "count", next)
  /\ pending' = [pending EXCEPT ![w] = n]
  /\ UNCHANGED <<tables, req, did>>

\* The same statement when deleted_at IS NULL excludes the row: no row, no lock.
CountNothing(w, next) == VideoOf(w) \in deleted /\ StepTo(w, "count", next)

\* GREATEST(n - 1, 0)
Decrement(n) == IF n = 0 THEN 0 ELSE n - 1

IncrementLikes(w) ==
  /\ req[w].op = "put"
  /\ \/ /\ VideoOf(w) \notin deleted
        /\ WriteCount(w, likeCount[VideoOf(w)] + 1, "select")
     \/ CountNothing(w, "select")

DecrementLikes(w) ==
  /\ req[w].op = "unlike"
  /\ \/ /\ VideoOf(w) \notin deleted
        /\ WriteCount(w, Decrement(likeCount[VideoOf(w)]), "select")
     \/ CountNothing(w, "select")

\* Mutated: SELECT like_count FROM videos WHERE id = $1
SelectAnyLikeCount(w) == StepTo(w, "select", "commit")

\* Mutated: the SELECT is retried until it finds a row.
SelectLikeCountRetrying(w) ==
  pc[w] = "select" /\ VideoOf(w) \notin deleted /\ StepTo(w, "select", "commit")

\* SELECT like_count ... WHERE deleted_at IS NULL; no row makes the method
\* return an error and the deferred Rollback undo the whole transaction.
SelectLikeCount(w) ==
  /\ pc[w] = "select"
  /\ \/ VideoOf(w) \notin deleted /\ StepTo(w, "select", "commit")
     \/ VideoOf(w) \in deleted /\ Finish(w) /\ UNCHANGED tables

-----------------------------------------------------------------------------
(* CommentRepository.Create and SoftDeleteWithCounter.                      *)

\* INSERT INTO comments: a fresh id, so it conflicts with nothing.
InsertComment(w) ==
  /\ Goto(w, "insertComment", "count")
  /\ did' = [did EXCEPT ![w] = TRUE]
  /\ UNCHANGED <<tables, req, pending>>

\* A video deleted meanwhile is not counted, and that is no error.
IncrementComments(w) ==
  /\ req[w].op = "post"
  /\ \/ /\ VideoOf(w) \notin deleted
        /\ WriteCount(w, commentCount[VideoOf(w)] + 1, "author")
     \/ CountNothing(w, "author")

\* SELECT ... FROM users WHERE deleted_at IS NULL; no row rolls back.
SelectAuthor(w) ==
  /\ pc[w] = "author"
  /\ \/ req[w].user \notin goneUser /\ StepTo(w, "author", "commit")
     \/ req[w].user \in goneUser /\ Finish(w) /\ UNCHANGED tables

\* The data-modifying WITH part: UPDATE comments ... WHERE deleted_at IS NULL.
EraseComment(w) ==
  /\ pc[w] = "eraseComment"
  /\ ~CommentLocked(w)
  /\ LET found == req[w].comment \in live
     IN /\ did' = [did EXCEPT ![w] = found]
        /\ pc' = [pc EXCEPT ![w] = IF found THEN "count" ELSE "commit"]
  /\ UNCHANGED <<tables, req, pending>>

\* Mutated: the UPDATE has deleted_at IS NULL, as that of Create has.
DecrementCommentsOfShown(w) ==
  /\ req[w].op = "erase"
  /\ \/ /\ VideoOf(w) \notin deleted
        /\ WriteCount(w, Decrement(commentCount[VideoOf(w)]), "commit")
     \/ CountNothing(w, "commit")

\* The main part: UPDATE videos ... WHERE id IN (...), deleted videos included.
DecrementComments(w) ==
  /\ req[w].op = "erase"
  /\ WriteCount(w, Decrement(commentCount[VideoOf(w)]), "commit")

-----------------------------------------------------------------------------
(* Commit, rollback and the writes that are a single statement.             *)

\* w commits its row change; the transactions listed in woken go on.
CommitWith(w, woken) ==
  /\ pc[w] = "commit"
  /\ pc' = [x \in Worker |-> IF x = w THEN "idle"
                             ELSE IF x \in woken THEN "select" ELSE pc[x]]
  /\ req' = [req EXCEPT ![w] = NoRequest]
  /\ did' = [did EXCEPT ![w] = FALSE]
  /\ pending' = [pending EXCEPT ![w] = NoCount]
  /\ UNCHANGED <<deleted, hidden, goneUser>>

Counted(w, f) ==
  IF pending[w] = NoCount THEN f ELSE [f EXCEPT ![VideoOf(w)] = pending[w]]

\* A DELETE blocked on the row w deletes finds it gone and reports no row.
CommitLike(w) ==
  /\ req[w].op \in LikeOp
  /\ likes' = IF ~did[w] THEN likes
              ELSE IF req[w].op = "put" THEN likes \cup {Key(w)} ELSE likes \ {Key(w)}
  /\ likeCount' = Counted(w, likeCount)
  /\ CommitWith(w, {x \in Worker \ {w} : /\ did[w] /\ req[w].op = "unlike"
                                         /\ pc[x] = "awaitDelete" /\ Key(x) = Key(w)})
  /\ UNCHANGED <<live, erased, commentCount>>

CommitComment(w) ==
  LET c == {req[w].comment}
  IN /\ req[w].op \in CommentOp
     /\ IF req[w].op = "post"
        THEN live' = live \cup c /\ UNCHANGED erased
        ELSE IF did[w] THEN live' = live \ c /\ erased' = erased \cup c
                       ELSE UNCHANGED <<live, erased>>
     /\ commentCount' = Counted(w, commentCount)
     /\ CommitWith(w, {})
     /\ UNCHANGED <<likes, likeCount>>

\* Context cancelled, connection lost or process killed before the commit:
\* PostgreSQL rolls back; a client that waits sees an error.
Abort(w) == pc[w] # "idle" /\ Finish(w) /\ UNCHANGED tables

\* UPDATE videos SET deleted_at = NOW() ... WHERE deleted_at IS NULL
SoftDelete(w) ==
  /\ pc[w] = "softDelete"
  /\ \/ /\ VideoOf(w) \notin deleted /\ VideoFree(w)
        /\ deleted' = deleted \cup {VideoOf(w)}
     \/ VideoOf(w) \in deleted /\ UNCHANGED deleted
  /\ Finish(w)
  /\ UNCHANGED <<likes, live, erased, hidden, likeCount, commentCount, goneUser>>

\* UPDATE videos SET status = ...; PatchVideo then reads the row again.
UpdateStatus(w) ==
  /\ pc[w] = "setStatus"
  /\ \/ /\ VideoOf(w) \notin deleted /\ VideoFree(w)
        /\ hidden' = IF req[w].op = "hide" THEN hidden \cup {VideoOf(w)}
                                          ELSE hidden \ {VideoOf(w)}
        /\ Goto(w, "setStatus", "reread")
        /\ UNCHANGED <<req, did, pending>>
     \/ VideoOf(w) \in deleted /\ UNCHANGED hidden /\ Finish(w)
  /\ UNCHANGED <<likes, live, erased, deleted, likeCount, commentCount, goneUser>>

\* The reads after the update: a video deleted meanwhile is an error or 404.
Reread(w) ==
  /\ pc[w] = "reread"
  /\ Finish(w)
  /\ UNCHANGED tables

\* UserRepository.SoftDelete by a teacher, between any two statements.
SoftDeleteUser(u) ==
  /\ goneUser' = goneUser \cup {u}
  /\ UNCHANGED <<likes, live, erased, deleted, hidden, likeCount, commentCount,
                 pc, req, did, pending>>

-----------------------------------------------------------------------------
\* The statements that never wait, and those that wait for a row.
Proceed(w) ==
  \/ RequireAccessibleVideo(w) \/ CheckErase(w) \/ CheckManage(w)
  \/ DeleteLike(w) \/ SelectLikeCount(w)
  \/ InsertComment(w) \/ SelectAuthor(w)
  \/ CommitLike(w) \/ CommitComment(w)
  \/ Reread(w)

Blocking(w) ==
  \/ InsertLike(w) \/ ResumeDelete(w) \/ IncrementLikes(w) \/ DecrementLikes(w)
  \/ IncrementComments(w) \/ EraseComment(w) \/ DecrementComments(w)
  \/ SoftDelete(w) \/ UpdateStatus(w)

Next ==
  \/ \E w \in Worker : \/ \E r \in Request : Receive(w, r)
                       \/ Proceed(w) \/ Blocking(w) \/ Abort(w)
  \/ \E u \in User : SoftDeleteUser(u)

Spec == Init /\ [][Next]_vars

(***************************************************************************)
(* A started statement is executed, and PostgreSQL queues the transactions *)
(* that wait for a row, so a statement whose row becomes free again and    *)
(* again is not overtaken for ever.  Nothing is assumed of new requests,   *)
(* aborts or the deletion of users.                                        *)
(***************************************************************************)
Fairness == \A w \in Worker : WF_vars(Proceed(w)) /\ SF_vars(Blocking(w))

FairSpec == Spec /\ Fairness

-----------------------------------------------------------------------------
(* Properties.                                                              *)

Likers(v) == {u \in User : <<v, u>> \in likes}
CommentsOf(v) == {c \in live : CommentOn[c] = v}

\* The like counter a video row carries (database-design.md 9.2) is the number
\* of its video_likes rows whatever transactions interleave, roll back or find
\* the video deleted halfway: GREATEST never hides a drift.
LikeCountExact == \A v \in Video : likeCount[v] = Cardinality(Likers(v))

\* The comment counter is exact while the video exists.  Of a deleted video,
\* to which a comment may still be committed without counting it while every
\* erased one is counted down, it never exceeds the live comments.
CommentCountSound ==
  \A v \in Video : /\ commentCount[v] <= Cardinality(CommentsOf(v))
                   /\ v \notin deleted => commentCount[v] = Cardinality(CommentsOf(v))

\* Add and Remove refuse a video that was deleted after the access check: no
\* step changes the likes of a deleted video, not even by a transaction that
\* had inserted or deleted its row before the deletion.
DeletedVideoKeepsLikes ==
  [][\A v \in deleted, u \in User : <<v, u>> \in likes' <=> <<v, u>> \in likes]_vars

\* What a like request asks for: its row there, or its row absent.
Sought(w) ==
  \/ req[w].op = "put" /\ Key(w) \in likes
  \/ req[w].op = "unlike" /\ Key(w) \notin likes

\* PUT and DELETE of a like are idempotent (api-design.md 11.1 and 11.2): they
\* also succeed without having changed a row.  Such a success is truthful: when
\* the request goes on without a change, what it asks for is committed, also if
\* it had waited for another one that then rolled back, or removed the row.
AnswerTruthful ==
  [][\A w \in Worker : pc[w] # "select" /\ pc'[w] = "select" /\ ~did'[w]
       => Sought(w) \/ Sought(w)']_vars

(***************************************************************************)
(* What makes the counters exact, and the inductive core of the proofs.    *)
(***************************************************************************)

\* Which statements belong to which request, and which of them come before
\* (after) the first row change of its transaction.
ProgressOK(w) ==
  /\ pc[w] \in {"insertLike"} => req[w].op = "put"
  /\ pc[w] \in {"deleteLike", "awaitDelete"} => req[w].op = "unlike"
  /\ pc[w] = "select" => req[w].op \in LikeOp
  /\ pc[w] \in {"insertComment", "author"} => req[w].op = "post"
  /\ pc[w] = "eraseComment" => req[w].op = "erase"
  /\ pc[w] \in {"softDelete", "setStatus", "reread"} => req[w].op \in VideoOp
  /\ pc[w] \in {"count", "select", "author", "commit"} => req[w].op \in LikeOp \cup CommentOp
  /\ did[w] => pc[w] \in {"count", "select", "author", "commit"}
  /\ pc[w] \in {"count", "author"} \/ (pc[w] = "commit" /\ req[w].op = "post") => did[w]
  /\ pending[w] # NoCount => did[w] /\ pc[w] # "count"

\* The uncommitted row change is still possible: nobody made it meanwhile, and
\* the row a blocked DELETE waits for is there as long as it waits.
RowChangeOK(w) ==
  /\ did[w] => /\ req[w].op = "put" => Key(w) \notin likes
               /\ req[w].op = "unlike" => Key(w) \in likes
               /\ req[w].op = "erase" => req[w].comment \in live
  /\ pc[w] = "awaitDelete" => Key(w) \in likes

\* A comment being posted exists nowhere else.
FreshComment(w) ==
  req[w].op = "post" => /\ req[w].comment \notin live \cup erased
                        /\ \A x \in Worker \ {w} :
                             req[x].op = "post" => req[x].comment # req[w].comment

\* The uncommitted counter still fits the committed one; without it, past the
\* counting statement, the transaction rolls back or leaves a deleted video.
CountOK(w) ==
  LET v == VideoOf(w)
      written == pending[w] # NoCount
      counted == did[w] /\ pc[w] # "count"
  IN /\ req[w].op \in LikeOp /\ written =>
          /\ v \notin deleted
          /\ pending[w] = IF req[w].op = "put" THEN likeCount[v] + 1 ELSE Decrement(likeCount[v])
     /\ req[w].op = "post" /\ written => v \notin deleted /\ pending[w] = commentCount[v] + 1
     /\ req[w].op = "erase" /\ written => pending[w] = Decrement(commentCount[v])
     /\ counted /\ ~written =>
          \/ req[w].op = "post" /\ v \in deleted
          \/ req[w].op \in LikeOp /\ pc[w] = "select" /\ v \in deleted

\* No two open transactions changed the same row.
LocksExclusive ==
  \A w, x \in Worker : w # x /\ did[w] /\ did[x] =>
    /\ pending[w] # NoCount /\ pending[x] # NoCount => VideoOf(w) # VideoOf(x)
    /\ req[w].op \in LikeOp /\ req[x].op \in LikeOp => Key(w) # Key(x)
    /\ req[w].op = "erase" /\ req[x].op = "erase" => req[w].comment # req[x].comment

\* Two transactions never hold the same like, comment or video row, and what a
\* transaction is about to commit still fits the committed tables, although
\* they changed under it since it read them.
TransactionInv ==
  /\ LocksExclusive
  /\ \A w \in Worker : ProgressOK(w) /\ RowChangeOK(w) /\ FreshComment(w) /\ CountOK(w)

\* Every request is answered: row locks are always taken in the order comment
\* or like, then video, so transactions never wait for each other in a cycle.
EveryRequestAnswered == \A w \in Worker : pc[w] # "idle" ~> pc[w] = "idle"

\* The transactions implement the indivisible operations of the abstract API.
Promise == INSTANCE EngagementAbstract WITH Size <- Cardinality
PromiseKept == Promise!ASpec
=============================================================================
