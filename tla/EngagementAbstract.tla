------------------------- MODULE EngagementAbstract -------------------------
(***************************************************************************)
(* What the like and comment API promises, without requests, transactions  *)
(* or locks: a like or a comment appears or disappears together with its   *)
(* counter, in one indivisible step, and a deleted video keeps its likes.  *)
(* back/database-design.md, chapter 9, states this promise ("in the same   *)
(* transaction"); Engagement.tla shows how the repositories keep it.       *)
(***************************************************************************)
EXTENDS Integers

CONSTANTS User,       \* the users who may like and comment
          Video,      \* the rows of the videos table
          Comment,    \* the comments that may ever be posted
          CommentOn,  \* the video each comment is about
          Size(_)     \* what COUNT( * ) computes: the cardinality of a set

VARIABLES likes,         \* rows of video_likes: pairs <<video, user>>
          live,          \* comments whose deleted_at is null
          erased,        \* comments whose deleted_at is set
          deleted,       \* videos whose deleted_at is set
          likeCount,     \* videos.like_count
          commentCount   \* videos.comment_count

aVars == <<likes, live, erased, deleted, likeCount, commentCount>>

LikersIn(L, v) == {u \in User : <<v, u>> \in L}
CommentsIn(C, v) == {c \in C : CommentOn[c] = v}

AInit ==
  /\ likes = {}
  /\ live = {}
  /\ erased = {}
  /\ deleted = {}
  /\ likeCount = [v \in Video |-> 0]
  /\ commentCount = [v \in Video |-> 0]

(***************************************************************************)
(* The set of likers of a video that is not deleted changes by one user,   *)
(* and the counter is the number of likers again in the same step.         *)
(***************************************************************************)
ASetLikes(v, L) ==
  /\ v \notin deleted
  /\ likes' = L
  /\ likeCount' = [likeCount EXCEPT ![v] = Size(LikersIn(L, v))]
  /\ UNCHANGED <<live, erased, deleted, commentCount>>

ALike(v, u) == <<v, u>> \notin likes /\ ASetLikes(v, likes \cup {<<v, u>>})

AUnlike(v, u) == <<v, u>> \in likes /\ ASetLikes(v, likes \ {<<v, u>>})

(***************************************************************************)
(* The counter of a video after its live comments became C: exact while    *)
(* the video exists; of a deleted video only an upper bound is promised.   *)
(***************************************************************************)
ASetComments(v, C) ==
  /\ live' = C
  /\ \E n \in 0 .. Size(CommentsIn(C, v)) :
       /\ v \notin deleted => n = Size(CommentsIn(C, v))
       /\ commentCount' = [commentCount EXCEPT ![v] = n]
  /\ UNCHANGED <<likes, deleted, likeCount>>

APost(c) ==
  /\ c \notin live \cup erased
  /\ ASetComments(CommentOn[c], live \cup {c})
  /\ UNCHANGED erased

AErase(c) ==
  /\ c \in live
  /\ ASetComments(CommentOn[c], live \ {c})
  /\ erased' = erased \cup {c}

AWithdraw(v) ==
  /\ deleted' = deleted \cup {v}
  /\ UNCHANGED <<likes, live, erased, likeCount, commentCount>>

ANext ==
  \/ \E v \in Video, u \in User : ALike(v, u) \/ AUnlike(v, u)
  \/ \E c \in Comment : APost(c) \/ AErase(c)
  \/ \E v \in Video : AWithdraw(v)

ASpec == AInit /\ [][ANext]_aVars
=============================================================================
