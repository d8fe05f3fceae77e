-------------------------- MODULE EngagementProofs --------------------------
(***************************************************************************)
(* Proofs about Engagement for any number of users, videos, comments and   *)
(* concurrent requests.                                                    *)
(***************************************************************************)
EXTENDS Engagement, FiniteSetTheorems, TLAPS

\* Every variable keeps its type; in particular the counters stay natural
\* numbers, the CHECK constraints of the videos table.
THEOREM TypeCorrect == Spec => []TypeOK
<1>1. Init => TypeOK
  BY DEF Init, TypeOK
<1>2. TypeOK /\ [Next]_vars => TypeOK'
  <2> SUFFICES ASSUME TypeOK, [Next]_vars PROVE TypeOK'
    OBVIOUS
  <2> USE DEF TypeOK, InTx, tables, NoCount
  <2>1. ASSUME NEW w \in Worker, NEW r \in Request, Receive(w, r) PROVE TypeOK'
    BY <2>1 DEF Receive, NoRequest, Request
  <2>2. ASSUME NEW w \in Worker, RequireAccessibleVideo(w) PROVE TypeOK'
    <3>1. FirstStatement[req[w].op] \in InTx
      BY <2>2 DEF RequireAccessibleVideo, FirstStatement, LikeOp
    <3>2. CASE StepTo(w, "check", FirstStatement[req[w].op])
      BY <3>1, <3>2 DEF StepTo, Goto
    <3>3. CASE Refuse(w)
      BY <3>3 DEF Refuse, Finish
    <3>4. QED
      BY <2>2, <3>2, <3>3 DEF RequireAccessibleVideo
  <2>3. ASSUME NEW w \in Worker, CheckErase(w) PROVE TypeOK'
    BY <2>3 DEF CheckErase, StepTo, Goto, Refuse, Finish
  <2>4. ASSUME NEW w \in Worker, CheckManage(w) PROVE TypeOK'
    BY <2>4 DEF CheckManage, StepTo, Goto, Refuse, Finish
  <2>5. ASSUME NEW w \in Worker, InsertLike(w) PROVE TypeOK'
    BY <2>5 DEF InsertLike
  <2>6. ASSUME NEW w \in Worker, DeleteLike(w) PROVE TypeOK'
    BY <2>6 DEF DeleteLike
  <2>7. ASSUME NEW w \in Worker, ResumeDelete(w) PROVE TypeOK'
    BY <2>7 DEF ResumeDelete, Goto
  <2>8. ASSUME NEW w \in Worker, IncrementLikes(w) PROVE TypeOK'
    BY <2>8 DEF IncrementLikes, WriteCount, CountNothing, StepTo, Goto, VideoOf, Request
  <2>9. ASSUME NEW w \in Worker, DecrementLikes(w) PROVE TypeOK'
    BY <2>9 DEF DecrementLikes, WriteCount, CountNothing, StepTo, Goto, VideoOf, Request, Decrement
  <2>10. ASSUME NEW w \in Worker, SelectLikeCount(w) PROVE TypeOK'
    BY <2>10 DEF SelectLikeCount, StepTo, Goto, Finish
  <2>11. ASSUME NEW w \in Worker, InsertComment(w) PROVE TypeOK'
    BY <2>11 DEF InsertComment, Goto
  <2>12. ASSUME NEW w \in Worker, IncrementComments(w) PROVE TypeOK'
    BY <2>12 DEF IncrementComments, WriteCount, CountNothing, StepTo, Goto, VideoOf, Request
  <2>13. ASSUME NEW w \in Worker, SelectAuthor(w) PROVE TypeOK'
    BY <2>13 DEF SelectAuthor, StepTo, Goto, Finish
  <2>14. ASSUME NEW w \in Worker, EraseComment(w) PROVE TypeOK'
    BY <2>14 DEF EraseComment
  <2>15. ASSUME NEW w \in Worker, DecrementComments(w) PROVE TypeOK'
    BY <2>15 DEF DecrementComments, WriteCount, Goto, VideoOf, Request, Decrement
  <2>16. ASSUME NEW w \in Worker, CommitLike(w) PROVE TypeOK'
    BY <2>16 DEF CommitLike, CommitWith, Counted, VideoOf, Key, Request
  <2>17. ASSUME NEW w \in Worker, CommitComment(w) PROVE TypeOK'
    BY <2>17 DEF CommitComment, CommitWith, Counted, VideoOf, Request, WellFormed
  <2>18. ASSUME NEW w \in Worker, Abort(w) PROVE TypeOK'
    BY <2>18 DEF Abort, Finish
  <2>19. ASSUME NEW w \in Worker, SoftDelete(w) PROVE TypeOK'
    BY <2>19 DEF SoftDelete, Finish, VideoOf, Request
  <2>20. ASSUME NEW w \in Worker, UpdateStatus(w) PROVE TypeOK'
    BY <2>20 DEF UpdateStatus, Finish, Goto, VideoOf, Request
  <2>21. ASSUME NEW w \in Worker, Reread(w) PROVE TypeOK'
    BY <2>21 DEF Reread, Finish
  <2>22. ASSUME NEW u \in User, SoftDeleteUser(u) PROVE TypeOK'
    BY <2>22 DEF SoftDeleteUser
  <2>23. CASE UNCHANGED vars
    BY <2>23 DEF vars
  <2>24. QED
    BY <2>1, <2>2, <2>3, <2>4, <2>5, <2>6, <2>7, <2>8, <2>9, <2>10, <2>11, <2>12, <2>13,
       <2>14, <2>15, <2>16, <2>17, <2>18, <2>19, <2>20, <2>21, <2>22, <2>23
       DEF Next, Proceed, Blocking
<1>3. QED
  BY <1>1, <1>2, PTL DEF Spec

-----------------------------------------------------------------------------
(* The transaction invariant.                                               *)

Consistent(w) == ProgressOK(w) /\ RowChangeOK(w) /\ FreshComment(w) /\ CountOK(w)

\* What w's open transaction locks is locked by nobody else.
OwnLocks(w) ==
  \A x \in Worker \ {w} : did[w] /\ did[x] =>
    /\ pending[w] # NoCount /\ pending[x] # NoCount => VideoOf(w) # VideoOf(x)
    /\ req[w].op \in LikeOp /\ req[x].op \in LikeOp => Key(w) # Key(x)
    /\ req[w].op = "erase" /\ req[x].op = "erase" => req[w].comment # req[x].comment

\* The requests other than w's are left where they are.
OthersWait(w) ==
  \A x \in Worker \ {w} :
    pc'[x] = pc[x] /\ req'[x] = req[x] /\ did'[x] = did[x] /\ pending'[x] = pending[x]

\* A step of one request that commits nothing disturbs only its own part.
LEMMA LocalStep ==
  ASSUME TransactionInv, NEW w \in Worker, OthersWait(w),
         UNCHANGED <<likes, live, erased, deleted, likeCount, commentCount>>,
         Consistent(w)', OwnLocks(w)'
  PROVE  TransactionInv'
<1>1. LocksExclusive'
  BY DEF TransactionInv, LocksExclusive, OthersWait, OwnLocks, VideoOf, Key
<1>2. ASSUME NEW x \in Worker PROVE Consistent(x)'
  <2>1. CASE x = w
    BY <2>1
  <2>2. CASE x # w
    <3>1. pc'[x] = pc[x] /\ req'[x] = req[x] /\ did'[x] = did[x] /\ pending'[x] = pending[x]
      BY <2>2 DEF OthersWait
    <3>2. ProgressOK(x)' /\ RowChangeOK(x)'
      BY <3>1 DEF TransactionInv, ProgressOK, RowChangeOK, Key
    <3>3. CountOK(x)'
      BY <3>1 DEF TransactionInv, CountOK, VideoOf
    <3>4. FreshComment(x)'
      BY <2>2, <3>1 DEF TransactionInv, FreshComment, Consistent, OthersWait
    <3>5. QED
      BY <3>2, <3>3, <3>4 DEF Consistent
  <2>3. QED
    BY <2>1, <2>2
<1>3. QED
  BY <1>1, <1>2 DEF TransactionInv, Consistent

\* A request that ends without a commit takes its uncommitted changes with it.
LEMMA FinishStep ==
  ASSUME TypeOK, TransactionInv, NEW w \in Worker, Finish(w),
         UNCHANGED <<likes, live, erased, deleted, likeCount, commentCount>>
  PROVE  TransactionInv'
<1>1. OthersWait(w)
  BY DEF TypeOK, Finish, OthersWait
<1>2. pc'[w] = "idle" /\ req'[w] = NoRequest /\ ~did'[w] /\ pending'[w] = NoCount
  BY DEF TypeOK, Finish
<1>3. NoRequest.op \notin LikeOp \cup CommentOp
  BY DEF NoRequest, LikeOp, CommentOp
<1>4. Consistent(w)'
  BY <1>2, <1>3 DEF Consistent, ProgressOK, RowChangeOK, FreshComment, CountOK, CommentOp
<1>5. OwnLocks(w)'
  BY <1>2 DEF OwnLocks
<1>6. QED
  BY <1>1, <1>4, <1>5, LocalStep

\* A request that moves on without a row change keeps what it has.
LEMMA MoveStep ==
  ASSUME TypeOK, TransactionInv, NEW w \in Worker, NEW from, NEW to, StepTo(w, from, to),
         to # "awaitDelete",
         ProgressOK(w)', CountOK(w)'
  PROVE  TransactionInv'
<1>1. OthersWait(w)
  BY DEF TypeOK, StepTo, Goto, OthersWait
<1>2. UNCHANGED <<likes, live, erased, deleted, likeCount, commentCount, req, did, pending>>
  BY DEF StepTo, tables
<1>3. RowChangeOK(w)' /\ FreshComment(w)'
  BY <1>2 DEF TypeOK, StepTo, Goto, TransactionInv, RowChangeOK, FreshComment, Key
<1>4. OwnLocks(w)'
  BY <1>2 DEF TransactionInv, LocksExclusive, OwnLocks, VideoOf, Key
<1>5. QED
  BY <1>1, <1>2, <1>3, <1>4, LocalStep DEF Consistent

\* The transaction invariant is inductive relative to the types.
LEMMA TransactionStep == TypeOK /\ TransactionInv /\ [Next]_vars => TransactionInv'
<1> SUFFICES ASSUME TypeOK, TransactionInv, [Next]_vars PROVE TransactionInv'
  OBVIOUS
<1> USE DEF LikeOp, CommentOp
<1>1. ASSUME NEW w \in Worker, NEW r \in Request, Receive(w, r) PROVE TransactionInv'
  <2>1. /\ OthersWait(w) /\ pc[w] = "idle" /\ pc'[w] = "check"
        /\ req'[w] = r /\ did' = did /\ pending' = pending
        /\ UNCHANGED tables
    BY <1>1 DEF TypeOK, Receive, OthersWait
  <2>2. ~did[w] /\ pending[w] = NoCount
    BY <2>1 DEF TransactionInv, ProgressOK
  <2>3. ProgressOK(w)' /\ RowChangeOK(w)' /\ CountOK(w)' /\ OwnLocks(w)'
    BY <2>1, <2>2 DEF ProgressOK, RowChangeOK, CountOK, OwnLocks
  <2>4. FreshComment(w)'
    BY <1>1, <2>1 DEF FreshComment, Receive, OthersWait, tables
  <2>5. QED
    BY <2>1, <2>3, <2>4, LocalStep DEF Consistent, tables
<1>2. ASSUME NEW w \in Worker, Finish(w), UNCHANGED tables PROVE TransactionInv'
  BY <1>2, FinishStep DEF tables
<1>3. ASSUME NEW w \in Worker, NEW to, pc[w] = "check", StepTo(w, "check", to),
             \/ to = "insertLike" /\ req[w].op = "put"
             \/ to = "deleteLike" /\ req[w].op = "unlike"
             \/ to = "insertComment" /\ req[w].op = "post"
             \/ to = "eraseComment" /\ req[w].op = "erase"
             \/ to \in {"softDelete", "setStatus"} /\ req[w].op \in VideoOp
      PROVE TransactionInv'
  <2>1. ~did[w] /\ pending[w] = NoCount
    BY <1>3 DEF TransactionInv, ProgressOK
  <2>2. pc'[w] = to /\ UNCHANGED <<tables, req, did, pending>>
    BY <1>3 DEF TypeOK, StepTo, Goto
  <2>3. ProgressOK(w)' /\ CountOK(w)'
    BY <1>3, <2>1, <2>2 DEF ProgressOK, CountOK, VideoOp
  <2>4. QED
    BY <1>3, <2>3, MoveStep
<1>4. ASSUME NEW w \in Worker, RequireAccessibleVideo(w) PROVE TransactionInv'
  <2>1. CASE Refuse(w)
    BY <1>2, <2>1 DEF Refuse
  <2>2. CASE StepTo(w, "check", FirstStatement[req[w].op])
    <3>1. pc[w] = "check" /\ req[w].op \in {"put", "unlike", "post"}
      BY <1>4, <2>2 DEF RequireAccessibleVideo, StepTo, Goto
    <3>2. /\ FirstStatement["put"] = "insertLike" /\ FirstStatement["unlike"] = "deleteLike"
          /\ FirstStatement["post"] = "insertComment"
      BY DEF FirstStatement
    <3>3. QED
      BY <1>3, <2>2, <3>1, <3>2
  <2>3. QED
    BY <1>4, <2>1, <2>2 DEF RequireAccessibleVideo
<1>5. ASSUME NEW w \in Worker, CheckErase(w) PROVE TransactionInv'
  BY <1>2, <1>3, <1>5 DEF CheckErase, Refuse, StepTo, Goto
<1>6. ASSUME NEW w \in Worker, CheckManage(w) PROVE TransactionInv'
  BY <1>2, <1>3, <1>6 DEF CheckManage, Refuse, StepTo, Goto
<1>7. ASSUME NEW w \in Worker, InsertLike(w) PROVE TransactionInv'
  <2>1. /\ OthersWait(w) /\ pc[w] = "insertLike" /\ req' = req /\ pending' = pending
        /\ UNCHANGED tables
        /\ \/ Key(w) \notin likes /\ did'[w] = TRUE /\ pc'[w] = "count"
           \/ Key(w) \in likes /\ did'[w] = FALSE /\ pc'[w] = "select"
    BY <1>7 DEF TypeOK, InsertLike, OthersWait
  <2>2. req[w].op = "put" /\ pending[w] = NoCount
    BY <2>1 DEF TransactionInv, ProgressOK
  <2>3. ProgressOK(w)' /\ RowChangeOK(w)' /\ CountOK(w)' /\ FreshComment(w)'
    BY <2>1, <2>2 DEF ProgressOK, RowChangeOK, CountOK, FreshComment, Key, tables
  <2>4. OwnLocks(w)'
    <3> SUFFICES ASSUME NEW x \in Worker \ {w}, did'[w], did[x], req[x].op \in LikeOp
                 PROVE  Key(w) # Key(x)
      BY <2>1, <2>2 DEF OwnLocks, OthersWait, Key, VideoOf
    <3>1. QED
      BY <1>7 DEF InsertLike, KeyInserting, KeyDeleting
  <2>5. QED
    BY <2>1, <2>3, <2>4, LocalStep DEF Consistent, tables
<1>8. ASSUME NEW w \in Worker, DeleteLike(w) PROVE TransactionInv'
  <2>1. /\ OthersWait(w) /\ pc[w] = "deleteLike" /\ req' = req /\ pending' = pending
        /\ UNCHANGED tables
        /\ \/ /\ Key(w) \in likes /\ ~KeyDeleting(w)
              /\ did'[w] = TRUE /\ pc'[w] = "count"
           \/ did'[w] = FALSE /\ pc'[w] = "select"
           \/ Key(w) \in likes /\ did'[w] = FALSE /\ pc'[w] = "awaitDelete"
    BY <1>8 DEF TypeOK, DeleteLike, OthersWait
  <2>2. req[w].op = "unlike" /\ pending[w] = NoCount
    BY <2>1 DEF TransactionInv, ProgressOK
  <2>3. ProgressOK(w)' /\ RowChangeOK(w)' /\ CountOK(w)' /\ FreshComment(w)'
    BY <2>1, <2>2 DEF ProgressOK, RowChangeOK, CountOK, FreshComment, Key, tables
  <2>4. OwnLocks(w)'
    <3> SUFFICES ASSUME NEW x \in Worker \ {w}, did'[w], did[x], req[x].op \in LikeOp
                 PROVE  Key(w) # Key(x)
      BY <2>1, <2>2 DEF OwnLocks, OthersWait, Key, VideoOf
    <3>1. CASE req[x].op = "unlike"
      BY <2>1, <3>1 DEF KeyDeleting
    <3>2. CASE req[x].op = "put"
      BY <2>1, <3>2 DEF TransactionInv, RowChangeOK
    <3>3. QED
      BY <3>1, <3>2
  <2>5. QED
    BY <2>1, <2>3, <2>4, LocalStep DEF Consistent, tables
<1>9. ASSUME NEW w \in Worker, ResumeDelete(w) PROVE TransactionInv'
  <2>1. /\ OthersWait(w) /\ pc[w] = "awaitDelete" /\ req' = req /\ pending' = pending
        /\ UNCHANGED tables /\ ~KeyDeleting(w)
        /\ did'[w] = TRUE /\ pc'[w] = "count"
    BY <1>9 DEF TypeOK, ResumeDelete, Goto, OthersWait
  <2>2. req[w].op = "unlike" /\ pending[w] = NoCount /\ Key(w) \in likes
    BY <2>1 DEF TransactionInv, ProgressOK, RowChangeOK
  <2>3. ProgressOK(w)' /\ RowChangeOK(w)' /\ CountOK(w)' /\ FreshComment(w)'
    BY <2>1, <2>2 DEF ProgressOK, RowChangeOK, CountOK, FreshComment, Key, tables
  <2>4. OwnLocks(w)'
    BY <2>1, <2>2 DEF OwnLocks, OthersWait, Key, VideoOf, KeyDeleting, TransactionInv, RowChangeOK
  <2>5. QED
    BY <2>1, <2>3, <2>4, LocalStep DEF Consistent, tables
<1>10. ASSUME NEW w \in Worker, NEW n \in Nat, NEW next \in {"select", "author", "commit"},
              WriteCount(w, n, next),
              \/ /\ req[w].op \in LikeOp /\ next = "select" /\ VideoOf(w) \notin deleted
                 /\ n = IF req[w].op = "put" THEN likeCount[VideoOf(w)] + 1
                                           ELSE Decrement(likeCount[VideoOf(w)])
              \/ /\ req[w].op = "post" /\ next = "author" /\ VideoOf(w) \notin deleted
                 /\ n = commentCount[VideoOf(w)] + 1
              \/ /\ req[w].op = "erase" /\ next = "commit"
                 /\ n = Decrement(commentCount[VideoOf(w)])
       PROVE TransactionInv'
  <2>1. /\ OthersWait(w) /\ pc[w] = "count" /\ pc'[w] = next /\ req' = req /\ did' = did
        /\ pending'[w] = n /\ UNCHANGED tables /\ VideoFree(w)
    BY <1>10 DEF TypeOK, WriteCount, Goto, OthersWait
  <2>2. did[w] /\ n # NoCount
    BY <2>1 DEF TransactionInv, ProgressOK, NoCount
  <2>3. ProgressOK(w)'
    BY <1>10, <2>1, <2>2 DEF ProgressOK, NoCount
  <2>4. RowChangeOK(w)' /\ FreshComment(w)'
    BY <1>10, <2>1, <2>2 DEF TransactionInv, RowChangeOK, FreshComment, Key, tables
  <2>5. CountOK(w)'
    BY <1>10, <2>1, <2>2 DEF CountOK, VideoOf, tables
  <2>6. OwnLocks(w)'
    BY <2>1, <2>2 DEF OwnLocks, OthersWait, VideoFree, TransactionInv, LocksExclusive, Key, VideoOf
  <2>7. QED
    BY <2>1, <2>3, <2>4, <2>5, <2>6, LocalStep DEF Consistent, tables
<1>11. ASSUME NEW w \in Worker, NEW next, CountNothing(w, next),
              \/ req[w].op \in LikeOp /\ next = "select"
              \/ req[w].op = "post" /\ next = "author"
       PROVE TransactionInv'
  <2>1. /\ pc[w] = "count" /\ pc'[w] = next /\ VideoOf(w) \in deleted
        /\ UNCHANGED <<likes, live, erased, deleted, likeCount, commentCount, req, did, pending>>
    BY <1>11 DEF TypeOK, CountNothing, StepTo, Goto, tables
  <2>2. did[w] /\ pending[w] = NoCount
    BY <2>1 DEF TransactionInv, ProgressOK
  <2>3. ProgressOK(w)' /\ CountOK(w)'
    BY <1>11, <2>1, <2>2 DEF ProgressOK, CountOK, VideoOf
  <2>4. QED
    BY <1>11, <2>3, MoveStep DEF CountNothing
<1>12. ASSUME NEW w \in Worker, IncrementLikes(w) PROVE TransactionInv'
  <2>1. likeCount[VideoOf(w)] + 1 \in Nat /\ req[w].op = "put"
    BY <1>12 DEF IncrementLikes, WriteCount, CountNothing, StepTo, Goto, TypeOK, VideoOf, Request
  <2>2. QED
    BY <1>10, <1>11, <1>12, <2>1 DEF IncrementLikes
<1>13. ASSUME NEW w \in Worker, DecrementLikes(w) PROVE TransactionInv'
  <2>1. Decrement(likeCount[VideoOf(w)]) \in Nat /\ req[w].op = "unlike"
    BY <1>13 DEF DecrementLikes, WriteCount, CountNothing, StepTo, Goto, TypeOK, VideoOf, Request, Decrement
  <2>2. QED
    BY <1>10, <1>11, <1>13, <2>1 DEF DecrementLikes
<1>14. ASSUME NEW w \in Worker, IncrementComments(w) PROVE TransactionInv'
  <2>1. commentCount[VideoOf(w)] + 1 \in Nat /\ req[w].op = "post"
    BY <1>14 DEF IncrementComments, WriteCount, CountNothing, StepTo, Goto, TypeOK, VideoOf, Request
  <2>2. QED
    BY <1>10, <1>11, <1>14, <2>1 DEF IncrementComments
<1>15. ASSUME NEW w \in Worker, DecrementComments(w) PROVE TransactionInv'
  <2>1. Decrement(commentCount[VideoOf(w)]) \in Nat /\ req[w].op = "erase"
    BY <1>15 DEF DecrementComments, WriteCount, Goto, TypeOK, VideoOf, Request, Decrement
  <2>2. QED
    BY <1>10, <1>15, <2>1 DEF DecrementComments
<1>16. ASSUME NEW w \in Worker, SelectLikeCount(w) PROVE TransactionInv'
  <2>1. CASE Finish(w) /\ UNCHANGED tables
    BY <1>2, <2>1
  <2>2. CASE VideoOf(w) \notin deleted /\ StepTo(w, "select", "commit")
    <3>1. /\ pc[w] = "select" /\ pc'[w] = "commit" /\ VideoOf(w) \notin deleted
          /\ UNCHANGED <<likes, live, erased, deleted, likeCount, commentCount, req, did, pending>>
      BY <2>2 DEF TypeOK, StepTo, Goto, tables
    <3>2. ProgressOK(w)' /\ CountOK(w)'
      BY <3>1 DEF TransactionInv, ProgressOK, CountOK, VideoOf
    <3>3. QED
      BY <2>2, <3>2, MoveStep
  <2>3. QED
    BY <1>16, <2>1, <2>2 DEF SelectLikeCount
<1>17. ASSUME NEW w \in Worker, SelectAuthor(w) PROVE TransactionInv'
  <2>1. CASE Finish(w) /\ UNCHANGED tables
    BY <1>2, <2>1
  <2>2. CASE StepTo(w, "author", "commit")
    <3>1. /\ pc[w] = "author" /\ pc'[w] = "commit"
          /\ UNCHANGED <<likes, live, erased, deleted, likeCount, commentCount, req, did, pending>>
      BY <2>2 DEF TypeOK, StepTo, Goto, tables
    <3>2. ProgressOK(w)' /\ CountOK(w)'
      BY <3>1 DEF TransactionInv, ProgressOK, CountOK, VideoOf
    <3>3. QED
      BY <2>2, <3>2, MoveStep
  <2>3. QED
    BY <1>17, <2>1, <2>2 DEF SelectAuthor
<1>18. ASSUME NEW w \in Worker, InsertComment(w) PROVE TransactionInv'
  <2>1. /\ OthersWait(w) /\ pc[w] = "insertComment" /\ pc'[w] = "count"
        /\ req' = req /\ did'[w] = TRUE /\ pending' = pending /\ UNCHANGED tables
    BY <1>18 DEF TypeOK, InsertComment, Goto, OthersWait
  <2>2. req[w].op = "post" /\ pending[w] = NoCount
    BY <2>1 DEF TransactionInv, ProgressOK
  <2>3. ProgressOK(w)' /\ RowChangeOK(w)' /\ CountOK(w)' /\ OwnLocks(w)'
    BY <2>1, <2>2 DEF ProgressOK, RowChangeOK, CountOK, OwnLocks
  <2>4. FreshComment(w)'
    BY <2>1 DEF TransactionInv, FreshComment, tables
  <2>5. QED
    BY <2>1, <2>3, <2>4, LocalStep DEF Consistent, tables
<1>19. ASSUME NEW w \in Worker, EraseComment(w) PROVE TransactionInv'
  <2>1. /\ OthersWait(w) /\ pc[w] = "eraseComment" /\ ~CommentLocked(w)
        /\ req' = req /\ pending' = pending /\ UNCHANGED tables
        /\ \/ req[w].comment \in live /\ did'[w] /\ pc'[w] = "count"
           \/ ~did'[w] /\ pc'[w] = "commit"
    BY <1>19 DEF TypeOK, EraseComment, OthersWait
  <2>2. req[w].op = "erase" /\ pending[w] = NoCount
    BY <2>1 DEF TransactionInv, ProgressOK
  <2>3. ProgressOK(w)' /\ RowChangeOK(w)' /\ CountOK(w)' /\ FreshComment(w)'
    BY <2>1, <2>2 DEF ProgressOK, RowChangeOK, CountOK, FreshComment, tables
  <2>4. OwnLocks(w)'
    <3> SUFFICES ASSUME NEW x \in Worker \ {w}, did[x], req[x].op = "erase"
                 PROVE  req[w].comment # req[x].comment
      BY <2>1, <2>2 DEF OwnLocks, OthersWait
    <3>1. QED
      BY <2>1 DEF CommentLocked
  <2>5. QED
    BY <2>1, <2>3, <2>4, LocalStep DEF Consistent, tables
<1>20. ASSUME NEW w \in Worker, CommitLike(w) PROVE TransactionInv'
  <2> DEFINE v == VideoOf(w)
  <2>1. /\ pc[w] = "commit" /\ req[w].op \in LikeOp
        /\ UNCHANGED <<live, erased, deleted, commentCount>>
        /\ pc'[w] = "idle" /\ req'[w] = NoRequest /\ ~did'[w] /\ pending'[w] = NoCount
        /\ \A x \in Worker \ {w} : req'[x] = req[x] /\ did'[x] = did[x] /\ pending'[x] = pending[x]
    BY <1>20 DEF TypeOK, CommitLike, CommitWith
  <2>2. \A x \in Worker \ {w} :
           \/ pc'[x] = pc[x]
           \/ pc[x] = "awaitDelete" /\ pc'[x] = "select"
    BY <1>20 DEF TypeOK, CommitLike, CommitWith
  <2>3. \A x \in Worker \ {w} : pc'[x] = "awaitDelete" =>
           ~(did[w] /\ req[w].op = "unlike" /\ Key(x) = Key(w))
    BY <1>20 DEF TypeOK, CommitLike, CommitWith
  <2>4. LocksExclusive'
    BY <2>1 DEF TransactionInv, LocksExclusive, VideoOf, Key
  <2>5. NoRequest.op \notin LikeOp \cup CommentOp
    BY DEF NoRequest
  <2>6. Consistent(w)'
    BY <2>1, <2>5 DEF Consistent, ProgressOK, RowChangeOK, FreshComment, CountOK
  <2>7. ASSUME NEW x \in Worker, x # w PROVE Consistent(x)'
    <3>1. ProgressOK(x)'
      BY <2>1, <2>2, <2>7 DEF TransactionInv, ProgressOK
    <3>2. FreshComment(x)'
      BY <2>1, <2>5, <2>7 DEF TransactionInv, FreshComment
    <3>3. RowChangeOK(x)'
      <4>1. did[x] /\ did[w] /\ req[x].op \in LikeOp => Key(x) # Key(w)
        BY <2>1, <2>7 DEF TransactionInv, LocksExclusive
      <4>2. likes' = IF ~did[w] THEN likes
                     ELSE IF req[w].op = "put" THEN likes \cup {Key(w)} ELSE likes \ {Key(w)}
        BY <1>20 DEF CommitLike
      <4>3. Key(x)' = Key(x)
        BY <2>1, <2>7 DEF Key
      <4>4. pc'[x] = "awaitDelete" => Key(x) \in likes'
        BY <2>1, <2>2, <2>3, <2>7, <4>2 DEF TransactionInv, RowChangeOK
      <4>5. did[x] => /\ req[x].op = "put" => Key(x) \notin likes'
                      /\ req[x].op = "unlike" => Key(x) \in likes'
        BY <2>7, <4>1, <4>2 DEF TransactionInv, RowChangeOK
      <4>6. QED
        BY <2>1, <2>7, <4>3, <4>4, <4>5 DEF TransactionInv, RowChangeOK
    <3>4. CountOK(x)'
      <4>1. pending[x] # NoCount => likeCount'[VideoOf(x)] = likeCount[VideoOf(x)]
        <5>1. CASE pending[w] = NoCount
          BY <1>20, <5>1 DEF CommitLike, Counted
        <5>2. CASE pending[w] # NoCount
          <6>1. likeCount' = [likeCount EXCEPT ![v] = pending[w]]
            BY <1>20, <5>2 DEF CommitLike, Counted
          <6>2. pending[x] # NoCount => VideoOf(x) # v
            BY <2>7, <5>2 DEF TransactionInv, LocksExclusive, ProgressOK
          <6>3. QED
            BY <6>1, <6>2 DEF TypeOK
        <5>3. QED
          BY <5>1, <5>2
      <4>2. did[x] => pc'[x] = pc[x]
        BY <2>2, <2>7 DEF TransactionInv, ProgressOK
      <4>3. QED
        BY <2>1, <2>2, <2>7, <4>1, <4>2 DEF TransactionInv, CountOK, VideoOf, ProgressOK
    <3>5. QED
      BY <3>1, <3>2, <3>3, <3>4 DEF Consistent
  <2>8. QED
    BY <2>4, <2>6, <2>7 DEF TransactionInv, Consistent
<1>21. ASSUME NEW w \in Worker, CommitComment(w) PROVE TransactionInv'
  <2> DEFINE c == req[w].comment
  <2>1. /\ pc[w] = "commit" /\ req[w].op \in CommentOp
        /\ UNCHANGED <<likes, deleted, likeCount>>
        /\ pc'[w] = "idle" /\ req'[w] = NoRequest /\ ~did'[w] /\ pending'[w] = NoCount
        /\ \A x \in Worker \ {w} : /\ pc'[x] = pc[x] /\ req'[x] = req[x]
                                    /\ did'[x] = did[x] /\ pending'[x] = pending[x]
    BY <1>21 DEF TypeOK, CommitComment, CommitWith
  <2>2. \/ req[w].op = "post" /\ live' = live \cup {c} /\ erased' = erased
        \/ req[w].op = "erase" /\ did[w] /\ live' = live \ {c} /\ erased' = erased \cup {c}
        \/ live' = live /\ erased' = erased
    BY <1>21 DEF CommitComment
  <2>3. LocksExclusive'
    BY <2>1 DEF TransactionInv, LocksExclusive, VideoOf, Key
  <2>4. NoRequest.op \notin LikeOp \cup CommentOp
    BY DEF NoRequest
  <2>5. Consistent(w)'
    BY <2>1, <2>4 DEF Consistent, ProgressOK, RowChangeOK, FreshComment, CountOK
  <2>6. ASSUME NEW x \in Worker, x # w PROVE Consistent(x)'
    <3>1. ProgressOK(x)'
      BY <2>1, <2>6 DEF TransactionInv, ProgressOK
    <3>2. FreshComment(x)'
      <4>1. req[x].op = "post" /\ req[w].op = "post" => req[x].comment # c
        BY <2>6 DEF TransactionInv, FreshComment
      <4>2. req[w].op = "erase" /\ did[w] => c \in live
        BY DEF TransactionInv, RowChangeOK
      <4>3. req[x].op = "post" => req[x].comment \notin live' \cup erased'
        BY <2>2, <2>6, <4>1, <4>2 DEF TransactionInv, FreshComment
      <4>4. QED
        BY <2>1, <2>4, <2>6, <4>3 DEF TransactionInv, FreshComment
    <3>3. RowChangeOK(x)'
      <4>1. did[x] /\ did[w] /\ req[x].op = "erase" /\ req[w].op = "erase" => req[x].comment # c
        BY <2>6 DEF TransactionInv, LocksExclusive
      <4>2. did[x] /\ req[x].op = "erase" => req[x].comment \in live'
        BY <2>2, <2>6, <4>1 DEF TransactionInv, RowChangeOK
      <4>3. QED
        BY <2>1, <2>6, <4>2 DEF TransactionInv, RowChangeOK, Key
    <3>4. CountOK(x)'
      <4>1. pending[x] # NoCount => commentCount'[VideoOf(x)] = commentCount[VideoOf(x)]
        <5>1. CASE pending[w] = NoCount
          BY <1>21, <5>1 DEF CommitComment, Counted
        <5>2. CASE pending[w] # NoCount
          <6>1. commentCount' = [commentCount EXCEPT ![VideoOf(w)] = pending[w]]
            BY <1>21, <5>2 DEF CommitComment, Counted
          <6>2. pending[x] # NoCount => VideoOf(x) # VideoOf(w)
            BY <2>6, <5>2 DEF TransactionInv, LocksExclusive, ProgressOK
          <6>3. QED
            BY <6>1, <6>2 DEF TypeOK
        <5>3. QED
          BY <5>1, <5>2
      <4>2. QED
        BY <2>1, <2>6, <4>1 DEF TransactionInv, CountOK, VideoOf
    <3>5. QED
      BY <3>1, <3>2, <3>3, <3>4 DEF Consistent
  <2>7. QED
    BY <2>3, <2>5, <2>6 DEF TransactionInv, Consistent
<1>22. ASSUME NEW w \in Worker, SoftDelete(w) PROVE TransactionInv'
  <2>1. CASE VideoOf(w) \in deleted
    BY <1>2, <1>22, <2>1 DEF SoftDelete, tables
  <2>2. CASE VideoOf(w) \notin deleted
    <3>1. /\ OthersWait(w) /\ VideoFree(w) /\ deleted' = deleted \cup {VideoOf(w)}
          /\ UNCHANGED <<likes, live, erased, likeCount, commentCount>>
          /\ pc'[w] = "idle" /\ req'[w] = NoRequest /\ ~did'[w] /\ pending'[w] = NoCount
      BY <1>22, <2>2 DEF TypeOK, SoftDelete, Finish, OthersWait
    <3>2. NoRequest.op \notin LikeOp \cup CommentOp
      BY DEF NoRequest
    <3>3. LocksExclusive'
      BY <3>1 DEF TransactionInv, LocksExclusive, OthersWait, VideoOf, Key
    <3>4. Consistent(w)'
      BY <3>1, <3>2 DEF Consistent, ProgressOK, RowChangeOK, FreshComment, CountOK
    <3>5. ASSUME NEW x \in Worker, x # w PROVE Consistent(x)'
      <4>1. pc'[x] = pc[x] /\ req'[x] = req[x] /\ did'[x] = did[x] /\ pending'[x] = pending[x]
        BY <3>1, <3>5 DEF OthersWait
      <4>2. ProgressOK(x)' /\ RowChangeOK(x)'
        BY <3>1, <4>1 DEF TransactionInv, ProgressOK, RowChangeOK, Key
      <4>3. FreshComment(x)'
        BY <3>1, <3>2, <3>5, <4>1 DEF TransactionInv, FreshComment, OthersWait
      <4>4. CountOK(x)'
        BY <3>1, <3>5, <4>1 DEF TransactionInv, CountOK, VideoOf, VideoFree
      <4>5. QED
        BY <4>2, <4>3, <4>4 DEF Consistent
    <3>6. QED
      BY <3>3, <3>4, <3>5 DEF TransactionInv, Consistent
  <2>3. QED
    BY <2>1, <2>2
<1>23. ASSUME NEW w \in Worker, UpdateStatus(w) PROVE TransactionInv'
  <2>1. CASE Finish(w)
    BY <1>23, <2>1, FinishStep DEF UpdateStatus
  <2>2. CASE Goto(w, "setStatus", "reread") /\ UNCHANGED <<req, did, pending>>
    <3>1. /\ OthersWait(w) /\ pc[w] = "setStatus" /\ pc'[w] = "reread"
          /\ UNCHANGED <<likes, live, erased, deleted, likeCount, commentCount, req, did, pending>>
      BY <1>23, <2>2 DEF TypeOK, UpdateStatus, Goto, OthersWait
    <3>2. Consistent(w)' /\ OwnLocks(w)'
      BY <3>1 DEF TransactionInv, LocksExclusive, OwnLocks, Consistent, ProgressOK, RowChangeOK,
                  FreshComment, CountOK, VideoOf, Key
    <3>3. QED
      BY <3>1, <3>2, LocalStep
  <2>3. QED
    BY <1>23, <2>1, <2>2 DEF UpdateStatus
<1>24. ASSUME UNCHANGED <<likes, live, erased, deleted, likeCount, commentCount,
                          pc, req, did, pending>>
       PROVE  TransactionInv'
  BY <1>24 DEF TransactionInv, LocksExclusive, ProgressOK, RowChangeOK, FreshComment, CountOK,
               VideoOf, Key
<1>25. QED
  <2>1. ASSUME NEW w \in Worker, Abort(w) \/ Reread(w) PROVE TransactionInv'
    BY <1>2, <2>1 DEF Abort, Reread
  <2>2. ASSUME NEW u \in User, SoftDeleteUser(u) PROVE TransactionInv'
    BY <1>24, <2>2 DEF SoftDeleteUser
  <2>3. CASE UNCHANGED vars
    BY <1>24, <2>3 DEF vars, tables
  <2>4. QED
    BY <1>1, <1>4, <1>5, <1>6, <1>7, <1>8, <1>9, <1>12, <1>13, <1>14, <1>15, <1>16, <1>17,
       <1>18, <1>19, <1>20, <1>21, <1>22, <1>23, <2>1, <2>2, <2>3
       DEF Next, Proceed, Blocking

\* In every reachable state no two transactions hold the same row, and what
\* each of them will commit fits the committed tables.
THEOREM TransactionsConsistent == Spec => []TransactionInv
<1>1. Init => TransactionInv
  BY DEF Init, TransactionInv, LocksExclusive, ProgressOK, RowChangeOK, FreshComment, CountOK,
         NoRequest, LikeOp, CommentOp
<1>2. QED
  BY <1>1, TypeCorrect, TransactionStep, PTL DEF Spec

-----------------------------------------------------------------------------
(* The counters.                                                            *)

LEMMA LikersFinite ==
  ASSUME NEW v
  PROVE  IsFiniteSet(Likers(v)) /\ Cardinality(Likers(v)) \in Nat
<1>1. Likers(v) \in SUBSET User
  BY DEF Likers
<1>2. IsFiniteSet(Likers(v))
  BY <1>1, FiniteTables, FS_Subset
<1>3. QED
  BY <1>2, FS_CardinalityType

\* A committed insert or delete moves the number of likers with the counter.
LEMMA CommitLikeCounts ==
  ASSUME TypeOK, TransactionInv, LikeCountExact, NEW w \in Worker, CommitLike(w)
  PROVE  LikeCountExact'
<1> DEFINE u == req[w].user
<1> USE DEF LikeOp
<1>1. /\ pc[w] = "commit" /\ req[w].op \in LikeOp /\ VideoOf(w) \in Video /\ u \in User
      /\ Key(w) = <<VideoOf(w), u>>
  BY DEF CommitLike, CommitWith, TypeOK, Request, VideoOf, Key
<1>2. SUFFICES ASSUME NEW v \in Video PROVE likeCount'[v] = Cardinality(Likers(v)')
  BY DEF LikeCountExact
<1>3. likeCount[v] = Cardinality(Likers(v)) /\ likeCount[v] \in Nat
  BY DEF LikeCountExact, TypeOK
<1>4. CASE ~did[w]
  <2>1. pending[w] = NoCount
    BY <1>4 DEF TransactionInv, ProgressOK
  <2>2. likes' = likes /\ likeCount' = likeCount
    BY <1>4, <2>1 DEF CommitLike, Counted
  <2>3. QED
    BY <1>3, <2>2 DEF Likers
<1>5. CASE did[w]
  <2>1. pending[w] # NoCount
    BY <1>1, <1>5 DEF TransactionInv, CountOK
  <2>2. likeCount' = [likeCount EXCEPT ![VideoOf(w)] = pending[w]]
    BY <2>1 DEF CommitLike, Counted
  <2>3. CASE v # VideoOf(w)
    <3>1. likeCount'[v] = likeCount[v]
      BY <2>2, <2>3 DEF TypeOK
    <3>2. Likers(v)' = Likers(v)
      BY <1>1, <2>3 DEF Likers, CommitLike
    <3>3. QED
      BY <1>3, <3>1, <3>2
  <2>4. CASE v = VideoOf(w) /\ req[w].op = "put"
    <3>1. likeCount'[v] = likeCount[v] + 1
      BY <1>1, <2>1, <2>2, <2>4 DEF TypeOK, TransactionInv, CountOK
    <3>2. u \notin Likers(v) /\ Likers(v)' = Likers(v) \cup {u}
      BY <1>1, <1>5, <2>4 DEF TransactionInv, RowChangeOK, Likers, CommitLike
    <3>3. Cardinality(Likers(v) \cup {u}) = Cardinality(Likers(v)) + 1
      BY <3>2, LikersFinite, FS_AddElement
    <3>4. QED
      BY <1>3, <3>1, <3>2, <3>3
  <2>5. CASE v = VideoOf(w) /\ req[w].op = "unlike"
    <3>1. u \in Likers(v) /\ Likers(v)' = Likers(v) \ {u}
      BY <1>1, <1>5, <2>5 DEF TransactionInv, RowChangeOK, Likers, CommitLike
    <3>2. Cardinality(Likers(v) \ {u}) = Cardinality(Likers(v)) - 1
      BY <3>1, LikersFinite, FS_RemoveElement
    <3>3. likeCount[v] # 0
      BY <1>3, <3>1, LikersFinite, FS_EmptySet
    <3>4. likeCount'[v] = likeCount[v] - 1
      BY <1>1, <2>1, <2>2, <2>5, <3>3 DEF TypeOK, TransactionInv, CountOK, Decrement
    <3>5. QED
      BY <1>3, <3>1, <3>2, <3>4
  <2>6. QED
    BY <1>1, <2>3, <2>4, <2>5
<1>6. QED
  BY <1>4, <1>5

\* Every step that is not the commit of a like leaves likes and counters alone.
LEMMA LikesUntouched ==
  ASSUME [Next]_vars, \A w \in Worker : ~CommitLike(w)
  PROVE  UNCHANGED <<likes, likeCount>>
<1> USE DEF tables, StepTo, Refuse
<1>1. CASE UNCHANGED vars
  BY <1>1 DEF vars
<1>2. ASSUME NEW w \in Worker, NEW r \in Request, Receive(w, r) PROVE UNCHANGED <<likes, likeCount>>
  BY <1>2 DEF Receive
<1>3. ASSUME NEW w \in Worker, Proceed(w), ~CommitLike(w) PROVE UNCHANGED <<likes, likeCount>>
  BY <1>3 DEF Proceed, RequireAccessibleVideo, CheckErase, CheckManage, DeleteLike, SelectLikeCount,
              InsertComment, SelectAuthor, CommitComment, Reread
<1>4. ASSUME NEW w \in Worker, Blocking(w) PROVE UNCHANGED <<likes, likeCount>>
  BY <1>4 DEF Blocking, InsertLike, ResumeDelete, IncrementLikes, DecrementLikes, IncrementComments,
              EraseComment, DecrementComments, SoftDelete, UpdateStatus, WriteCount, CountNothing
<1>5. ASSUME NEW w \in Worker, Abort(w) PROVE UNCHANGED <<likes, likeCount>>
  BY <1>5 DEF Abort
<1>6. ASSUME NEW u \in User, SoftDeleteUser(u) PROVE UNCHANGED <<likes, likeCount>>
  BY <1>6 DEF SoftDeleteUser
<1>7. QED
  BY <1>1, <1>2, <1>3, <1>4, <1>5, <1>6 DEF Next

\* The like counter of every video row is the number of its likes, for any
\* number of users, videos and concurrent requests.
THEOREM LikeCountsExact == Spec => []LikeCountExact
<1>1. Init => LikeCountExact
  <2> SUFFICES ASSUME Init, NEW v \in Video PROVE likeCount[v] = Cardinality(Likers(v))
    BY DEF LikeCountExact
  <2>1. Likers(v) = {} /\ likeCount[v] = 0
    BY DEF Init, Likers
  <2>2. QED
    BY <2>1, FS_EmptySet
<1>2. TypeOK /\ TransactionInv /\ LikeCountExact /\ [Next]_vars => LikeCountExact'
  <2> SUFFICES ASSUME TypeOK, TransactionInv, LikeCountExact, [Next]_vars PROVE LikeCountExact'
    OBVIOUS
  <2>1. CASE \E w \in Worker : CommitLike(w)
    BY <2>1, CommitLikeCounts
  <2>2. CASE \A w \in Worker : ~CommitLike(w)
    <3>1. likes' = likes /\ likeCount' = likeCount
      BY <2>2, LikesUntouched
    <3>2. QED
      BY <3>1 DEF LikeCountExact, Likers
  <2>3. QED
    BY <2>1, <2>2
<1>3. QED
  BY <1>1, <1>2, TypeCorrect, TransactionsConsistent, PTL DEF Spec

LEMMA CommentsFinite ==
  ASSUME TypeOK, NEW v
  PROVE  IsFiniteSet(CommentsOf(v)) /\ Cardinality(CommentsOf(v)) \in Nat
<1>1. CommentsOf(v) \in SUBSET Comment
  BY DEF CommentsOf, TypeOK
<1>2. IsFiniteSet(CommentsOf(v))
  BY <1>1, FiniteTables, FS_Subset
<1>3. QED
  BY <1>2, FS_CardinalityType

\* The relation between one video's counter and its live comments.
Sound(v, n, C) == n <= Cardinality(C) /\ (v \notin deleted => n = Cardinality(C))

\* Commits of comments keep it, counted or not.
LEMMA CommitCommentCounts ==
  ASSUME TypeOK, TransactionInv, CommentCountSound, NEW w \in Worker, CommitComment(w)
  PROVE  CommentCountSound'
<1> DEFINE c == req[w].comment
<1> USE DEF CommentOp
<1>1. /\ pc[w] = "commit" /\ req[w].op \in CommentOp /\ c \in Comment
      /\ VideoOf(w) \in Video /\ VideoOf(w) = CommentOn[c] /\ deleted' = deleted
  BY DEF CommitComment, CommitWith, TypeOK, Request, VideoOf, WellFormed
<1>2. SUFFICES ASSUME NEW v \in Video PROVE Sound(v, commentCount'[v], CommentsOf(v)')
  BY <1>1 DEF CommentCountSound, Sound
<1>3. Sound(v, commentCount[v], CommentsOf(v)) /\ commentCount[v] \in Nat
  BY DEF CommentCountSound, Sound, TypeOK
<1>4. Cardinality(CommentsOf(v)) \in Nat /\ IsFiniteSet(CommentsOf(v))
  BY CommentsFinite
<1>5. CASE v # VideoOf(w)
  <2>1. commentCount'[v] = commentCount[v]
    BY <1>5 DEF CommitComment, Counted, TypeOK
  <2>2. CommentsOf(v)' = CommentsOf(v)
    BY <1>1, <1>5 DEF CommentsOf, CommitComment
  <2>3. QED
    BY <1>3, <2>1, <2>2
<1>6. CASE v = VideoOf(w) /\ req[w].op = "post"
  <2>1. c \notin CommentsOf(v) /\ CommentsOf(v)' = CommentsOf(v) \cup {c}
    BY <1>1, <1>6 DEF TransactionInv, FreshComment, CommentsOf, CommitComment
  <2>2. Cardinality(CommentsOf(v)') = Cardinality(CommentsOf(v)) + 1
    BY <1>4, <2>1, FS_AddElement
  <2>3. CASE pending[w] # NoCount
    <3>1. v \notin deleted /\ commentCount'[v] = commentCount[v] + 1
      BY <1>1, <1>6, <2>3 DEF TransactionInv, CountOK, CommitComment, Counted, TypeOK
    <3>2. QED
      BY <1>3, <1>4, <2>2, <3>1 DEF Sound
  <2>4. CASE pending[w] = NoCount
    <3>1. v \in deleted /\ commentCount'[v] = commentCount[v]
      BY <1>1, <1>6, <2>4 DEF TransactionInv, ProgressOK, CountOK, LikeOp, CommitComment, Counted
    <3>2. QED
      BY <1>3, <1>4, <2>2, <3>1 DEF Sound
  <2>5. QED
    BY <2>3, <2>4
<1>7. CASE v = VideoOf(w) /\ req[w].op = "erase" /\ did[w]
  <2>1. c \in CommentsOf(v) /\ CommentsOf(v)' = CommentsOf(v) \ {c}
    BY <1>1, <1>7 DEF TransactionInv, RowChangeOK, CommentsOf, CommitComment
  <2>2. Cardinality(CommentsOf(v)') = Cardinality(CommentsOf(v)) - 1
    BY <1>4, <2>1, FS_RemoveElement
  <2>3. Cardinality(CommentsOf(v)) # 0
    BY <1>4, <2>1, FS_EmptySet
  <2>4. pending[w] # NoCount
    BY <1>1, <1>7 DEF TransactionInv, CountOK, LikeOp
  <2>5. commentCount'[v] = Decrement(commentCount[v])
    BY <1>1, <1>7, <2>4 DEF TransactionInv, CountOK, CommitComment, Counted, TypeOK
  <2>6. QED
    BY <1>3, <1>4, <2>2, <2>3, <2>5 DEF Sound, Decrement
<1>8. CASE v = VideoOf(w) /\ req[w].op = "erase" /\ ~did[w]
  <2>1. commentCount'[v] = commentCount[v]
    BY <1>8 DEF TransactionInv, ProgressOK, CommitComment, Counted
  <2>2. CommentsOf(v)' = CommentsOf(v)
    BY <1>1, <1>8 DEF CommentsOf, CommitComment
  <2>3. QED
    BY <1>3, <2>1, <2>2
<1>9. QED
  BY <1>1, <1>5, <1>6, <1>7, <1>8

\* Every other step leaves comments and counters alone; videos stay deleted.
LEMMA CommentsUntouched ==
  ASSUME [Next]_vars, \A w \in Worker : ~CommitComment(w)
  PROVE  UNCHANGED <<live, erased, commentCount>> /\ deleted \subseteq deleted'
<1> DEFINE Same == UNCHANGED <<live, erased, commentCount>> /\ deleted \subseteq deleted'
<1> USE DEF tables, StepTo, Refuse
<1>1. CASE UNCHANGED vars
  BY <1>1 DEF vars
<1>2. ASSUME NEW w \in Worker, NEW r \in Request, Receive(w, r) PROVE Same
  BY <1>2 DEF Receive
<1>3. ASSUME NEW w \in Worker, Proceed(w), ~CommitComment(w) PROVE Same
  BY <1>3 DEF Proceed, RequireAccessibleVideo, CheckErase, CheckManage, DeleteLike, SelectLikeCount,
              InsertComment, SelectAuthor, CommitLike, CommitWith, Reread
<1>4. ASSUME NEW w \in Worker, Blocking(w) PROVE Same
  BY <1>4 DEF Blocking, InsertLike, ResumeDelete, IncrementLikes, DecrementLikes, IncrementComments,
              EraseComment, DecrementComments, SoftDelete, UpdateStatus, WriteCount, CountNothing
<1>5. ASSUME NEW w \in Worker, Abort(w) PROVE Same
  BY <1>5 DEF Abort
<1>6. ASSUME NEW u \in User, SoftDeleteUser(u) PROVE Same
  BY <1>6 DEF SoftDeleteUser
<1>7. QED
  BY <1>1, <1>2, <1>3, <1>4, <1>5, <1>6 DEF Next

\* The comment counter of a video is exact until the video is deleted and
\* afterwards never more than its live comments.
THEOREM CommentCountsSound == Spec => []CommentCountSound
<1>1. Init => CommentCountSound
  <2> SUFFICES ASSUME Init, NEW v \in Video
               PROVE  commentCount[v] = 0 /\ Cardinality(CommentsOf(v)) = 0
    BY DEF CommentCountSound
  <2>1. CommentsOf(v) = {} /\ commentCount[v] = 0
    BY DEF Init, CommentsOf
  <2>2. QED
    BY <2>1, FS_EmptySet
<1>2. TypeOK /\ TransactionInv /\ CommentCountSound /\ [Next]_vars => CommentCountSound'
  <2> SUFFICES ASSUME TypeOK, TransactionInv, CommentCountSound, [Next]_vars
               PROVE  CommentCountSound'
    OBVIOUS
  <2>1. CASE \E w \in Worker : CommitComment(w)
    BY <2>1, CommitCommentCounts
  <2>2. CASE \A w \in Worker : ~CommitComment(w)
    <3>1. live' = live /\ commentCount' = commentCount /\ deleted \subseteq deleted'
      BY <2>2, CommentsUntouched
    <3>2. QED
      BY <3>1 DEF CommentCountSound, CommentsOf
  <2>3. QED
    BY <2>1, <2>2
<1>3. QED
  BY <1>1, <1>2, TypeCorrect, TransactionsConsistent, PTL DEF Spec

\* No transaction changes the likes of a video that is deleted when it commits.
THEOREM DeletedVideosKeepLikes == Spec => DeletedVideoKeepsLikes
<1> DEFINE Kept == \A v \in deleted, u \in User : <<v, u>> \in likes' <=> <<v, u>> \in likes
<1>1. TypeOK /\ TransactionInv /\ [Next]_vars => [Kept]_vars
  <2> SUFFICES ASSUME TypeOK, TransactionInv, [Next]_vars PROVE Kept
    OBVIOUS
  <2>1. ASSUME NEW w \in Worker, CommitLike(w) PROVE Kept
    <3>1. CASE ~did[w]
      BY <2>1, <3>1 DEF CommitLike
    <3>2. CASE did[w]
      <4>1. pc[w] = "commit" /\ req[w].op \in LikeOp
        BY <2>1 DEF CommitLike, CommitWith
      <4>2. VideoOf(w) \notin deleted
        BY <3>2, <4>1 DEF TransactionInv, CountOK, LikeOp
      <4>3. QED
        BY <2>1, <4>2 DEF CommitLike, Key, VideoOf
    <3>3. QED
      BY <3>1, <3>2
  <2>2. CASE \A w \in Worker : ~CommitLike(w)
    BY <2>2, LikesUntouched
  <2>3. QED
    BY <2>1, <2>2
<1>2. QED
  BY <1>1, TypeCorrect, TransactionsConsistent, PTL DEF Spec, DeletedVideoKeepsLikes

\* A like request that goes on without a change of its own finds what it asks
\* for, at once or by the commit it waited for.
THEOREM AnswersTruthful == Spec => AnswerTruthful
<1> DEFINE Truthful(w) == pc[w] # "select" /\ pc'[w] = "select" /\ ~did'[w]
                            => Sought(w) \/ Sought(w)'
<1>1. TypeOK /\ TransactionInv /\ [Next]_vars => [\A w \in Worker : Truthful(w)]_vars
  <2> SUFFICES ASSUME TypeOK, TransactionInv, Next, NEW w \in Worker,
                      pc[w] # "select", pc'[w] = "select", ~did'[w]
               PROVE  Sought(w) \/ Sought(w)'
    OBVIOUS
  <2>1. CASE InsertLike(w)
    BY <2>1 DEF TypeOK, TransactionInv, ProgressOK, InsertLike, Sought
  <2>2. CASE DeleteLike(w)
    BY <2>2 DEF TypeOK, TransactionInv, ProgressOK, DeleteLike, Sought
  <2>3. CASE IncrementLikes(w) \/ DecrementLikes(w)
    <3>1. pc[w] = "count" /\ did'[w] = did[w]
      BY <2>3 DEF IncrementLikes, DecrementLikes, WriteCount, CountNothing, StepTo, Goto
    <3> QED
      BY <3>1 DEF TransactionInv, ProgressOK
  <2>4. ASSUME NEW x \in Worker, CommitLike(x)
        PROVE  Sought(w)'
    <3>1. /\ x # w /\ did[x] /\ req[x].op = "unlike"
          /\ pc[w] = "awaitDelete" /\ Key(x) = Key(w)
      BY <2>4 DEF TypeOK, CommitLike, CommitWith
    <3>2. likes' = likes \ {Key(w)} /\ req'[w] = req[w] /\ req[w].op = "unlike"
      BY <2>4, <3>1 DEF TypeOK, CommitLike, CommitWith, TransactionInv, ProgressOK
    <3> QED
      BY <3>2 DEF Sought, Key
  <2>5. ASSUME NEW x \in Worker,
               \/ \E r \in Request : Receive(x, r)
               \/ RequireAccessibleVideo(x) \/ CheckErase(x) \/ CheckManage(x)
               \/ InsertComment(x) \/ SelectAuthor(x) \/ CommitComment(x) \/ Reread(x)
        PROVE  FALSE
    <3>1. pc = [y \in Worker |-> pc[y]]
      BY DEF TypeOK
    <3>2. ~RequireAccessibleVideo(x)
      <4>1. \A o \in LikeOp \cup {"post"} : FirstStatement[o] # "select"
        BY DEF LikeOp, FirstStatement
      <4> QED
        BY <3>1, <4>1 DEF RequireAccessibleVideo, Refuse, StepTo, Goto, Finish
    <3>3. ~CommitComment(x)
      BY <3>1 DEF CommitComment, CommitWith
    <3>4. ASSUME NEW r \in Request PROVE ~Receive(x, r)
      BY <3>1 DEF Receive
    <3>5. ~CheckErase(x) /\ ~CheckManage(x)
      BY <3>1 DEF CheckErase, CheckManage, Refuse, StepTo, Goto, Finish
    <3>6. ~InsertComment(x) /\ ~SelectAuthor(x) /\ ~Reread(x)
      BY <3>1 DEF InsertComment, SelectAuthor, Reread, StepTo, Goto, Finish
    <3> QED
      BY <2>5, <3>2, <3>3, <3>4, <3>5, <3>6
  <2>6. ASSUME NEW x \in Worker,
               \/ ResumeDelete(x) \/ IncrementComments(x) \/ EraseComment(x)
               \/ DecrementComments(x) \/ SoftDelete(x) \/ UpdateStatus(x) \/ Abort(x)
               \/ SelectLikeCount(x)
        PROVE  FALSE
    BY <2>6 DEF TypeOK, ResumeDelete, IncrementComments, EraseComment, DecrementComments,
                SoftDelete, UpdateStatus, Abort, SelectLikeCount, WriteCount, CountNothing,
                StepTo, Goto, Finish
  <2>7. ASSUME NEW x \in Worker, x # w,
               InsertLike(x) \/ DeleteLike(x) \/ IncrementLikes(x) \/ DecrementLikes(x)
        PROVE  FALSE
    BY <2>7 DEF TypeOK, InsertLike, DeleteLike, IncrementLikes, DecrementLikes, WriteCount,
                CountNothing, StepTo, Goto
  <2>8. ASSUME NEW u \in User, SoftDeleteUser(u)
        PROVE  FALSE
    BY <2>8 DEF SoftDeleteUser
  <2>9. ASSUME NEW x \in Worker, Proceed(x)
        PROVE  Sought(w) \/ Sought(w)'
    BY <2>2, <2>4, <2>5, <2>6, <2>7, <2>9 DEF Proceed
  <2>10. ASSUME NEW x \in Worker, Blocking(x)
         PROVE  Sought(w) \/ Sought(w)'
    BY <2>1, <2>3, <2>6, <2>7, <2>10 DEF Blocking
  <2> QED
    BY <2>5, <2>6, <2>8, <2>9, <2>10 DEF Next
<1>2. QED
  BY <1>1, TypeCorrect, TransactionsConsistent, PTL DEF Spec, AnswerTruthful

-----------------------------------------------------------------------------
(* Refinement.                                                              *)

\* A committed like request is one indivisible step of the promise, or none.
LEMMA CommitLikeRefines ==
  ASSUME TypeOK, TransactionInv, LikeCountExact, NEW w \in Worker, CommitLike(w)
  PROVE  [Promise!ANext]_(Promise!aVars)
<1> USE DEF LikeOp
<1>0. PICK v \in Video, u \in User : v = VideoOf(w) /\ u = req[w].user
  BY DEF CommitLike, CommitWith, TypeOK, Request, VideoOf
<1>1. /\ pc[w] = "commit" /\ req[w].op \in LikeOp /\ Key(w) = <<v, u>>
      /\ UNCHANGED <<live, erased, deleted, commentCount>>
  BY <1>0 DEF CommitLike, CommitWith, VideoOf, Key
<1>2. CASE ~did[w]
  <2>1. pending[w] = NoCount
    BY <1>2 DEF TransactionInv, ProgressOK
  <2>2. likes' = likes /\ likeCount' = likeCount
    BY <1>2, <2>1 DEF CommitLike, Counted
  <2>3. QED
    BY <1>1, <2>2 DEF Promise!aVars
<1>3. CASE did[w]
  <2>1. pending[w] # NoCount /\ v \notin deleted
    BY <1>0, <1>1, <1>3 DEF TransactionInv, CountOK
  <2>2. likeCount' = [likeCount EXCEPT ![v] = pending[w]]
    BY <1>0, <2>1 DEF CommitLike, Counted
  <2>3. pending[w] = Cardinality(Promise!LikersIn(likes', v))
    <3>1. LikeCountExact'
      BY CommitLikeCounts
    <3>2. likeCount'[v] = pending[w]
      BY <2>2 DEF TypeOK
    <3>3. Likers(v)' = Promise!LikersIn(likes', v)
      BY DEF Likers, Promise!LikersIn
    <3>4. QED
      BY <3>1, <3>2, <3>3 DEF LikeCountExact
  <2>4. Promise!ASetLikes(v, likes')
    BY <1>1, <2>1, <2>2, <2>3 DEF Promise!ASetLikes
  <2>5. CASE req[w].op = "put"
    BY <1>1, <1>3, <2>4, <2>5
       DEF TransactionInv, RowChangeOK, CommitLike, Promise!ALike, Promise!ANext
  <2>6. CASE req[w].op = "unlike"
    BY <1>1, <1>3, <2>4, <2>6
       DEF TransactionInv, RowChangeOK, CommitLike, Promise!AUnlike, Promise!ANext
  <2>7. QED
    BY <1>1, <2>5, <2>6
<1>4. QED
  BY <1>2, <1>3

\* So is a committed comment request.
LEMMA CommitCommentRefines ==
  ASSUME TypeOK, TransactionInv, CommentCountSound, NEW w \in Worker, CommitComment(w)
  PROVE  [Promise!ANext]_(Promise!aVars)
<1> USE DEF CommentOp
<1>0. PICK c \in Comment, v \in Video : c = req[w].comment /\ v = VideoOf(w) /\ v = CommentOn[c]
  BY DEF CommitComment, CommitWith, TypeOK, Request, VideoOf, WellFormed
<1>1. /\ pc[w] = "commit" /\ req[w].op \in CommentOp
      /\ UNCHANGED <<likes, deleted, likeCount>>
  BY DEF CommitComment, CommitWith
<1>2. Promise!ASetComments(v, live')
  <2>1. CommentsOf(v)' = Promise!CommentsIn(live', v)
    BY DEF CommentsOf, Promise!CommentsIn
  <2>2. IsFiniteSet(CommentsOf(v)') /\ Cardinality(CommentsOf(v)') \in Nat
    <3>1. CommentsOf(v)' \in SUBSET Comment
      BY <1>0 DEF CommentsOf, CommitComment, TypeOK
    <3>2. QED
      BY <3>1, FiniteTables, FS_Subset, FS_CardinalityType
  <2>3. /\ commentCount'[v] <= Cardinality(CommentsOf(v)')
        /\ v \notin deleted => commentCount'[v] = Cardinality(CommentsOf(v)')
    <3>1. CommentCountSound'
      BY CommitCommentCounts
    <3>2. QED
      BY <1>1, <3>1 DEF CommentCountSound
  <2>4. commentCount'[v] \in Nat /\ commentCount' = [commentCount EXCEPT ![v] = commentCount'[v]]
    BY <1>0, <1>1 DEF CommitComment, Counted, TypeOK, NoCount
  <2>5. commentCount'[v] \in 0 .. Cardinality(CommentsOf(v)')
    BY <2>2, <2>3, <2>4
  <2>6. QED
    BY <1>1, <2>1, <2>3, <2>4, <2>5 DEF Promise!ASetComments
<1>3. CASE req[w].op = "post"
  <2>1. c \notin live \cup erased /\ live' = live \cup {c} /\ erased' = erased
    BY <1>0, <1>3 DEF TransactionInv, FreshComment, CommitComment
  <2>2. QED
    BY <1>0, <1>1, <1>2, <2>1 DEF Promise!APost, Promise!ANext
<1>4. CASE req[w].op = "erase" /\ did[w]
  <2>1. c \in live /\ live' = live \ {c} /\ erased' = erased \cup {c}
    BY <1>0, <1>4 DEF TransactionInv, RowChangeOK, CommitComment
  <2>2. QED
    BY <1>0, <1>1, <1>2, <2>1 DEF Promise!AErase, Promise!ANext
<1>5. CASE req[w].op = "erase" /\ ~did[w]
  <2>1. UNCHANGED <<live, erased, commentCount>>
    BY <1>5 DEF TransactionInv, ProgressOK, CommitComment, Counted
  <2>2. QED
    BY <1>1, <2>1 DEF Promise!aVars
<1>6. QED
  BY <1>1, <1>3, <1>4, <1>5

\* Every other step deletes a video or changes nothing the promise speaks of.
LEMMA OtherStepRefines ==
  ASSUME TypeOK, [Next]_vars, \A w \in Worker : ~CommitLike(w) /\ ~CommitComment(w)
  PROVE  [Promise!ANext]_(Promise!aVars)
<1>1. UNCHANGED <<likes, likeCount, live, erased, commentCount>>
  BY LikesUntouched, CommentsUntouched
<1>2. deleted' = deleted \/ \E v \in Video : deleted' = deleted \cup {v}
  <2> USE DEF tables, StepTo, Refuse
  <2>1. CASE UNCHANGED vars
    BY <2>1 DEF vars
  <2>2. ASSUME NEW w \in Worker, NEW r \in Request, Receive(w, r) PROVE deleted' = deleted
    BY <2>2 DEF Receive
  <2>3. ASSUME NEW w \in Worker, Proceed(w), ~CommitLike(w), ~CommitComment(w)
        PROVE  deleted' = deleted
    BY <2>3 DEF Proceed, RequireAccessibleVideo, CheckErase, CheckManage, DeleteLike,
                SelectLikeCount, InsertComment, SelectAuthor, Reread
  <2>4. ASSUME NEW w \in Worker, Blocking(w), ~SoftDelete(w) PROVE deleted' = deleted
    BY <2>4 DEF Blocking, InsertLike, ResumeDelete, IncrementLikes, DecrementLikes,
                IncrementComments, EraseComment, DecrementComments, UpdateStatus, WriteCount, CountNothing
  <2>5. ASSUME NEW w \in Worker, SoftDelete(w)
        PROVE  deleted' = deleted \/ \E v \in Video : deleted' = deleted \cup {v}
    BY <2>5 DEF SoftDelete, TypeOK, VideoOf, Request
  <2>6. ASSUME NEW w \in Worker, Abort(w) PROVE deleted' = deleted
    BY <2>6 DEF Abort
  <2>7. ASSUME NEW u \in User, SoftDeleteUser(u) PROVE deleted' = deleted
    BY <2>7 DEF SoftDeleteUser
  <2>8. QED
    BY <2>1, <2>2, <2>3, <2>4, <2>5, <2>6, <2>7 DEF Next
<1>3. QED
  BY <1>1, <1>2 DEF Promise!ANext, Promise!AWithdraw, Promise!aVars

\* The transactions implement the indivisible likes and comments of the API.
THEOREM EngagementImplementsPromise == Spec => PromiseKept
<1>1. Init => Promise!AInit
  BY DEF Init, Promise!AInit
<1>2. TypeOK /\ TransactionInv /\ LikeCountExact /\ CommentCountSound /\ [Next]_vars
      => [Promise!ANext]_(Promise!aVars)
  BY CommitLikeRefines, CommitCommentRefines, OtherStepRefines
<1>3. QED
  BY <1>1, <1>2, TypeCorrect, TransactionsConsistent, LikeCountsExact, CommentCountsSound, PTL
     DEF Spec, PromiseKept, Promise!ASpec
=============================================================================
