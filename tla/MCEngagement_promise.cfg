\* Two concurrent requests of every kind that counts, fair.
SPECIFICATION FairSpec
CONSTANTS
  t = t
  s = s
  ct = ct
  cs = cs
  v1 = v1
  User <- MCUser
  Teacher <- MCTeacher
  Video = {v1}
  Uploader <- MCUploader
  Comment = {cs}
  CommentOn <- MCCommentOn
  CommentBy <- MCCommentBy
  Worker = {w1, w2}
  NoComment = NoComment
  Op = {"put", "unlike", "post", "erase", "withdraw", "publish", "hide"}
INVARIANTS LikeCountExact CommentCountSound
PROPERTIES DeletedVideoKeepsLikes AnswerTruthful PromiseKept EveryRequestAnswered
