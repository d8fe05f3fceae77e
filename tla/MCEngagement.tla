---------------------------- MODULE MCEngagement ----------------------------
(***************************************************************************)
(* The instance TLC checks: the teacher t, who uploaded every video, and   *)
(* the student s; one comment of each on the first video.  The student may *)
(* not see a hidden video, nor erase the teacher's comment, nor delete a   *)
(* video, so every refusal of the services occurs.                         *)
(***************************************************************************)
EXTENDS Engagement, TLC

CONSTANTS t, s, ct, cs, v1

MCUser == {t, s}
MCTeacher == {t}
MCComment == {ct, cs}
MCUploader == [v \in Video |-> t]
MCCommentOn == [c \in Comment |-> v1]
MCCommentBy == [c \in Comment |-> IF c = ct THEN t ELSE s]

WorkerSymmetry == Permutations(Worker)
=============================================================================
