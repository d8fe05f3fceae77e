--------------------------- MODULE UploadsProofs ---------------------------
(***************************************************************************)
(* Proofs about Uploads and UploadModal: for any number of uploads,        *)
(* deletions, streams and crashes.                                         *)
(***************************************************************************)
EXTENDS UploadModal, TLAPS

\* Stored, and its row not inserted yet.
Ready == {"put", "saved", "uploaded", "registering"}

\* What the place of an upload says of its object and its row.
UploadOK ==
  \A o \in Object :
    /\ upload[o] \in {"new", "writing"} => o \notin rows \cup gone
    /\ upload[o] \in Ready => o \in stored /\ o \notin rows \cup gone
    /\ upload[o] \in {"reread", "acknowledged"} => o \in rows \cup gone

RowsOK == rows \cap gone = {}

\* What the key read from a row still says later.
DeletionOK ==
  \A d \in Deletion :
    /\ deletion[d] = "checked" => target[d] \in rows \cup gone
    /\ deletion[d] = "remove" => target[d] \in gone

StreamOK == \A s \in Stream : stream[s] = "found" => source[s] \in rows \cup gone

Inv ==
  /\ TypeOK /\ UploadOK /\ RowsOK /\ DeletionOK /\ StreamOK
  /\ AcknowledgedVideosPlay /\ PartsAreTemporary

LEMMA InitInv == ASSUME Init PROVE Inv
BY NoneIsNoObject, CrashBound
   DEF Init, Inv, TypeOK, UploadOK, Ready, RowsOK, DeletionOK, StreamOK,
       AcknowledgedVideosPlay, PartsAreTemporary

-----------------------------------------------------------------------------
\* One step of an upload, as far as the other requests are concerned: its own
\* place changes, its row may come, and its object may go only with an error.
LEMMA UploadStepInv ==
  ASSUME Inv, NEW o \in Object, UploadStep(o)
  PROVE  Inv'
<1> USE DEF Inv, UploadOK, Ready, RowsOK, AcknowledgedVideosPlay, PartsAreTemporary,
            Move, others, TypeOK, Working, Answered
<1>1. TypeOK'
  BY DEF UploadStep, WritePart, SaveFails, Rename, PutBlob, BlobAnswered, Insert, InsertFails,
         InsertAnswerLost, CleanUp, Reread, BrowserUploads, Register, RegisterFails,
         RegisterInserts, RegisterInsertFails
<1>2. DeletionOK' /\ StreamOK'
  BY DEF DeletionOK, StreamOK,
         UploadStep, WritePart, SaveFails, Rename, PutBlob, BlobAnswered, Insert, InsertFails,
         InsertAnswerLost, CleanUp, Reread, BrowserUploads, Register, RegisterFails,
         RegisterInserts, RegisterInsertFails
<1>3. (UploadOK /\ RowsOK /\ AcknowledgedVideosPlay /\ PartsAreTemporary)'
  <2>1. CASE WritePart(o)            BY <2>1 DEF WritePart
  <2>2. CASE SaveFails(o)            BY <2>2 DEF SaveFails
  <2>3. CASE Rename(o)               BY <2>3 DEF Rename
  <2>4. CASE PutBlob(o)              BY <2>4 DEF PutBlob
  <2>5. CASE BlobAnswered(o)         BY <2>5 DEF BlobAnswered
  <2>6. CASE Insert(o)               BY <2>6 DEF Insert
  <2>7. CASE InsertFails(o)          BY <2>7 DEF InsertFails
  <2>8. CASE InsertAnswerLost(o)     BY <2>8 DEF InsertAnswerLost
  <2>9. CASE CleanUp(o)              BY <2>9 DEF CleanUp
  <2>10. CASE Reread(o)              BY <2>10 DEF Reread
  <2>11. CASE BrowserUploads(o)      BY <2>11 DEF BrowserUploads
  <2>12. CASE Register(o)            BY <2>12 DEF Register
  <2>13. CASE RegisterFails(o)       BY <2>13 DEF RegisterFails
  <2>14. CASE RegisterInserts(o)     BY <2>14 DEF RegisterInserts
  <2>15. CASE RegisterInsertFails(o) BY <2>15 DEF RegisterInsertFails
  <2> QED  BY <2>1, <2>2, <2>3, <2>4, <2>5, <2>6, <2>7, <2>8, <2>9, <2>10, <2>11, <2>12,
              <2>13, <2>14, <2>15 DEF UploadStep
<1> QED  BY <1>1, <1>2, <1>3

LEMMA DeletionStepInv ==
  ASSUME Inv, NEW d \in Deletion,
         SoftDelete(d) \/ RemoveObject(d) \/ \E o \in Object : CheckDelete(d, o)
  PROVE  Inv'
<1> USE NoneIsNoObject
    DEF Inv, TypeOK, UploadOK, Ready, RowsOK, DeletionOK, StreamOK, AcknowledgedVideosPlay,
        PartsAreTemporary
<1>1. CASE SoftDelete(d)    BY <1>1 DEF SoftDelete
<1>2. CASE RemoveObject(d)  BY <1>2 DEF RemoveObject
<1>3. ASSUME NEW o \in Object, CheckDelete(d, o) PROVE Inv'
  BY <1>3 DEF CheckDelete
<1> QED  BY <1>1, <1>2, <1>3

LEMMA StreamStepInv ==
  ASSUME Inv, NEW s \in Stream,
         ServeFile(s) \/ StreamEnds(s) \/ \E o \in Object : FindStorageInfo(s, o)
  PROVE  Inv'
BY DEF Inv, TypeOK, UploadOK, RowsOK, DeletionOK, StreamOK, AcknowledgedVideosPlay,
       PartsAreTemporary, ServeFile, StreamEnds, FindStorageInfo

LEMMA CrashInv == ASSUME Inv, Crash PROVE Inv'
BY CrashBound
   DEF Inv, TypeOK, UploadOK, Ready, RowsOK, DeletionOK, StreamOK, AcknowledgedVideosPlay,
       PartsAreTemporary, Crash, Working, Answered

LEMMA NextInv == ASSUME Inv, [Next]_vars PROVE Inv'
<1>1. CASE UNCHANGED vars
  BY <1>1 DEF vars, Inv, TypeOK, UploadOK, RowsOK, DeletionOK, StreamOK, AcknowledgedVideosPlay,
              PartsAreTemporary
<1> QED  BY <1>1, UploadStepInv, DeletionStepInv, StreamStepInv, CrashInv DEF Next

LEMMA SpecInv == Spec => []Inv
<1>1. Inv /\ [Next]_vars => Inv'
  BY NextInv
<1> QED  BY InitInv, <1>1, PTL DEF Spec

-----------------------------------------------------------------------------
(* The server alone. *)

\* A video whose upload was acknowledged plays as long as it is listed.
THEOREM AcknowledgedAlwaysPlay == Spec => []AcknowledgedVideosPlay
BY SpecInv, PTL DEF Inv

\* Only a crash leaves a ".part" file of an upload that is over.
THEOREM PartsAlwaysTemporary == Spec => []PartsAreTemporary
BY SpecInv, PTL DEF Inv

\* No step removes the object of a video that is not deleted, except where the
\* INSERT of its upload is taken to have failed.
THEOREM OnlyDeletedRemoved == Spec => OnlyDeletedObjectsAreRemoved
<1> DEFINE Deserved == \A o \in stored \ stored' :
                         o \in gone \/ (upload[o] = "cleanUp" /\ upload'[o] = "error")
<1>1. ASSUME Inv, Next PROVE Deserved
  <2>1. ASSUME NEW o \in Object, UploadStep(o) PROVE Deserved
    BY <1>1, <2>1
       DEF Inv, TypeOK, Move, others, UploadStep, WritePart, SaveFails, Rename, PutBlob,
           BlobAnswered, Insert, InsertFails, InsertAnswerLost, CleanUp, Reread, BrowserUploads,
           Register, RegisterFails, RegisterInserts, RegisterInsertFails
  <2>2. ASSUME NEW d \in Deletion,
               SoftDelete(d) \/ RemoveObject(d) \/ \E o \in Object : CheckDelete(d, o)
        PROVE  Deserved
    BY <1>1, <2>2 DEF Inv, DeletionOK, SoftDelete, RemoveObject, CheckDelete
  <2>3. ASSUME NEW s \in Stream,
               ServeFile(s) \/ StreamEnds(s) \/ \E o \in Object : FindStorageInfo(s, o)
        PROVE  Deserved
    BY <2>3 DEF ServeFile, StreamEnds, FindStorageInfo
  <2>4. CASE Crash  BY <2>4 DEF Crash
  <2> QED  BY <1>1, <2>1, <2>2, <2>3, <2>4 DEF Next
<1>2. Inv /\ [Next]_vars => [Deserved]_vars
  BY <1>1
<1> QED  BY SpecInv, <1>2, PTL DEF Spec, OnlyDeletedObjectsAreRemoved

\* A viewer's request misses its object only if the video was deleted meanwhile
\* or its uploader was told of an error.
THEOREM StreamsAlwaysFind == Spec => StreamsFindTheirObject
<1> DEFINE Found == \A s \in Stream :
                      stream[s] = "found" /\ ServeFile(s) /\ source[s] \notin stored
                      => source[s] \in gone \/ upload[source[s]] = "error"
<1>1. Inv => Found
  BY DEF Inv, StreamOK, AcknowledgedVideosPlay
<1>2. Inv /\ [Next]_vars => [Found]_vars
  BY <1>1
<1> QED  BY SpecInv, <1>2, PTL DEF Spec, StreamsFindTheirObject

-----------------------------------------------------------------------------
(* The dialogue on top of it. *)

\* The dialogue adds no behaviour of the server: it only says when an upload
\* begins.
THEOREM ModalImplementsUploads == ModalSpec => Spec
<1>1. ModalInit => Init
  BY DEF ModalInit
<1>2. [ModalNext]_<<vars, modalVars>> => [Next]_vars
  BY DEF ModalNext, OpenModal, HandleFile, SubmitInvalid, HandleClose, HandleSubmit,
         ReadVideoDuration, FetchUploadToken, UploadAnswered, AnswerLost, ServerStep
<1> QED  BY <1>1, <1>2, PTL DEF ModalSpec, Spec

\* An acknowledged upload stays so.
LEMMA AcknowledgedStays ==
  ASSUME Inv, [Next]_vars, NEW o \in Object, upload[o] = "acknowledged"
  PROVE  upload'[o] = "acknowledged"
<1>1. ASSUME NEW p \in Object, UploadStep(p) PROVE upload'[o] = "acknowledged"
  BY <1>1
     DEF Inv, TypeOK, Move, UploadStep, WritePart, SaveFails, Rename, PutBlob, BlobAnswered,
         Insert, InsertFails, InsertAnswerLost, CleanUp, Reread, BrowserUploads, Register,
         RegisterFails, RegisterInserts, RegisterInsertFails
<1>2. CASE Crash
  BY <1>2 DEF Crash, Working
<1>3. UNCHANGED upload => upload'[o] = "acknowledged"
  OBVIOUS
<1> QED
  BY <1>1, <1>2, <1>3
     DEF Next, vars, SoftDelete, RemoveObject, CheckDelete, ServeFile, StreamEnds, FindStorageInfo

\* What the dialogue says of success, before the server's part of it is added.
ShownIsAcknowledged ==
  modal = "success" => about \in Object /\ upload[about] = "acknowledged"

ModalInv == Inv /\ ModalTypeOK /\ ShownIsAcknowledged

LEMMA ModalNextInv ==
  ASSUME ModalInv, [ModalNext]_<<vars, modalVars>>
  PROVE  ModalInv'
<1> USE NoneIsNoObject DEF ModalInv
<1>1. Inv'
  BY NextInv, [ModalNext]_<<vars, modalVars>> => [Next]_vars
     DEF ModalNext, OpenModal, HandleFile, SubmitInvalid, HandleClose, HandleSubmit,
         ReadVideoDuration, FetchUploadToken, UploadAnswered, AnswerLost, ServerStep
<1>2. ModalTypeOK' /\ ShownIsAcknowledged'
  <2>1. TypeOK'  BY <1>1 DEF Inv
  <2> USE <2>1 DEF ModalTypeOK, ShownIsAcknowledged
  <2>2. CASE UNCHANGED <<vars, modalVars>>
    BY <2>2 DEF vars, modalVars
  <2>3. CASE OpenModal \/ HandleFile \/ SubmitInvalid \/ HandleClose
    BY <2>3 DEF OpenModal, HandleFile, OffersSubmit, SubmitInvalid, HandleClose, vars
  <2>4. ASSUME NEW o \in Object, HandleSubmit(o) \/ ReadVideoDuration(o) \/ FetchUploadToken(o)
        PROVE  ModalTypeOK' /\ ShownIsAcknowledged'
    BY <2>4 DEF HandleSubmit, ReadVideoDuration, FetchUploadToken, Advance, Show, vars
  <2>5. ASSUME NEW o \in Object, UploadAnswered(o) \/ AnswerLost(o)
        PROVE  ModalTypeOK' /\ ShownIsAcknowledged'
    BY <2>5 DEF UploadAnswered, AnswerLost, Advance, Show, vars
  <2>6. CASE ServerStep
    BY <2>6, AcknowledgedStays DEF ServerStep, modalVars
  <2> QED  BY <2>2, <2>3, <2>4, <2>5, <2>6 DEF ModalNext
<1> QED  BY <1>1, <1>2

LEMMA ModalSpecInv == ModalSpec => []ModalInv
<1>1. ModalInit => ModalInv
  BY InitInv DEF ModalInit, ModalInv, ModalTypeOK, ShownIsAcknowledged, Inv
<1>2. ModalInv /\ [ModalNext]_<<vars, modalVars>> => ModalInv'
  BY ModalNextInv
<1> QED  BY <1>1, <1>2, PTL DEF ModalSpec

\* Tables, requests and the dialogue keep their types.
THEOREM TypeCorrect == ModalSpec => []ModalTypeOK
BY ModalSpecInv, PTL DEF ModalInv

\* "Complete" in the dialogue is about the file it submitted, which was made a
\* video that plays unless somebody deleted it, whatever other dialogues,
\* retries, crashes and deletions went before.
THEOREM SuccessIsAlwaysAVideo == ModalSpec => []SuccessIsAVideo
<1>1. ModalInv => SuccessIsAVideo
  BY DEF ModalInv, ShownIsAcknowledged, SuccessIsAVideo, Inv, UploadOK, AcknowledgedVideosPlay
<1> QED  BY ModalSpecInv, <1>1, PTL
=============================================================================
