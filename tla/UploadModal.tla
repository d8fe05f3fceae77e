---------------------------- MODULE UploadModal ----------------------------
(***************************************************************************)
(* UploadModal.tsx and useVideoUpload.ts on top of the server's Uploads:   *)
(* one browser tab and its upload dialogue.  The dialogue may be closed    *)
(* while its upload goes on (nothing aborts it) and be opened again, which *)
(* mounts a new one with a hook of its own; an answer that comes late is   *)
(* an answer to a dialogue that is no longer there.                        *)
(*                                                                         *)
(* One object is one submission.  Progress bars, titles and the texts of   *)
(* errors are left out.                                                    *)
(***************************************************************************)
EXTENDS Uploads

VARIABLES
  modal,    \* "closed", or what the dialogue on the page shows
  about,    \* the submission whose outcome that dialogue will show
  attempt   \* where the tab's own code is with each submission

modalVars == <<modal, about, attempt>>

ModalTypeOK ==
  /\ TypeOK
  /\ modal \in {"closed", "choose", "form", "uploading", "failed", "success"}
  /\ about \in Object \cup {None}
  /\ attempt \in [Object -> {"none", "measuring", "token", "sent", "done"}]

ModalInit ==
  /\ Init
  /\ modal = "closed" /\ about = None
  /\ attempt = [o \in Object |-> "none"]

Advance(o, from, to) == attempt[o] = from /\ attempt' = [attempt EXCEPT ![o] = to]

-----------------------------------------------------------------------------
(* The dialogue. *)

\* Layout mounts the modal: no file, no error, no success.
OpenModal ==
  /\ modal = "closed" /\ modal' = "choose"
  /\ UNCHANGED <<about, attempt, vars>>

\* A file is chosen or dropped; the dialogue offers no way back.
HandleFile ==
  /\ modal = "choose" /\ modal' = "form"
  /\ UNCHANGED <<about, attempt, vars>>

\* The form with its button, which is disabled while the hook is uploading.
OffersSubmit == modal \in {"form", "failed"}

\* The type, the size, the title or the description is refused by the page.
SubmitInvalid ==
  /\ OffersSubmit /\ modal' = "failed"
  /\ UNCHANGED <<about, attempt, vars>>

HandleSubmit(o) ==
  /\ OffersSubmit /\ modal' = "uploading"
  /\ Advance(o, "none", "measuring")
  /\ about' = o
  /\ UNCHANGED vars

\* reset() and onClose(): the dialogue goes, what it submitted does not.
HandleClose ==
  /\ modal # "closed" /\ modal' = "closed"
  /\ about' = None
  /\ UNCHANGED <<attempt, vars>>

\* uploadVideo resolves: the dialogue that submitted o shows it, if it is
\* still there.
Show(o, result) == modal' = IF about = o THEN result ELSE modal

-----------------------------------------------------------------------------
(* uploadVideo. *)

\* onloadedmetadata or onerror.  A browser may fire neither; then the dialogue
\* says for ever that it is uploading.
ReadVideoDuration(o) ==
  /\ Advance(o, "measuring", "token")
  /\ UNCHANGED <<modal, about, vars>>

\* POST /uploads/token answers with a token, or not (401, 429, no network).
FetchUploadToken(o) ==
  /\ \/ Advance(o, "token", "sent") /\ UNCHANGED modal
     \/ Advance(o, "token", "done") /\ Show(o, "failed")
  /\ UNCHANGED <<about, vars>>

\* The answer to the POST that made the video, or tells of an error.
UploadAnswered(o) ==
  /\ Advance(o, "sent", "done")
  /\ \/ upload[o] = "acknowledged" /\ Show(o, "success")
     \/ upload[o] \in {"error", "lost"} /\ Show(o, "failed")
  /\ UNCHANGED <<about, vars>>

\* A mutant: whatever the upload returned is a success.
AnswerLostAsSuccess(o) ==
  /\ upload[o] # "uploaded"
  /\ Advance(o, "sent", "done") /\ Show(o, "success")
  /\ UNCHANGED <<about, vars>>

\* The request or its answer is lost, or the answer is not JSON: an error, be
\* the server at work, or done, with a video.  Between the two requests of a
\* direct upload there is none to lose.
AnswerLost(o) ==
  /\ upload[o] # "uploaded"
  /\ Advance(o, "sent", "done") /\ Show(o, "failed")
  /\ UNCHANGED <<about, vars>>

\* The server's steps.  An upload begins with the request the tab has sent.
ServerStep ==
  /\ Next
  /\ \A o \in Object : upload[o] = "new" /\ upload'[o] # "new" => attempt[o] = "sent"
  /\ UNCHANGED modalVars

ModalNext ==
  \/ OpenModal \/ HandleFile \/ SubmitInvalid \/ HandleClose
  \/ \E o \in Object : \/ HandleSubmit(o) \/ ReadVideoDuration(o) \/ FetchUploadToken(o)
                       \/ UploadAnswered(o) \/ AnswerLost(o)
  \/ ServerStep

ModalSpec == ModalInit /\ [][ModalNext]_<<vars, modalVars>>

-----------------------------------------------------------------------------
\* What a user who reads "the upload is complete" may rely on: it is about his
\* file, which was made a video that plays, unless somebody deleted it since.
SuccessIsAVideo ==
  modal = "success" =>
    /\ upload[about] = "acknowledged"
    /\ about \in gone \cup (rows \cap stored)
=============================================================================
