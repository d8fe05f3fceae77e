------------------------------ MODULE Uploads ------------------------------
(***************************************************************************)
(* A video is a row of videos and a stored object (a file under the upload *)
(* root, or a Vercel Blob) that no transaction ties together.  This module *)
(* models the requests that create, delete and stream videos, step by step,*)
(* with a process that may crash between any two of them, database errors  *)
(* (also the error that hides a commit) and storage errors.                *)
(*                                                                         *)
(* An Object stands for a storage key, its stored object and its row: keys *)
(* are fresh UUIDs, so an upload never meets another one's.  The build and *)
(* the settings of a deployment choose the way its uploads take: through   *)
(* the API to the "disk" or to the "blob" store, or "direct" from the      *)
(* browser to the Blob store and registered afterwards.                    *)
(***************************************************************************)
EXTENDS Naturals

CONSTANTS Object,     \* the uploads that may ever be made (the bound)
          Deletion,   \* concurrent DELETE requests
          Stream,     \* concurrent stream requests
          None,       \* no object
          MaxCrashes  \* bound on crashes of the server

ASSUME NoneIsNoObject == None \notin Object
ASSUME CrashBound == MaxCrashes \in Nat

VARIABLES
  way,        \* the way uploads take, the same for all and for ever
  parts,      \* ".part" files under the upload root
  stored,     \* stored objects: renamed files and blobs
  rows,       \* rows of videos with deleted_at null, by storage_key
  gone,       \* rows whose deleted_at is set
  upload,     \* where each upload is
  deletion,   \* where each DELETE is
  target,     \* the object each DELETE is about
  stream,     \* where each stream request is
  source,     \* the object each stream request is about
  crashes     \* crashes so far

vars == <<way, parts, stored, rows, gone, upload, deletion, target, stream, source, crashes>>

Working == {"writing", "put", "saved", "uploaded", "registering", "cleanUp", "reread"}
Answered == {"acknowledged", "error"}

TypeOK ==
  /\ way \in {"disk", "blob", "direct"}
  /\ parts \subseteq Object /\ stored \subseteq Object
  /\ rows \subseteq Object /\ gone \subseteq Object
  /\ upload \in [Object -> {"new", "lost"} \cup Working \cup Answered]
  /\ deletion \in [Deletion -> {"idle", "checked", "remove"}]
  /\ target \in [Deletion -> Object \cup {None}]
  /\ \A d \in Deletion : target[d] = None <=> deletion[d] = "idle"
  /\ stream \in [Stream -> {"idle", "found", "sending"}]
  /\ source \in [Stream -> Object \cup {None}]
  /\ crashes \in 0..MaxCrashes

Init ==
  /\ way \in {"disk", "blob", "direct"}
  /\ parts = {} /\ stored = {} /\ rows = {} /\ gone = {}
  /\ upload = [o \in Object |-> "new"]
  /\ deletion = [d \in Deletion |-> "idle"] /\ target = [d \in Deletion |-> None]
  /\ stream = [s \in Stream |-> "idle"] /\ source = [s \in Stream |-> None]
  /\ crashes = 0

Move(o, from, to) == upload[o] = from /\ upload' = [upload EXCEPT ![o] = to]

others == <<way, deletion, target, stream, source, crashes>>

-----------------------------------------------------------------------------
(* UploadVideo: the file passes through the API. *)

\* SaveUploadedVideo opens the ".part" file and copies the body into it.
WritePart(o) ==
  /\ way # "direct"
  /\ Move(o, "new", "writing")
  /\ parts' = parts \cup {o}
  /\ UNCHANGED <<stored, rows, gone, others>>

\* A mutant: an error path that forgets the ".part" file.
SaveFailsKeepingPart(o) ==
  /\ Move(o, "writing", "error")
  /\ UNCHANGED <<parts, stored, rows, gone, others>>

\* Copy, size, header or context error: the ".part" file is removed.
SaveFails(o) ==
  /\ Move(o, "writing", "error")
  /\ parts' = parts \ {o}
  /\ UNCHANGED <<stored, rows, gone, others>>

\* On disk the ".part" file is renamed into place.
Rename(o) ==
  /\ way = "disk"
  /\ Move(o, "writing", "saved")
  /\ parts' = parts \ {o}
  /\ stored' = stored \cup {o}
  /\ UNCHANGED <<rows, gone, others>>

\* uploadToBlob: the store has the object before the ".part" file goes.
PutBlob(o) ==
  /\ way = "blob"
  /\ Move(o, "writing", "put")
  /\ stored' = stored \cup {o}
  /\ UNCHANGED <<parts, rows, gone, others>>

\* The answer of the store names the blob, or is lost or cannot be read.
BlobAnswered(o) ==
  /\ Move(o, "put", "saved") \/ Move(o, "put", "error")
  /\ parts' = parts \ {o}
  /\ UNCHANGED <<stored, rows, gone, others>>

Insert(o) ==
  /\ Move(o, "saved", "reread")
  /\ rows' = rows \cup {o}
  /\ UNCHANGED <<parts, stored, gone, others>>

InsertFails(o) ==
  /\ Move(o, "saved", "cleanUp")
  /\ UNCHANGED <<parts, stored, rows, gone, others>>

\* The INSERT was committed, the connection broke before the answer came.
InsertAnswerLost(o) ==
  /\ Move(o, "saved", "cleanUp")
  /\ rows' = rows \cup {o}
  /\ UNCHANGED <<parts, stored, gone, others>>

\* store.Delete after a failed INSERT; its own error is ignored.
CleanUp(o) ==
  /\ Move(o, "cleanUp", "error")
  /\ stored' \in {stored, stored \ {o}}
  /\ UNCHANGED <<parts, rows, gone, others>>

\* FindByPublicID after the INSERT: the row may be deleted already, or the
\* query may fail although the video is there.
Reread(o) ==
  /\ \/ o \in rows /\ Move(o, "reread", "acknowledged")
     \/ Move(o, "reread", "error")
  /\ UNCHANGED <<parts, stored, rows, gone, others>>

-----------------------------------------------------------------------------
(* useVideoUpload in production: the browser uploads, then registers. *)

BrowserUploads(o) ==
  /\ way = "direct"
  /\ \/ Move(o, "new", "uploaded")
     \/ Move(o, "new", "error")  \* the blob is there, the answer is not
  /\ stored' = stored \cup {o}
  /\ UNCHANGED <<parts, rows, gone, others>>

\* RegisterBlobVideo: StatBlob must find the object.
Register(o) ==
  /\ o \in stored
  /\ Move(o, "uploaded", "registering")
  /\ UNCHANGED <<parts, stored, rows, gone, others>>

\* Offline, an expired token, the rate limit, a rejected type: nobody removes
\* the blob.
RegisterFails(o) ==
  /\ Move(o, "uploaded", "error")
  /\ UNCHANGED <<parts, stored, rows, gone, others>>

RegisterInserts(o) ==
  /\ Move(o, "registering", "reread")
  /\ rows' = rows \cup {o}
  /\ UNCHANGED <<parts, stored, gone, others>>

\* A mutant: clean up as UploadVideo does, without knowing what was committed.
RegisterInsertFailsAndRemoves(o) ==
  /\ Move(o, "registering", "error")
  /\ rows' \in {rows, rows \cup {o}}
  /\ stored' = stored \ {o}
  /\ UNCHANGED <<parts, gone, others>>

RegisterInsertFails(o) ==
  /\ Move(o, "registering", "error")
  /\ rows' \in {rows, rows \cup {o}}
  /\ UNCHANGED <<parts, stored, gone, others>>

-----------------------------------------------------------------------------
(* DeleteVideo. *)

\* A mutant: the object goes before the row is marked.
CheckDeleteAndRemove(d, o) ==
  /\ deletion[d] = "idle" /\ deletion' = [deletion EXCEPT ![d] = "checked"]
  /\ o \in rows
  /\ target' = [target EXCEPT ![d] = o]
  /\ stored' = stored \ {o}
  /\ UNCHANGED <<way, parts, rows, gone, upload, stream, source, crashes>>

CheckDelete(d, o) ==
  /\ deletion[d] = "idle" /\ deletion' = [deletion EXCEPT ![d] = "checked"]
  /\ o \in rows
  /\ target' = [target EXCEPT ![d] = o]
  /\ UNCHANGED <<way, parts, stored, rows, gone, upload, stream, source, crashes>>

\* A mutant: the 404 branch leaves its target behind.
SoftDeleteKeepingTarget(d) ==
  /\ deletion[d] = "checked"
  /\ UNCHANGED target
  /\ IF target[d] \in rows
     THEN /\ deletion' = [deletion EXCEPT ![d] = "remove"]
          /\ rows' = rows \ {target[d]} /\ gone' = gone \cup {target[d]}
     ELSE deletion' = [deletion EXCEPT ![d] = "idle"] /\ UNCHANGED <<rows, gone>>
  /\ UNCHANGED <<way, parts, stored, upload, stream, source, crashes>>

\* UPDATE ... WHERE deleted_at IS NULL RETURNING storage_key: one of two
\* concurrent requests gets the key, the other one 404.
SoftDelete(d) ==
  /\ deletion[d] = "checked"
  /\ IF target[d] \in rows
     THEN /\ deletion' = [deletion EXCEPT ![d] = "remove"]
          /\ rows' = rows \ {target[d]} /\ gone' = gone \cup {target[d]}
          /\ UNCHANGED target
     ELSE /\ deletion' = [deletion EXCEPT ![d] = "idle"]
          /\ target' = [target EXCEPT ![d] = None]
          /\ UNCHANGED <<rows, gone>>
  /\ UNCHANGED <<way, parts, stored, upload, stream, source, crashes>>

\* The stored object goes last, and a failure of that changes no answer.
RemoveObject(d) ==
  /\ deletion[d] = "remove" /\ deletion' = [deletion EXCEPT ![d] = "idle"]
  /\ target' = [target EXCEPT ![d] = None]
  /\ stored' \in {stored, stored \ {target[d]}}
  /\ UNCHANGED <<way, parts, rows, gone, upload, stream, source, crashes>>

-----------------------------------------------------------------------------
(* StreamService.ServeHTTP. *)

FindStorageInfo(s, o) ==
  /\ stream[s] = "idle" /\ stream' = [stream EXCEPT ![s] = "found"]
  /\ o \in rows
  /\ source' = [source EXCEPT ![s] = o]
  /\ UNCHANGED <<way, parts, stored, rows, gone, upload, deletion, target, crashes>>

\* An open file stays readable when it is unlinked; a missing one is a 404.
ServeFile(s) ==
  /\ stream[s] = "found"
  /\ IF source[s] \in stored
     THEN stream' = [stream EXCEPT ![s] = "sending"] /\ UNCHANGED source
     ELSE /\ stream' = [stream EXCEPT ![s] = "idle"]
          /\ source' = [source EXCEPT ![s] = None]
  /\ UNCHANGED <<way, parts, stored, rows, gone, upload, deletion, target, crashes>>

StreamEnds(s) ==
  /\ stream[s] = "sending" /\ stream' = [stream EXCEPT ![s] = "idle"]
  /\ source' = [source EXCEPT ![s] = None]
  /\ UNCHANGED <<way, parts, stored, rows, gone, upload, deletion, target, crashes>>

-----------------------------------------------------------------------------
\* The server stops: what its requests were about to do is never done.  The
\* browser's own upload survives, its registration does not.
Crash ==
  /\ crashes < MaxCrashes /\ crashes' = crashes + 1
  /\ upload' = [o \in Object |->
                  IF upload[o] \in Working \ {"uploaded"} THEN "lost" ELSE upload[o]]
  /\ deletion' = [d \in Deletion |-> "idle"] /\ target' = [d \in Deletion |-> None]
  /\ stream' = [s \in Stream |-> "idle"] /\ source' = [s \in Stream |-> None]
  /\ UNCHANGED <<way, parts, stored, rows, gone>>

UploadStep(o) ==
  \/ WritePart(o) \/ SaveFails(o) \/ Rename(o) \/ PutBlob(o) \/ BlobAnswered(o)
  \/ Insert(o) \/ InsertFails(o) \/ InsertAnswerLost(o) \/ CleanUp(o) \/ Reread(o)
  \/ BrowserUploads(o) \/ Register(o) \/ RegisterFails(o)
  \/ RegisterInserts(o) \/ RegisterInsertFails(o)

Next ==
  \/ \E o \in Object : UploadStep(o)
  \/ \E d \in Deletion : SoftDelete(d) \/ RemoveObject(d) \/ \E o \in Object : CheckDelete(d, o)
  \/ \E s \in Stream : ServeFile(s) \/ StreamEnds(s) \/ \E o \in Object : FindStorageInfo(s, o)
  \/ Crash

Spec == Init /\ [][Next]_vars

-----------------------------------------------------------------------------
(* Properties. *)

\* A video whose upload was acknowledged has its object for as long as it is
\* listed: neither a crash, a deletion of another video nor a clean-up takes it.
AcknowledgedVideosPlay ==
  \A o \in rows \ stored : upload[o] = "error"

\* Without a crash nothing of an upload stays behind under the upload root.
PartsAreTemporary ==
  \A o \in parts : upload[o] \in {"writing", "put", "lost"}

\* Nothing is removed but the object of a deleted video, or of an upload whose
\* INSERT failed, however many deletions of it are under way.
OnlyDeletedObjectsAreRemoved ==
  [][\A o \in stored \ stored' :
       o \in gone \/ (upload[o] = "cleanUp" /\ upload'[o] = "error")]_vars

\* A viewer whose request found the video but not its object asked for one that
\* was deleted meanwhile, or whose uploader was told of an error.
StreamsFindTheirObject ==
  [][\A s \in Stream : stream[s] = "found" /\ ServeFile(s) /\ source[s] \notin stored
       => source[s] \in gone \/ upload[source[s]] = "error"]_vars
=============================================================================
