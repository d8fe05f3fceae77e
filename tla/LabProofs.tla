------------------------------ MODULE LabProofs ------------------------------
(***************************************************************************)
(* Proofs about the Lab.  LabPreview: for any sources, errors and hangs,   *)
(* any number of edits, and any order of messages, timers and reloads.     *)
(* LabSteps, ModuleLoader and LabCode: for any lesson, values, files and   *)
(* saved progress.  What their folds and their recursive function compute  *)
(* is reached by induction on natural numbers: on the length of a text, the*)
(* number of steps applied, the files still to be loaded.                  *)
(***************************************************************************)
EXTENDS LabPreview, LabLesson, FiniteSetTheorems, SequenceTheorems, WellFoundedInduction, TLAPS

-----------------------------------------------------------------------------
(* The page and its preview. *)

ReadyComes == \E i \in DOMAIN toParent : toParent[i] = Ready

\* What the preview will show once it has read its messages.
Shown == IF toPreview = <<>> THEN installed ELSE toPreview[Len(toPreview)]

\* A frame that does not listen shows the site as it is and has no messages.
FrameOK == ~loaded => /\ installed = Original /\ crashed = {}
                      /\ toPreview = <<>> /\ replies = <<>>

\* What lastSent and the timer are for: the frame gets what was sent last, and
\* what was sent last is what is wanted.
SendingOK ==
  /\ loaded /\ ~ReadyComes => ready /\ Shown = lastSent
  /\ ready /\ ~timer => lastSent = Wanted

\* The mark is there while student code that was loaded last may hang.
MarkOK == frozen = "applying" => flag

Inv == TypeOK /\ FrameOK /\ SendingOK /\ MarkOK /\ SafeModeRunsNoStudentCode

\* The two halves of TypeOK: the provers for data know little of Booleans.
Flags ==
  /\ flag \in BOOLEAN /\ safeMode \in BOOLEAN
  /\ timer \in BOOLEAN /\ ready \in BOOLEAN
  /\ loaded \in BOOLEAN /\ wiped \in BOOLEAN

Data ==
  /\ edited \in Source /\ saved \in Source
  /\ lastSent \in Source \cup {Original, NeverSent}
  /\ errors \subseteq Error
  /\ toPreview \in Seq(Source \cup {Original})
  /\ toParent \in Seq(Message)
  /\ installed \in Source \cup {Original}
  /\ crashed \subseteq Error
  /\ replies \in Seq(SUBSET Error)
  /\ frozen \in {"no", "applying", "browsing"}
  /\ acts \in 0..MaxActs

LEMMA Halves == TypeOK <=> Flags /\ Data
BY DEF TypeOK, Flags, Data

LEMMA InitInv == ASSUME Init PROVE Inv
<1>1. Flags
  BY Zenon DEF Init, Flags
<1>2. Data
  BY SomeSources, Bound DEF Init, Data
<1>3. FrameOK /\ SendingOK /\ MarkOK /\ SafeModeRunsNoStudentCode
  BY DEF Init, FrameOK, SendingOK, MarkOK, SafeModeRunsNoStudentCode
<1> QED  BY <1>1, <1>2, <1>3, Halves DEF Inv

LEMMA MessagesAre ==
  /\ Ready \in Message
  /\ \A E \in SUBSET Error : Applied(E) \in Message /\ Applied(E) # Ready
  /\ \A e \in Error : RuntimeError(e) \in Message /\ RuntimeError(e) # Ready
  /\ \A m \in Message : m # Ready => m.errors \subseteq Error
<1>1. Ready \in Message
  BY DEF Message
<1>2. ASSUME NEW E \in SUBSET Error PROVE Applied(E) \in Message /\ Applied(E) # Ready
  <2>1. Applied(E).type # Ready.type
    BY DEF Applied, Ready
  <2> QED  BY <2>1 DEF Message
<1>3. ASSUME NEW e \in Error PROVE RuntimeError(e) \in Message /\ RuntimeError(e) # Ready
  <2>1. RuntimeError(e).type # Ready.type
    BY DEF RuntimeError, Ready
  <2> QED  BY <2>1 DEF Message
<1>4. ASSUME NEW m \in Message, m # Ready PROVE m.errors \subseteq Error
  <2>1. CASE m \in {Applied(E) : E \in SUBSET Error}  BY <2>1 DEF Applied
  <2>2. CASE m \in {RuntimeError(e) : e \in Error}    BY <2>2 DEF RuntimeError
  <2> QED  BY <1>4, <2>1, <2>2 DEF Message
<1> QED  BY <1>1, <1>2, <1>3, <1>4

-----------------------------------------------------------------------------
(* Types. *)

LEMMA SendTypes ==
  ASSUME Data, NEW force \in BOOLEAN, Send(force)
  PROVE  /\ lastSent' \in Source \cup {Original, NeverSent} /\ errors' \subseteq Error
         /\ toPreview' \in Seq(Source \cup {Original})
<1>1. Wanted \in Source \cup {Original}
  BY DEF Wanted, Data
<1>2. Append(toPreview, Wanted) \in Seq(Source \cup {Original})
  BY <1>1 DEF Data
<1>3. CASE ready /\ (force \/ Wanted # lastSent)
  BY <1>1, <1>2, <1>3 DEF Data, Send
<1>4. CASE ~(ready /\ (force \/ Wanted # lastSent))
  BY <1>4 DEF Data, Send
<1> QED  BY <1>3, <1>4

LEMMA StudentTypes == ASSUME TypeOK, Student PROVE TypeOK'
<1>1. Flags'
  <2> USE Halves DEF Flags
  <2>1. ASSUME NEW s \in Source, NEW inProgress \in BOOLEAN, Edit(s, inProgress) PROVE Flags'
    BY <2>1, Zenon DEF Edit, preview
  <2>2. ASSUME NEW how \in Opening, Reopen(how) PROVE Flags'
    BY <2>2, Zenon DEF Reopen, LeaveFrame
  <2>3. CASE ResetAll           BY <2>3, Zenon DEF ResetAll, preview
  <2>4. CASE TryAgain           BY <2>4, Zenon DEF TryAgain, preview
  <2>5. CASE Run                BY <2>5, Zenon DEF Run, Send, preview
  <2>6. CASE ReloadFrame        BY <2>6, Zenon DEF ReloadFrame, LeaveFrame, page
  <2>7. CASE HangWhileBrowsing  BY <2>7, Zenon DEF HangWhileBrowsing, page, preview
  <2> QED  BY <2>1, <2>2, <2>3, <2>4, <2>5, <2>6, <2>7 DEF Student
<1>2. Data'
  <2> USE Halves, SomeSources, Bound DEF Data, Wanted
  <2>1. ASSUME NEW s \in Source, NEW inProgress \in BOOLEAN, Edit(s, inProgress) PROVE Data'
    BY <2>1 DEF Edit, Act, preview
  <2>2. ASSUME NEW how \in Opening, Reopen(how) PROVE Data'
    BY <2>2 DEF Reopen, Act, LeaveFrame
  <2>3. CASE ResetAll           BY <2>3 DEF ResetAll, Act, preview
  <2>4. CASE TryAgain           BY <2>4 DEF TryAgain, Act, preview
  <2>5. CASE Run
    <3>1. /\ lastSent' \in Source \cup {Original, NeverSent} /\ errors' \subseteq Error
          /\ toPreview' \in Seq(Source \cup {Original})
      <4> HIDE DEF Data
      <4> QED  BY <2>5, SendTypes DEF Run
    <3> QED  BY <2>5, <3>1 DEF Run, Act, preview
  <2>6. CASE ReloadFrame        BY <2>6 DEF ReloadFrame, Act, LeaveFrame, page
  <2>7. CASE HangWhileBrowsing  BY <2>7 DEF HangWhileBrowsing, Act, page, preview
  <2> QED  BY <2>1, <2>2, <2>3, <2>4, <2>5, <2>6, <2>7 DEF Student
<1> QED  BY <1>1, <1>2, TypeOK' <=> Flags' /\ Data' DEF TypeOK, Flags, Data

LEMMA EventLoopTypes == ASSUME TypeOK, EventLoop PROVE TypeOK'
<1>1. Flags'
  <2> USE Halves DEF Flags
  <2>1. CASE DebounceEnds      BY <2>1, Zenon DEF DebounceEnds, Send, preview
  <2>2. CASE HandleMessage
    BY <2>2, Zenon DEF HandleMessage, HandleReady, HandleErrors, preview
  <2>3. CASE Load              BY <2>3, Zenon DEF Load, page
  <2>4. CASE ApplyOriginal     BY <2>4, Zenon DEF ApplyOriginal, page
  <2>5. CASE ApplyStudentCode  BY <2>5, Zenon DEF ApplyStudentCode, page
  <2>6. CASE ApplyHangs        BY <2>6, Zenon DEF ApplyHangs, page, preview
  <2>7. CASE Reply             BY <2>7, Zenon DEF Reply, page
  <2>8. ASSUME NEW e \in Error, Crash(e) PROVE Flags'
    BY <2>8, Zenon DEF Crash, page
  <2> QED  BY <2>1, <2>2, <2>3, <2>4, <2>5, <2>6, <2>7, <2>8 DEF EventLoop
<1>2. Data'
  <2> USE Halves, SomeSources, ErrorsOfSources DEF Data, Wanted
  <2>1. CASE DebounceEnds
    <3>1. /\ lastSent' \in Source \cup {Original, NeverSent} /\ errors' \subseteq Error
          /\ toPreview' \in Seq(Source \cup {Original})
      <4> HIDE DEF Data
      <4> QED  BY <2>1, SendTypes DEF DebounceEnds
    <3> QED  BY <2>1, <3>1 DEF DebounceEnds, preview
  <2>2. CASE HandleMessage
    <3>1. Head(toParent) \in Message /\ Tail(toParent) \in Seq(Message)
      BY <2>2 DEF HandleMessage
    <3>2. CASE Head(toParent) = Ready
      <4>1. Wanted \in Source \cup {Original}
        OBVIOUS
      <4>2. Append(toPreview, Wanted) \in Seq(Source \cup {Original})
        BY <4>1
      <4> HIDE DEF Wanted
      <4> QED  BY <2>2, <3>1, <3>2, <4>1, <4>2 DEF HandleMessage, HandleReady, preview
    <3>3. CASE Head(toParent) # Ready
      <4>1. Head(toParent).errors \subseteq Error
        BY <3>1, <3>3, MessagesAre
      <4> QED  BY <2>2, <3>1, <3>3, <4>1 DEF HandleMessage, HandleErrors, preview
    <3> QED  BY <3>2, <3>3
  <2>3. CASE Load              BY <2>3, MessagesAre DEF Load, page
  <2>4. CASE ApplyOriginal     BY <2>4, MessagesAre DEF ApplyOriginal, page
  <2>5. CASE ApplyStudentCode  BY <2>5 DEF ApplyStudentCode, page
  <2>6. CASE ApplyHangs        BY <2>6 DEF ApplyHangs, page, preview
  <2>7. CASE Reply             BY <2>7, MessagesAre DEF Reply, page
  <2>8. ASSUME NEW e \in Error, Crash(e) PROVE Data'
    BY <2>8, MessagesAre DEF Crash, page
  <2> QED  BY <2>1, <2>2, <2>3, <2>4, <2>5, <2>6, <2>7, <2>8 DEF EventLoop
<1> QED  BY <1>1, <1>2, TypeOK' <=> Flags' /\ Data' DEF TypeOK, Flags, Data

-----------------------------------------------------------------------------
(* What is on its way. *)

\* Send delivers what is wanted, or has already.
LEMMA SendOK ==
  ASSUME Inv, NEW force \in BOOLEAN, Send(force),
         UNCHANGED <<edited, safeMode, ready, preview, toParent>>
  PROVE  /\ FrameOK' /\ SafeModeRunsNoStudentCode'
         /\ (loaded /\ ~ReadyComes => ready /\ Shown = lastSent)'
         /\ (ready => lastSent = Wanted)'
<1>1. ReadyComes' <=> ReadyComes
  BY DEF ReadyComes
<1>2. Wanted' = Wanted /\ (safeMode => Wanted = Original)
  BY DEF Wanted
<1>3. toPreview \in Seq(Source \cup {Original})
  BY DEF Inv, TypeOK
<1>4. UNCHANGED <<loaded, installed, crashed, replies>>
  BY DEF preview
<1>5. CASE ready /\ (force \/ Wanted # lastSent)
  <2>1. /\ lastSent' = Wanted
        /\ toPreview' = IF loaded THEN Append(toPreview, Wanted) ELSE toPreview
    BY <1>5 DEF Send
  <2>2. FrameOK'
    BY <1>4, <2>1 DEF Inv, FrameOK
  <2>3. CASE loaded
    <3>1. /\ toPreview' # <<>> /\ Len(toPreview') = Len(toPreview) + 1
          /\ toPreview'[Len(toPreview')] = Wanted
          /\ \A i \in DOMAIN toPreview' : toPreview'[i] = Wanted \/ (i \in DOMAIN toPreview
                                                              /\ toPreview'[i] = toPreview[i])
      BY <1>3, <2>1, <2>3
    <3> QED  BY <1>2, <1>4, <1>5, <2>1, <2>2, <2>3, <3>1
                DEF Inv, SafeModeRunsNoStudentCode, Shown
  <2>4. CASE ~loaded
    BY <1>2, <1>4, <1>5, <2>1, <2>2, <2>4 DEF Inv, SafeModeRunsNoStudentCode
  <2> QED  BY <2>3, <2>4
<1>6. CASE ~(ready /\ (force \/ Wanted # lastSent))
  <2>1. UNCHANGED <<lastSent, toPreview>>
    BY <1>6 DEF Send
  <2> QED  BY <1>1, <1>2, <1>4, <1>6, <2>1
              DEF Inv, FrameOK, SendingOK, SafeModeRunsNoStudentCode, Shown
<1> QED  BY <1>5, <1>6

LEMMA StudentInv == ASSUME Inv, Student PROVE Inv'
<1> USE SomeSources DEF Inv
<1>0. TypeOK'
  BY StudentTypes
<1>1. ASSUME NEW s \in Source, NEW inProgress \in BOOLEAN, Edit(s, inProgress) PROVE Inv'
  BY <1>0, <1>1
     DEF Edit, preview, TypeOK, FrameOK, SendingOK, MarkOK, SafeModeRunsNoStudentCode, Wanted,
         ReadyComes, Shown
<1>2. ASSUME NEW how \in Opening, Reopen(how) PROVE Inv'
  BY <1>0, <1>2
     DEF Reopen, LeaveFrame, FrameOK, SendingOK, MarkOK, SafeModeRunsNoStudentCode, Wanted
<1>3. CASE ResetAll
  BY <1>0, <1>3
     DEF ResetAll, preview, TypeOK, FrameOK, SendingOK, MarkOK, SafeModeRunsNoStudentCode, Wanted,
         ReadyComes, Shown
<1>4. CASE TryAgain
  BY <1>0, <1>4
     DEF TryAgain, preview, TypeOK, FrameOK, SendingOK, MarkOK, SafeModeRunsNoStudentCode, Wanted,
         ReadyComes, Shown
<1>5. CASE Run
  BY <1>0, <1>5, SendOK DEF Run, MarkOK, SendingOK, Running, preview
<1>6. CASE ReloadFrame
  BY <1>0, <1>6
     DEF ReloadFrame, LeaveFrame, page, TypeOK, FrameOK, SendingOK, MarkOK,
         SafeModeRunsNoStudentCode, Wanted
<1>7. CASE HangWhileBrowsing
  BY <1>0, <1>7
     DEF HangWhileBrowsing, page, preview, TypeOK, FrameOK, SendingOK, MarkOK,
         SafeModeRunsNoStudentCode, Wanted, ReadyComes, Shown
<1> QED  BY <1>1, <1>2, <1>3, <1>4, <1>5, <1>6, <1>7 DEF Student

\* A message that is read is Ready, or leaves the others as they are.
LEMMA ReadingParent ==
  ASSUME TypeOK, toParent # <<>>, toParent' = Tail(toParent), Head(toParent) # Ready
  PROVE  ReadyComes' <=> ReadyComes
<1>1. \A i \in DOMAIN Tail(toParent) : i + 1 \in DOMAIN toParent
                                       /\ Tail(toParent)[i] = toParent[i + 1]
  BY DEF TypeOK
<1>2. \A i \in DOMAIN toParent \ {1} : i - 1 \in DOMAIN Tail(toParent)
                                       /\ Tail(toParent)[i - 1] = toParent[i]
  BY DEF TypeOK
<1>3. toParent[1] # Ready /\ DOMAIN toParent' = DOMAIN Tail(toParent)
  BY DEF TypeOK
<1> HIDE DEF Ready
<1>4. ReadyComes => ReadyComes'
  BY <1>2, <1>3 DEF ReadyComes
<1>5. ReadyComes' => ReadyComes
  BY <1>1, <1>3 DEF ReadyComes
<1> QED  BY <1>4, <1>5

\* A message that is added is Ready, or changes nothing.
LEMMA TellingParent ==
  ASSUME TypeOK, NEW m \in Message, toParent' = Append(toParent, m)
  PROVE  ReadyComes' <=> ReadyComes \/ m = Ready
<1>1. /\ DOMAIN toParent' = 1..(Len(toParent) + 1)
      /\ \A i \in DOMAIN toParent : toParent'[i] = toParent[i]
      /\ toParent'[Len(toParent) + 1] = m
  BY DEF TypeOK
<1>2. DOMAIN toParent = 1..Len(toParent) /\ Len(toParent) \in Nat
  BY DEF TypeOK
<1> QED  BY <1>1, <1>2 DEF ReadyComes

\* What the preview reads it shows, and what it will show is the same.
LEMMA ReadingPreview ==
  ASSUME TypeOK, toPreview # <<>>, toPreview' = Tail(toPreview), installed' = Head(toPreview)
  PROVE  /\ Shown' = Shown
         /\ \A i \in DOMAIN toPreview' : \E j \in DOMAIN toPreview : toPreview'[i] = toPreview[j]
<1>1. \A i \in DOMAIN Tail(toPreview) : i + 1 \in DOMAIN toPreview
                                        /\ Tail(toPreview)[i] = toPreview[i + 1]
  BY DEF TypeOK
<1>2. CASE Len(toPreview) = 1
  <2>1. Tail(toPreview) = <<>> /\ Head(toPreview) = toPreview[Len(toPreview)]
    BY <1>2 DEF TypeOK
  <2> QED  BY <1>1, <2>1 DEF Shown
<1>3. CASE Len(toPreview) > 1
  <2>1. Len(Tail(toPreview)) = Len(toPreview) - 1 /\ Len(toPreview) \in Nat
    BY DEF TypeOK
  <2>2. Tail(toPreview) # <<>>
    BY <1>3, <2>1
  <2>3. Len(toPreview) - 1 \in DOMAIN Tail(toPreview)
    BY <1>3, <2>1 DEF TypeOK
  <2>4. Tail(toPreview)[Len(toPreview) - 1] = toPreview[Len(toPreview)]
    BY <1>1, <2>1, <2>3
  <2> QED  BY <1>1, <2>1, <2>2, <2>4 DEF Shown
<1>4. Len(toPreview) \in Nat \ {0}
  <2>1. toPreview \in Seq(Source \cup {Original})
    BY DEF TypeOK
  <2> QED  BY <2>1
<1>5. Len(toPreview) = 1 \/ Len(toPreview) > 1
  <2>1. \A n \in Nat \ {0} : n = 1 \/ n > 1
    OBVIOUS
  <2> QED  BY <1>4, <2>1, Zenon
<1> QED  BY <1>2, <1>3, <1>5, Zenon

LEMMA HandleMessageInv == ASSUME Inv, HandleMessage PROVE Inv'
<1> USE SomeSources DEF Inv
<1>0. TypeOK'
  BY EventLoopTypes DEF EventLoop
<1>1. CASE Head(toParent) = Ready
  <2>1. /\ ready' = TRUE /\ lastSent' = Wanted /\ Wanted' = Wanted
        /\ toPreview' = IF loaded THEN Append(toPreview, Wanted) ELSE toPreview
        /\ UNCHANGED <<loaded, installed, crashed, replies, flag, frozen, safeMode>>
        /\ safeMode => Wanted = Original
    BY <1>1 DEF HandleMessage, HandleReady, preview, Wanted
  <2>2. toPreview \in Seq(Source \cup {Original})
    BY DEF TypeOK
  <2>3. CASE loaded
    <3>1. /\ toPreview' # <<>> /\ toPreview'[Len(toPreview')] = Wanted
          /\ \A i \in DOMAIN toPreview' : toPreview'[i] = Wanted \/ (i \in DOMAIN toPreview
                                                              /\ toPreview'[i] = toPreview[i])
      BY <2>1, <2>2, <2>3
    <3> QED  BY <1>0, <2>1, <2>3, <3>1
                DEF FrameOK, SendingOK, MarkOK, SafeModeRunsNoStudentCode, Shown
  <2>4. CASE ~loaded
    BY <1>0, <2>1, <2>4 DEF FrameOK, SendingOK, MarkOK, SafeModeRunsNoStudentCode
  <2> QED  BY <2>3, <2>4
<1>2. CASE Head(toParent) # Ready
  BY <1>0, <1>2, ReadingParent
     DEF HandleMessage, HandleErrors, preview, FrameOK, SendingOK, MarkOK,
         SafeModeRunsNoStudentCode, Wanted, Shown
<1> QED  BY <1>1, <1>2

LEMMA EventLoopInv == ASSUME Inv, EventLoop PROVE Inv'
<1> USE SomeSources DEF Inv
<1>0. TypeOK'
  BY EventLoopTypes
<1>1. CASE DebounceEnds
  BY <1>0, <1>1, SendOK DEF DebounceEnds, MarkOK, SendingOK, Running, preview
<1>2. CASE HandleMessage
  BY <1>2, HandleMessageInv
<1>3. CASE Load
  <2>1. ReadyComes'
    BY <1>3, TellingParent, MessagesAre DEF Load
  <2> QED  BY <1>0, <1>3, <2>1
              DEF Load, page, FrameOK, SendingOK, MarkOK, SafeModeRunsNoStudentCode, Wanted
<1>4. CASE ApplyOriginal
  <2>1. ReadyComes' <=> ReadyComes
    BY <1>4, TellingParent, MessagesAre DEF ApplyOriginal
  <2> QED  BY <1>0, <1>4, <2>1, ReadingPreview
              DEF ApplyOriginal, page, FrameOK, SendingOK, MarkOK, SafeModeRunsNoStudentCode,
                  Wanted, Running
<1>5. CASE ApplyStudentCode
  <2>1. ~safeMode
    BY <1>5 DEF ApplyStudentCode, SafeModeRunsNoStudentCode, TypeOK
  <2>2. ReadyComes' <=> ReadyComes
    BY <1>5 DEF ApplyStudentCode, ReadyComes
  <2> QED  BY <1>0, <1>5, <2>1, <2>2, ReadingPreview
              DEF ApplyStudentCode, page, FrameOK, SendingOK, MarkOK, SafeModeRunsNoStudentCode,
                  Wanted
<1>6. CASE ApplyHangs
  BY <1>0, <1>6
     DEF ApplyHangs, page, preview, FrameOK, SendingOK, MarkOK, SafeModeRunsNoStudentCode, Wanted,
         ReadyComes, Shown
<1>7. CASE Reply
  <2>1. ReadyComes' <=> ReadyComes
    BY <1>7, TellingParent, MessagesAre DEF Reply, TypeOK
  <2> QED  BY <1>0, <1>7, <2>1
              DEF Reply, page, FrameOK, SendingOK, MarkOK, SafeModeRunsNoStudentCode, Wanted,
                  Shown, Running
<1>8. ASSUME NEW e \in Error, Crash(e) PROVE Inv'
  <2>1. ReadyComes' <=> ReadyComes
    BY <1>8, TellingParent, MessagesAre DEF Crash
  <2>2. installed # Original
    BY <1>8 DEF Crash, CrashesShown
  <2> QED  BY <1>0, <1>8, <2>1, <2>2
              DEF Crash, page, FrameOK, SendingOK, MarkOK, SafeModeRunsNoStudentCode, Wanted,
                  Shown
<1> QED  BY <1>1, <1>2, <1>3, <1>4, <1>5, <1>6, <1>7, <1>8 DEF EventLoop

LEMMA SpecInv == Spec => []Inv
<1>1. Inv /\ [Next]_vars => Inv'
  <2>1. ASSUME Inv, UNCHANGED vars PROVE Inv'
    BY <2>1
       DEF vars, page, preview, Inv, TypeOK, FrameOK, SendingOK, MarkOK,
           SafeModeRunsNoStudentCode, Wanted, ReadyComes, Shown
  <2> QED  BY <2>1, StudentInv, EventLoopInv DEF Next
<1> QED  BY InitInv, <1>1, PTL DEF Spec

-----------------------------------------------------------------------------
(* Errors. *)

\* e is in the list, or in a message to the page, or in a reply yet to be sent.
Told(e) == \E i \in DOMAIN toParent : toParent[i] # Ready /\ e \in toParent[i].errors
ToBeTold(e) == \E j \in DOMAIN replies : e \in replies[j]
Reaches(e) == e \in errors \/ Told(e) \/ ToBeTold(e)

\* Sources that will be shown instead report their own errors.
ErrorsOK ==
  wiped \/ toPreview # <<>> \/ ReadyComes
  \/ \A e \in ErrorsShown \cup crashed : Reaches(e)

LEMMA TellingErrors ==
  ASSUME TypeOK, NEW m \in Message, m # Ready, toParent' = Append(toParent, m)
  PROVE  /\ \A e \in m.errors : Told(e)'
         /\ \A e : Told(e) => Told(e)'
<1>1. toParent \in Seq(Message)
  BY DEF TypeOK
<1>2. /\ Len(toParent) + 1 \in DOMAIN toParent' /\ toParent'[Len(toParent) + 1] = m
      /\ \A i \in DOMAIN toParent : i \in DOMAIN toParent' /\ toParent'[i] = toParent[i]
  BY <1>1
<1> HIDE DEF Ready
<1> QED  BY <1>2 DEF Told

LEMMA ReadingErrors ==
  ASSUME TypeOK, toParent # <<>>, toParent' = Tail(toParent), NEW e, Told(e)
  PROVE  Told(e)' \/ (Head(toParent) # Ready /\ e \in Head(toParent).errors)
<1>1. toParent \in Seq(Message)
  BY DEF TypeOK
<1>2. /\ Head(toParent) = toParent[1]
      /\ \A i \in DOMAIN toParent \ {1} : i - 1 \in DOMAIN Tail(toParent)
                                       /\ Tail(toParent)[i - 1] = toParent[i]
  BY <1>1
<1> HIDE DEF Ready
<1> QED  BY <1>2 DEF Told

LEMMA Replying ==
  ASSUME TypeOK, replies # <<>>, replies' = Tail(replies), NEW e, ToBeTold(e)
  PROVE  ToBeTold(e)' \/ e \in Head(replies)
<1>1. replies \in Seq(SUBSET Error)
  BY DEF TypeOK
<1>2. /\ Head(replies) = replies[1]
      /\ \A i \in DOMAIN replies \ {1} : i - 1 \in DOMAIN Tail(replies)
                                      /\ Tail(replies)[i - 1] = replies[i]
  BY <1>1
<1> QED  BY <1>2 DEF ToBeTold

\* Whatever is sent empties the list and takes the place of what is shown.
LEMMA SendErrors ==
  ASSUME Inv, ErrorsOK, NEW force \in BOOLEAN, Send(force), UNCHANGED <<preview, toParent>>
  PROVE  ErrorsOK'
<1>1. CASE ready /\ (force \/ Wanted # lastSent)
  <2>1. CASE loaded
    <3>1. toPreview \in Seq(Source \cup {Original})
      BY DEF Inv, TypeOK
    <3>2. toPreview' = Append(toPreview, Wanted)
      BY <1>1, <2>1 DEF Send
    <3>3. toPreview' # <<>>
      BY <3>1, <3>2
    <3> QED  BY <3>3 DEF ErrorsOK
  <2>2. CASE ~loaded
    <3>1. installed' = Original /\ crashed' = {}
      BY <2>2 DEF Inv, FrameOK, preview
    <3>2. (ErrorsShown \cup crashed)' = {}
      BY <3>1, SomeSources DEF ErrorsShown
    <3> QED  BY <3>2 DEF ErrorsOK
  <2> QED  BY <2>1, <2>2
<1>2. CASE ~(ready /\ (force \/ Wanted # lastSent))
  BY <1>2 DEF Send, ErrorsOK, ReadyComes, ErrorsShown, Reaches, Told, ToBeTold, preview
<1> QED  BY <1>1, <1>2

LEMMA StudentErrors == ASSUME Inv, ErrorsOK, Student PROVE ErrorsOK'
<1>1. ASSUME UNCHANGED <<errors, toPreview, toParent, preview, wiped>> PROVE ErrorsOK'
  BY <1>1 DEF ErrorsOK, ReadyComes, ErrorsShown, Reaches, Told, ToBeTold, preview
<1>2. ASSUME LeaveFrame PROVE ErrorsOK'
  BY <1>2, SomeSources DEF LeaveFrame, ErrorsOK, ErrorsShown
<1>3. CASE ResetAll
  BY <1>3 DEF ResetAll, ErrorsOK
<1>4. CASE Run
  BY <1>4, SendErrors DEF Run
<1> QED
  BY <1>1, <1>2, <1>3, <1>4
     DEF Student, Edit, Reopen, TryAgain, ReloadFrame, HangWhileBrowsing, page

LEMMA EventLoopErrors == ASSUME Inv, ErrorsOK, EventLoop PROVE ErrorsOK'
<1>1. CASE DebounceEnds
  BY <1>1, SendErrors DEF DebounceEnds
<1>2. CASE HandleMessage
  <2>1. CASE Head(toParent) = Ready
    <3>1. CASE loaded
      <4>1. toPreview \in Seq(Source \cup {Original})
        BY DEF Inv, TypeOK
      <4>2. toPreview' = Append(toPreview, Wanted)
        BY <1>2, <2>1, <3>1 DEF HandleMessage, HandleReady
      <4>3. toPreview' # <<>>
        BY <4>1, <4>2
      <4> QED  BY <4>3 DEF ErrorsOK
    <3>2. CASE ~loaded
      <4>1. installed' = Original /\ crashed' = {}
        BY <1>2, <3>2 DEF HandleMessage, Inv, FrameOK, preview
      <4>2. (ErrorsShown \cup crashed)' = {}
        BY <4>1, SomeSources DEF ErrorsShown
      <4> QED  BY <4>2 DEF ErrorsOK
    <3> QED  BY <3>1, <3>2
  <2>2. CASE Head(toParent) # Ready
    <3>1. /\ errors' = errors \cup Head(toParent).errors
          /\ UNCHANGED <<toPreview, wiped, installed, crashed, replies>>
      BY <1>2, <2>2 DEF HandleMessage, HandleErrors, preview
    <3>2. ReadyComes' <=> ReadyComes
      BY <1>2, <2>2, ReadingParent DEF HandleMessage, Inv
    <3>3. \A e : Reaches(e) => Reaches(e)'
      BY <1>2, <2>2, <3>1, ReadingErrors DEF HandleMessage, Reaches, ToBeTold, Inv
    <3> QED  BY <3>1, <3>2, <3>3 DEF ErrorsOK, ErrorsShown
  <2> QED  BY <2>1, <2>2
<1>3. CASE Load
  BY <1>3, TellingParent, MessagesAre DEF Load, ErrorsOK, Inv
<1>4. CASE ApplyOriginal
  BY <1>4, SomeSources DEF ApplyOriginal, ErrorsOK, ErrorsShown
<1>5. CASE ApplyStudentCode
  <2>1. /\ installed' \in Source /\ crashed' = {}
        /\ replies' = Append(replies, ErrorsIn[installed'])
    BY <1>5 DEF ApplyStudentCode
  <2>2. replies \in Seq(SUBSET Error)
    BY DEF Inv, TypeOK
  <2>3. Len(replies) + 1 \in DOMAIN replies' /\ replies'[Len(replies) + 1] = ErrorsIn[installed']
    BY <2>1, <2>2, ErrorsOfSources
  <2>4. \A e \in (ErrorsShown \cup crashed)' : ToBeTold(e)'
    BY <2>1, <2>3 DEF ErrorsShown, ToBeTold
  <2> QED  BY <2>4 DEF ErrorsOK, Reaches
<1>6. CASE ApplyHangs
  BY <1>6 DEF ApplyHangs, page, preview, ErrorsOK, ReadyComes, ErrorsShown, Reaches, Told, ToBeTold
<1>7. CASE Reply
  <2> DEFINE m == Applied(Head(replies))
  <2>1. m \in Message /\ m # Ready /\ m.errors = Head(replies)
    <3>1. Head(replies) \in SUBSET Error
      BY <1>7 DEF Reply, Inv, TypeOK
    <3> QED  BY <3>1, MessagesAre DEF Applied
  <2>2. /\ toParent' = Append(toParent, m)
        /\ UNCHANGED <<errors, toPreview, wiped, installed, crashed>>
    BY <1>7 DEF Reply, page
  <2> HIDE DEF m
  <2>3. ReadyComes' <=> ReadyComes
    BY <2>1, <2>2, TellingParent DEF Inv
  <2>4. \A e : Reaches(e) => Reaches(e)'
    BY <1>7, <2>1, <2>2, TellingErrors, Replying DEF Reply, Reaches, Inv
  <2> QED  BY <2>2, <2>3, <2>4 DEF ErrorsOK, ErrorsShown
<1>8. ASSUME NEW e \in Error, Crash(e) PROVE ErrorsOK'
  <2> DEFINE m == RuntimeError(e)
  <2>1. m \in Message /\ m # Ready /\ m.errors = {e}
    BY MessagesAre DEF RuntimeError
  <2>2. /\ toParent' = Append(toParent, m) /\ crashed' = crashed \cup {e}
        /\ UNCHANGED <<errors, toPreview, wiped, installed, replies>>
    BY <1>8 DEF Crash, page
  <2> HIDE DEF m
  <2>3. ReadyComes' <=> ReadyComes
    BY <2>1, <2>2, TellingParent DEF Inv
  <2>4. Reaches(e)' /\ \A x : Reaches(x) => Reaches(x)'
    BY <2>1, <2>2, TellingErrors DEF Reaches, ToBeTold, Inv
  <2> QED  BY <2>2, <2>3, <2>4 DEF ErrorsOK, ErrorsShown
<1> QED  BY <1>1, <1>2, <1>3, <1>4, <1>5, <1>6, <1>7, <1>8 DEF EventLoop

LEMMA SpecErrors == Spec => []ErrorsOK
<1>1. Init => ErrorsOK
  BY SomeSources DEF Init, ErrorsOK, ErrorsShown
<1>2. Inv /\ ErrorsOK /\ [Next]_vars => ErrorsOK'
  <2>1. ASSUME ErrorsOK, UNCHANGED vars PROVE ErrorsOK'
    BY <2>1 DEF vars, page, preview, ErrorsOK, ReadyComes, ErrorsShown, Reaches, Told, ToBeTold
  <2> QED  BY <2>1, StudentErrors, EventLoopErrors DEF Next
<1> QED  BY SpecInv, <1>1, <1>2, PTL DEF Spec

-----------------------------------------------------------------------------

\* The page, the preview and the messages between them keep their types.
THEOREM TypeCorrect == Spec => []TypeOK
BY SpecInv, PTL DEF Inv

\* In safe mode the preview holds no student code and none is on its way to it.
THEOREM SafeModeIsSafe == Spec => []SafeModeRunsNoStudentCode
BY SpecInv, PTL DEF Inv

\* A settled preview shows the latest sources.
THEOREM SettledAlwaysCurrent == Spec => []SettledPreviewIsCurrent
<1>1. Inv => SettledPreviewIsCurrent
  BY DEF Inv, SendingOK, SettledPreviewIsCurrent, Settled, ReadyComes, Shown
<1> QED  BY SpecInv, <1>1, PTL

\* A settled list misses no error of the code on show.
THEOREM ErrorsAreNeverLost == Spec => []NoErrorIsLost
<1>1. ErrorsOK => NoErrorIsLost
  BY DEF ErrorsOK, NoErrorIsLost, Settled, ReadyComes, Reaches, Told, ToBeTold
<1> QED  BY SpecErrors, <1>1, PTL

\* The mark outlives a tab that freezes while it applies code.
THEOREM HangsAreRemembered == Spec => HangWhileApplyingIsRemembered
<1> DEFINE Remembered == Reopen("reload") /\ frozen = "applying" => safeMode'
<1>1. Inv => Remembered
  BY DEF Inv, MarkOK, Reopen
<1>2. Inv /\ [Next]_vars => [Remembered]_vars
  BY <1>1
<1> QED  BY SpecInv, <1>2, PTL DEF Spec, HangWhileApplyingIsRemembered

-----------------------------------------------------------------------------
(* Induction, recursive functions and folds. *)

LEMMA Least ==
  ASSUME NEW T, T \subseteq Nat, T # {}
  PROVE  \E m \in T : \A k \in T : m <= k
<1> DEFINE R == {ss \in Nat \X Nat : ss[1] < ss[2]}
<1>1. IsWellFoundedOn(R, Nat)
  BY NatLessThanWellFounded DEF OpToRel
<1>2. \A i, j \in Nat : i < j => <<i, j>> \in R
  OBVIOUS
<1> HIDE DEF R
<1>3. PICK x \in T : \A y \in T : ~ (<<y, x>> \in R)
  BY <1>1, WFMin
<1>4. ASSUME NEW k \in T  PROVE x <= k
  <2>1. x \in Nat /\ k \in Nat
    OBVIOUS
  <2>2. ~(k < x)
    BY <1>2, <1>3, <2>1
  <2> QED BY <2>1, <2>2
<1> QED BY <1>4

LEMMA Induction ==
  ASSUME NEW T, 0 \in T, \A n \in Nat : n \in T => n + 1 \in T
  PROVE  \A n \in Nat : n \in T
<1> DEFINE Out == {n \in Nat : n \notin T}
<1> SUFFICES ASSUME Out # {}  PROVE FALSE
  OBVIOUS
<1>1. PICK m \in Out : \A k \in Out : m <= k
  BY Least
<1>2. m \in Nat /\ m # 0
  OBVIOUS
<1>3. m - 1 \in Nat /\ m - 1 \in T
  BY <1>1, <1>2
<1>4. (m - 1) + 1 \in T
  BY <1>3
<1> QED BY <1>2, <1>4

Unrolls(f, start, next) == f[0] = start /\ \A n \in Nat : f[n + 1] = next[<<n, f[n]>>]

IsRecursion(S, start, next, n, g) ==
  /\ g \in [0..n -> S]
  /\ g[0] = start
  /\ \A k \in 0..n : k < n => g[k + 1] = next[<<k, g[k]>>]

LEMMA Recursion ==
  ASSUME NEW S, NEW start \in S, NEW next \in [Nat \X S -> S]
  PROVE  \E f \in [Nat -> S] : Unrolls(f, start, next)
<1> DEFINE IsUpTo(g, n) == IsRecursion(S, start, next, n, g)
<1>1. ASSUME NEW n \in Nat, NEW g, NEW h, NEW m \in Nat, IsUpTo(g, n), IsUpTo(h, m)
      PROVE  \A k \in Nat : k <= n /\ k <= m => g[k] = h[k]
  <2> DEFINE T == {k \in Nat : k <= n /\ k <= m => g[k] = h[k]}
  <2>1. 0 \in T
    BY <1>1 DEF IsRecursion
  <2>2. ASSUME NEW k \in Nat, k \in T  PROVE k + 1 \in T
    <3> SUFFICES ASSUME k + 1 <= n, k + 1 <= m  PROVE g[k + 1] = h[k + 1]
      OBVIOUS
    <3>1. k \in 0..n /\ k < n /\ k \in 0..m /\ k < m
      OBVIOUS
    <3>2. g[k] = h[k]
      BY <2>2, <3>1
    <3> QED BY <1>1, <3>1, <3>2 DEF IsRecursion
  <2> HIDE DEF T
  <2>3. \A k \in Nat : k \in T
    BY <2>1, <2>2, Induction
  <2> QED BY <2>3 DEF T
<1>2. \A n \in Nat : \E g : IsUpTo(g, n)
  <2> DEFINE T == {n \in Nat : \E g : IsUpTo(g, n)}
  <2>1. 0 \in T
    <3>1. IsUpTo([k \in 0..0 |-> start], 0)
      BY DEF IsRecursion
    <3> QED BY <3>1
  <2>2. ASSUME NEW n \in Nat, n \in T  PROVE n + 1 \in T
    <3>1. PICK g : IsUpTo(g, n)
      BY <2>2
    <3>2. /\ g \in [0..n -> S] /\ g[0] = start
          /\ \A k \in 0..n : k < n => g[k + 1] = next[<<k, g[k]>>]
      BY <3>1 DEF IsRecursion
    <3>3. g[n] \in S
      BY <3>2
    <3>4. PICK last \in S : last = next[<<n, g[n]>>]
      BY <3>3
    <3> DEFINE h == [k \in 0..(n + 1) |-> IF k = n + 1 THEN last ELSE g[k]]
    <3>5. h \in [0..(n + 1) -> S]
      BY <3>2
    <3>6. h[0] = start
      BY <3>2
    <3>7. ASSUME NEW k \in 0..(n + 1), k < n + 1  PROVE h[k + 1] = next[<<k, h[k]>>]
      <4>1. k \in 0..n /\ h[k] = g[k]
        BY <3>7
      <4>2. CASE k = n
        <5>1. h[n + 1] = last
          OBVIOUS
        <5> QED BY <3>4, <4>1, <4>2, <5>1
      <4>3. CASE k < n
        <5>1. h[k + 1] = g[k + 1]
          BY <4>1, <4>3
        <5> QED BY <3>2, <4>1, <4>3, <5>1
      <4> QED BY <4>1, <4>2, <4>3
    <3> HIDE DEF h
    <3>8. IsUpTo(h, n + 1)
      BY <3>5, <3>6, <3>7 DEF IsRecursion
    <3> QED BY <3>8
  <2> HIDE DEF T
  <2>3. \A n \in Nat : n \in T
    BY <2>1, <2>2, Induction
  <2> QED BY <2>3 DEF T
<1> DEFINE upTo(n) == CHOOSE g : IsUpTo(g, n)
           f == [n \in Nat |-> upTo(n)[n]]
<1>3. \A n \in Nat : IsUpTo(upTo(n), n)
  BY <1>2
<1> HIDE DEF upTo
<1>4. f \in [Nat -> S]
  BY <1>3 DEF IsRecursion
<1>5. f[0] = start
  BY <1>3 DEF IsRecursion
<1>6. ASSUME NEW n \in Nat  PROVE f[n + 1] = next[<<n, f[n]>>]
  <2>1. IsUpTo(upTo(n), n) /\ IsUpTo(upTo(n + 1), n + 1)
    BY <1>3
  <2>2. upTo(n)[n] = upTo(n + 1)[n]
    BY <1>1, <2>1
  <2>3. upTo(n + 1)[n + 1] = next[<<n, upTo(n + 1)[n]>>]
    BY <2>1 DEF IsRecursion
  <2> QED BY <2>2, <2>3
<1> QED BY <1>4, <1>5, <1>6 DEF Unrolls

LEMMA GreatestOf ==
  ASSUME NEW n \in Nat, NEW s \in SUBSET (1..n), s # {}
  PROVE  Max(s) \in s /\ \A k \in s : k <= Max(s)
<1> DEFINE D == {n - k : k \in s}
<1>1. PICK d \in D : \A e \in D : d <= e
  <2>1. \A k \in s : k \in Nat /\ n - k \in Nat
    OBVIOUS
  <2>2. D \subseteq Nat /\ D # {}
    BY <2>1
  <2> QED BY <2>2, Least
<1>2. PICK m \in s : d = n - m
  OBVIOUS
<1>3. \A k \in s : m >= k
  BY <1>1, <1>2
<1> QED BY <1>3 DEF Max

IsIter(T, S, f, base, seq, m, g) ==
  /\ g \in [SUBSET (1..m) -> T]
  /\ \A s \in SUBSET (1..m) :
       g[s] = IF s = {} THEN base ELSE f[<<g[s \ {Max(s)}], seq[Max(s)]>>]

LEMMA IterExists ==
  ASSUME NEW T, NEW S, NEW base \in T, NEW f \in [T \X S -> T], NEW seq \in Seq(S)
  PROVE  \E g : IsIter(T, S, f, base, seq, Len(seq), g)
<1> DEFINE N == {m \in Nat : m <= Len(seq) => \E g : IsIter(T, S, f, base, seq, m, g)}
<1>1. 0 \in N
  <2> DEFINE g == [s \in SUBSET (1..0) |-> base]
  <2>1. \A s \in SUBSET (1..0) : s = {}
    OBVIOUS
  <2>2. IsIter(T, S, f, base, seq, 0, g)
    BY <2>1 DEF IsIter
  <2> QED BY <2>2
<1>2. ASSUME NEW m \in Nat, m \in N  PROVE m + 1 \in N
  <2> SUFFICES ASSUME m + 1 <= Len(seq)
               PROVE  \E g : IsIter(T, S, f, base, seq, m + 1, g)
    OBVIOUS
  <2>1. PICK g : IsIter(T, S, f, base, seq, m, g)
    BY <1>2
  <2>2. PICK x \in S : x = seq[m + 1]
    <3>1. m + 1 \in 1..Len(seq)
      BY LenProperties
    <3> QED BY <3>1, ElementOfSeq
  <2> DEFINE h == [s \in SUBSET (1..(m + 1)) |->
                     IF m + 1 \in s THEN f[<<g[s \ {m + 1}], x>>] ELSE g[s]]
  <2>3. \A s \in SUBSET (1..(m + 1)) :
          /\ s \ {m + 1} \in SUBSET (1..m)
          /\ m + 1 \notin s => s \in SUBSET (1..m)
          /\ m + 1 \in s => Max(s) = m + 1
    <3> TAKE s \in SUBSET (1..(m + 1))
    <3>1. \A k \in s : k \in Nat /\ 1 <= k /\ k <= m + 1
      OBVIOUS
    <3>2. s \ {m + 1} \in SUBSET (1..m)
      BY <3>1
    <3>3. ASSUME m + 1 \in s  PROVE Max(s) = m + 1
      <4>1. Max(s) \in s /\ \A k \in s : k <= Max(s)
        <5>1. m + 1 \in Nat /\ s # {}
          BY <3>3
        <5> QED BY <5>1, GreatestOf
      <4>2. PICK most \in s : most = Max(s) /\ \A k \in s : k <= most
        BY <4>1
      <4>3. most <= m + 1 /\ m + 1 <= most /\ most \in Nat
        BY <3>1, <3>3, <4>2
      <4> QED BY <4>2, <4>3
    <3> QED BY <3>2, <3>3
  <2>4. h \in [SUBSET (1..(m + 1)) -> T]
    <3>1. \A s \in SUBSET (1..m) : g[s] \in T
      BY <2>1 DEF IsIter
    <3>2. ASSUME NEW s \in SUBSET (1..(m + 1))  PROVE h[s] \in T
      <4>1. CASE m + 1 \in s
        <5>1. <<g[s \ {m + 1}], x>> \in T \X S
          BY <2>2, <2>3, <3>1
        <5>2. \A p \in T \X S : f[p] \in T
          OBVIOUS
        <5>3. h[s] = IF m + 1 \in s THEN f[<<g[s \ {m + 1}], x>>] ELSE g[s]
          OBVIOUS
        <5> HIDE DEF h
        <5> QED BY <4>1, <5>1, <5>2, <5>3
      <4>2. CASE m + 1 \notin s
        BY <2>3, <3>1, <4>2
      <4> QED BY <4>1, <4>2
    <3> QED BY <3>2
  <2>5. ASSUME NEW s \in SUBSET (1..(m + 1))
        PROVE  h[s] = IF s = {} THEN base ELSE f[<<h[s \ {Max(s)}], seq[Max(s)]>>]
    <3>1. CASE m + 1 \in s
      <4>1. s # {} /\ Max(s) = m + 1 /\ m + 1 \notin s \ {m + 1}
        BY <2>3, <3>1
      <4>2. h[s \ {m + 1}] = g[s \ {m + 1}]
        BY <2>3
      <4>3. h[s] = f[<<g[s \ {m + 1}], x>>]
        BY <3>1
      <4> QED BY <2>2, <4>1, <4>2, <4>3
    <3>2. CASE m + 1 \notin s
      <4>1. s \in SUBSET (1..m) /\ h[s] = g[s]
        BY <2>3, <3>2
      <4>2. g[s] = IF s = {} THEN base ELSE f[<<g[s \ {Max(s)}], seq[Max(s)]>>]
        BY <2>1, <4>1 DEF IsIter
      <4>3. h[s \ {Max(s)}] = g[s \ {Max(s)}]
        BY <3>2, <4>1
      <4> QED BY <4>1, <4>2, <4>3
    <3> QED BY <3>1, <3>2
  <2> HIDE DEF h
  <2>6. IsIter(T, S, f, base, seq, m + 1, h)
    BY <2>4, <2>5 DEF IsIter
  <2> QED BY <2>6
<1> HIDE DEF N
<1>3. \A m \in Nat : m \in N
  BY <1>1, <1>2, Induction
<1> QED BY <1>3, LenProperties DEF N

IsTrace(T, S, f, base, seq, h) ==
  /\ h \in [0..Len(seq) -> T]
  /\ h[0] = base
  /\ \A k \in 1..Len(seq) : h[k] = f[<<h[k - 1], seq[k]>>]

Fold(T, S, f, base, seq) == (CHOOSE h : IsTrace(T, S, f, base, seq, h))[Len(seq)]

LEMMA TraceExists ==
  ASSUME NEW T, NEW S, NEW base \in T, NEW f \in [T \X S -> T], NEW seq \in Seq(S)
  PROVE  \E h : IsTrace(T, S, f, base, seq, h)
<1> DEFINE next == [p \in Nat \X T |->
                      IF p[1] < Len(seq) THEN f[<<p[2], seq[p[1] + 1]>>] ELSE p[2]]
<1>0. Len(seq) \in Nat /\ \A k \in 1..Len(seq) : seq[k] \in S
  BY LenProperties, ElementOfSeq
<1>1. next \in [Nat \X T -> T]
  <2>1. ASSUME NEW p \in Nat \X T  PROVE next[p] \in T
    <3>1. p[1] \in Nat /\ p[2] \in T
      OBVIOUS
    <3>2. CASE p[1] < Len(seq)
      <4>1. <<p[2], seq[p[1] + 1]>> \in T \X S
        BY <1>0, <3>1, <3>2
      <4>2. \A q \in T \X S : f[q] \in T
        OBVIOUS
      <4> QED BY <3>2, <4>1, <4>2
    <3>3. CASE ~(p[1] < Len(seq))
      BY <3>1, <3>3
    <3> QED BY <3>2, <3>3
  <2> QED BY <2>1
<1>2. \A n \in Nat, t \in T : n < Len(seq) => next[<<n, t>>] = f[<<t, seq[n + 1]>>]
  OBVIOUS
<1> HIDE DEF next
<1>3a. PICK g \in [Nat -> T] : Unrolls(g, base, next)
  BY <1>1, Recursion
<1>3. g[0] = base /\ \A n \in Nat : g[n + 1] = next[<<n, g[n]>>]
  BY <1>3a DEF Unrolls
<1> DEFINE h == [k \in 0..Len(seq) |-> g[k]]
<1>4. h \in [0..Len(seq) -> T] /\ h[0] = base
  BY <1>0, <1>3
<1>5. ASSUME NEW k \in 1..Len(seq)  PROVE h[k] = f[<<h[k - 1], seq[k]>>]
  <2>1. k - 1 \in Nat /\ k - 1 < Len(seq) /\ k - 1 \in 0..Len(seq) /\ k \in 0..Len(seq)
        /\ (k - 1) + 1 = k
    BY <1>0
  <2>2. g[(k - 1) + 1] = next[<<k - 1, g[k - 1]>>] /\ g[k - 1] \in T
    BY <1>3, <2>1
  <2>3. g[k] = f[<<g[k - 1], seq[k]>>]
    BY <1>2, <2>1, <2>2
  <2>4. h[k] = g[k] /\ h[k - 1] = g[k - 1]
    BY <2>1
  <2> QED BY <2>3, <2>4
<1> HIDE DEF h
<1>6. IsTrace(T, S, f, base, seq, h)
  BY <1>4, <1>5 DEF IsTrace
<1> QED BY <1>6

Begins(seq, other) ==
  Len(seq) <= Len(other) /\ \A k \in 1..Len(seq) : seq[k] = other[k]

\* Traces of two sequences agree as far as the sequences do.
TracesAgree(T, S, f, base) ==
  \A seq, other \in Seq(S) : \A h, g :
    Begins(seq, other) /\ IsTrace(T, S, f, base, seq, h) /\ IsTrace(T, S, f, base, other, g)
    => h[Len(seq)] = g[Len(seq)]

LEMMA TracesDoAgree ==
  ASSUME NEW T, NEW S, NEW base \in T, NEW f \in [T \X S -> T]
  PROVE  TracesAgree(T, S, f, base)
<1> SUFFICES ASSUME NEW seq \in Seq(S), NEW other \in Seq(S), Begins(seq, other),
                    NEW h, IsTrace(T, S, f, base, seq, h),
                    NEW g, IsTrace(T, S, f, base, other, g)
             PROVE  h[Len(seq)] = g[Len(seq)]
  BY DEF TracesAgree
<1> DEFINE P == {k \in Nat : k <= Len(seq) => h[k] = g[k]}
<1>0. Len(seq) \in Nat /\ Len(other) \in Nat
  BY LenProperties
<1>1. 0 \in P
  BY DEF IsTrace
<1>2. ASSUME NEW k \in Nat, k \in P  PROVE k + 1 \in P
  <2> SUFFICES ASSUME k + 1 <= Len(seq)  PROVE h[k + 1] = g[k + 1]
    OBVIOUS
  <2>1. /\ k + 1 \in 1..Len(seq) /\ k + 1 \in 1..Len(other) /\ (k + 1) - 1 = k
        /\ h[k] = g[k] /\ seq[k + 1] = other[k + 1]
    BY <1>0, <1>2 DEF Begins
  <2>2. h[k + 1] = f[<<h[(k + 1) - 1], seq[k + 1]>>] /\ g[k + 1] = f[<<g[(k + 1) - 1], other[k + 1]>>]
    BY <2>1 DEF IsTrace
  <2> QED BY <2>1, <2>2
<1> HIDE DEF P
<1>3. \A k \in Nat : k \in P
  BY <1>1, <1>2, Induction
<1> QED BY <1>0, <1>3 DEF P

LEMMA FoldOfTrace ==
  ASSUME NEW T, NEW S, NEW base \in T, NEW f \in [T \X S -> T], NEW seq \in Seq(S),
         NEW h, IsTrace(T, S, f, base, seq, h)
  PROVE  Fold(T, S, f, base, seq) = h[Len(seq)] /\ h[Len(seq)] \in T
<1> DEFINE g == CHOOSE g : IsTrace(T, S, f, base, seq, g)
<1>1. IsTrace(T, S, f, base, seq, g)
  OBVIOUS
<1>2. Len(seq) \in Nat
  BY LenProperties
<1>3. Fold(T, S, f, base, seq) = g[Len(seq)]
  BY DEF Fold
<1> HIDE DEF g
<1>4. g[Len(seq)] = h[Len(seq)]
  <2>1. Begins(seq, seq)
    BY <1>2 DEF Begins
  <2>0. TracesAgree(T, S, f, base)
    BY TracesDoAgree
  <2> QED BY <1>1, <2>0, <2>1 DEF TracesAgree
<1> QED BY <1>2, <1>3, <1>4 DEF IsTrace

EndsInFold(T, S, f, base) ==
  \A seq \in Seq(S) : \A h :
    IsTrace(T, S, f, base, seq, h) => Fold(T, S, f, base, seq) = h[Len(seq)]

LEMMA TracesEndInFold ==
  ASSUME NEW T, NEW S, NEW base \in T, NEW f \in [T \X S -> T]
  PROVE  EndsInFold(T, S, f, base)
BY FoldOfTrace DEF EndsInFold

LEMMA FoldEmpty ==
  ASSUME NEW T, NEW S, NEW base \in T, NEW f \in [T \X S -> T]
  PROVE  Fold(T, S, f, base, <<>>) = base
<1>1. <<>> \in Seq(S) /\ Len(<<>>) = 0
  OBVIOUS
<1>2. PICK h : IsTrace(T, S, f, base, <<>>, h)
  BY <1>1, TraceExists
<1>3. Fold(T, S, f, base, <<>>) = h[Len(<<>>)]
  BY <1>1, <1>2, FoldOfTrace, ZenonT(60)
<1> QED BY <1>1, <1>2, <1>3 DEF IsTrace

LEMMA FoldType ==
  ASSUME NEW T, NEW S, NEW base \in T, NEW f \in [T \X S -> T], NEW seq \in Seq(S)
  PROVE  Fold(T, S, f, base, seq) \in T
<1>1. PICK h : IsTrace(T, S, f, base, seq, h)
  BY TraceExists
<1>2. Fold(T, S, f, base, seq) = h[Len(seq)] /\ h[Len(seq)] \in T
  BY <1>1, FoldOfTrace
<1> QED BY <1>2

FoldGrows(T, S, f, base) ==
  \A seq \in Seq(S), x \in S :
    Fold(T, S, f, base, Append(seq, x)) = f[<<Fold(T, S, f, base, seq), x>>]

LEMMA FoldAppend ==
  ASSUME NEW T, NEW S, NEW base \in T, NEW f \in [T \X S -> T]
  PROVE  FoldGrows(T, S, f, base)
<1> SUFFICES ASSUME NEW seq \in Seq(S), NEW x \in S
             PROVE  Fold(T, S, f, base, Append(seq, x)) = f[<<Fold(T, S, f, base, seq), x>>]
  BY DEF FoldGrows
<1> DEFINE all == Append(seq, x)
<1>1. /\ all \in Seq(S) /\ Len(seq) \in Nat /\ Len(all) = Len(seq) + 1
      /\ \A k \in 1..Len(seq) : seq[k] = all[k]
      /\ all[Len(seq) + 1] = x
  BY AppendProperties, LenProperties
<1> HIDE DEF all
<1>2. PICK h : IsTrace(T, S, f, base, seq, h)
  BY TraceExists
<1>3. PICK g : IsTrace(T, S, f, base, all, g)
  BY <1>1, TraceExists
<1>4. h[Len(seq)] = g[Len(seq)]
  <2>1. Begins(seq, all)
    BY <1>1 DEF Begins
  <2>0. TracesAgree(T, S, f, base)
    BY TracesDoAgree
  <2> QED BY <1>1, <1>2, <1>3, <2>0, <2>1 DEF TracesAgree
<1>5. Fold(T, S, f, base, seq) = h[Len(seq)] /\ h[Len(seq)] \in T
  BY <1>2, FoldOfTrace
<1>6. Fold(T, S, f, base, all) = g[Len(all)]
  BY <1>1, <1>3, FoldOfTrace, ZenonT(60)
<1>7. g[Len(all)] = f[<<g[Len(all) - 1], all[Len(all)]>>]
  <2>1. Len(all) \in 1..Len(all)
    BY <1>1
  <2> QED BY <1>3, <2>1 DEF IsTrace
<1>8. Len(all) - 1 = Len(seq)
  BY <1>1
<1> QED BY <1>1, <1>4, <1>5, <1>6, <1>7, <1>8 DEF all

\* What is known of the function a fold of the community modules is defined by.
Iterates(T, f, base, seq, it) ==
  /\ it[{}] = base
  /\ \A s \in SUBSET (1..Len(seq)) :
       s # {} /\ it[s \ {Max(s)}] \in T => it[s] = f[<<it[s \ {Max(s)}], seq[Max(s)]>>]

LEMMA IteratedIsFold ==
  ASSUME NEW T, NEW S, NEW base \in T, NEW f \in [T \X S -> T], NEW seq \in Seq(S),
         NEW it, Iterates(T, f, base, seq, it)
  PROVE  it[1..Len(seq)] = Fold(T, S, f, base, seq)
<1>0. Len(seq) \in Nat /\ \A k \in 1..Len(seq) : seq[k] \in S
  BY LenProperties, ElementOfSeq
<1>1. PICK h : IsTrace(T, S, f, base, seq, h)
  BY TraceExists
<1> DEFINE P == {k \in Nat : k <= Len(seq) => it[1..k] = h[k]}
<1>2. 0 \in P
  <2>1. 1..0 = {}
    OBVIOUS
  <2> QED BY <1>1, <2>1 DEF IsTrace, Iterates
<1>3. ASSUME NEW k \in Nat, k \in P  PROVE k + 1 \in P
  <2> SUFFICES ASSUME k + 1 <= Len(seq)  PROVE it[1..(k + 1)] = h[k + 1]
    OBVIOUS
  <2>1. it[1..k] = h[k]
    BY <1>0, <1>3
  <2>2. h[k] \in T
    BY <1>0, <1>1 DEF IsTrace
  <2>3. 1..(k + 1) \in SUBSET (1..Len(seq)) /\ k + 1 \in 1..(k + 1) /\ k + 1 \in 1..Len(seq)
    BY <1>0
  <2>4. 1..(k + 1) # {}
    BY <2>3
  <2>5. Max(1..(k + 1)) = k + 1
    <3>1. PICK n \in Nat : n = k + 1
      BY <2>3
    <3>2. Max(1..n) \in 1..n /\ \A j \in 1..n : j <= Max(1..n)
      BY <2>4, <3>1, GreatestOf
    <3>3. n \in 1..n
      BY <2>3, <3>1
    <3> QED BY <3>1, <3>2, <3>3
  <2>6. (1..(k + 1)) \ {k + 1} = 1..k
    OBVIOUS
  <2>7. it[1..(k + 1)] = f[<<h[k], seq[k + 1]>>]
    BY <2>1, <2>2, <2>3, <2>4, <2>5, <2>6 DEF Iterates
  <2>8. h[k + 1] = f[<<h[(k + 1) - 1], seq[k + 1]>>] /\ (k + 1) - 1 = k
    BY <1>1, <2>3 DEF IsTrace
  <2> QED BY <2>7, <2>8
<1> HIDE DEF P
<1>4. \A k \in Nat : k \in P
  BY <1>2, <1>3, Induction
<1>5. it[1..Len(seq)] = h[Len(seq)]
  BY <1>0, <1>4 DEF P
<1>6. Fold(T, S, f, base, seq) = h[Len(seq)]
  BY <1>1, FoldOfTrace, ZenonT(60)
<1> QED BY <1>5, <1>6

\* What holds of the empty sequence, and of every one that is one longer than one
\* it holds of, holds of all.
LEMMA InductionOnSequences ==
  ASSUME NEW S, NEW P, <<>> \in P, \A s \in Seq(S), x \in S : s \in P => Append(s, x) \in P
  PROVE  \A s \in Seq(S) : s \in P
<1> DEFINE N == {n \in Nat : \A s \in Seq(S) : Len(s) = n => s \in P}
<1>1. 0 \in N
  BY EmptySeq
<1>2. ASSUME NEW n \in Nat, n \in N  PROVE n + 1 \in N
  <2> SUFFICES ASSUME NEW s \in Seq(S), Len(s) = n + 1  PROVE s \in P
    OBVIOUS
  <2> DEFINE t == SubSeq(s, 1, n)
  <2>1. t \in Seq(S) /\ Len(t) = n /\ s[n + 1] \in S /\ s = Append(t, s[n + 1])
    OBVIOUS
  <2> HIDE DEF t
  <2>2. t \in P
    BY <1>2, <2>1
  <2> QED BY <2>1, <2>2
<1> HIDE DEF N
<1>3. \A n \in Nat : n \in N
  BY <1>1, <1>2, Induction
<1> QED BY <1>3, LenProperties DEF N

ScanStep == [p \in ScanMode \X STRING |-> Scan(p[1], p[2])]

LEMMA ScanIsFolded ==
  ASSUME NEW text \in Seq(STRING), NEW mode \in ScanMode
  PROVE  FoldLeft(Scan, mode, text) = Fold(ScanMode, STRING, ScanStep, mode, text)
<1> DEFINE Iter(it) == [s \in SUBSET (DOMAIN text) |->
                          IF s = {} THEN mode ELSE Scan(it[s \ {Max(s)}], text[Max(s)])]
           iter == CHOOSE it : it = Iter(it)
<1>0. DOMAIN text = 1..Len(text) /\ Len(text) \in Nat
  BY LenProperties
<1>1. ScanStep \in [ScanMode \X STRING -> ScanMode]
  BY DEF ScanStep, ScanMode, Scan
<1>2. \A m \in ScanMode, t \in STRING : ScanStep[<<m, t>>] = Scan(m, t)
  BY DEF ScanStep
<1>3. \A s \in SUBSET (1..Len(text)) : s # {} => Max(s) \in s /\ text[Max(s)] \in STRING
  BY <1>0, GreatestOf, ElementOfSeq
<1>4. \E it : it = Iter(it)
  <2>1. PICK g : IsIter(ScanMode, STRING, ScanStep, mode, text, Len(text), g)
    BY <1>1, IterExists
  <2>2. ASSUME NEW s \in SUBSET (1..Len(text))
        PROVE  g[s] = IF s = {} THEN mode ELSE Scan(g[s \ {Max(s)}], text[Max(s)])
    BY <1>2, <1>3, <2>1, <2>2 DEF IsIter
  <2>3. DOMAIN g = SUBSET (1..Len(text)) /\ g = [s \in DOMAIN g |-> g[s]]
    BY <2>1 DEF IsIter
  <2>4. g = Iter(g)
    BY <1>0, <2>2, <2>3
  <2> QED BY <2>4
<1>5. iter = Iter(iter)
  BY <1>4
<1>6. FoldLeft(Scan, mode, text) = iter[DOMAIN text]
  BY DEF FoldLeft, MapThenFoldSet
<1> HIDE DEF iter
<1>7. Iterates(ScanMode, ScanStep, mode, text, iter)
  BY <1>0, <1>2, <1>3, <1>5 DEF Iterates
<1>8. iter[1..Len(text)] = Fold(ScanMode, STRING, ScanStep, mode, text)
  BY <1>1, <1>7, IteratedIsFold, ZenonT(60)
<1> QED BY <1>0, <1>6, <1>8

-----------------------------------------------------------------------------
(* Loading the code of a student. *)

LEMMA ImportsAreText ==
  ASSUME NEW source \in Text
  PROVE  Imports(source) \in Text
<1>0. Len(source) \in Nat /\ DOMAIN source = 1..Len(source)
  BY LenProperties DEF Text
<1>1. CASE Refused(source) = {}
  BY <1>0, <1>1, SubSeqProperties DEF Imports, Text
<1>2. CASE Refused(source) # {}
  <2>1. Refused(source) \subseteq 1..Len(source)
    BY <1>0 DEF Refused
  <2>2. PICK least \in Refused(source) : \A i \in Refused(source) : least <= i
    <3>1. Refused(source) \subseteq Nat
      BY <1>0, <2>1
    <3> QED BY <1>2, <3>1, Least
  <2>3. Min(Refused(source)) \in Refused(source)
    BY <2>2 DEF Min
  <2>4. PICK n \in 1..Len(source) : n = Min(Refused(source))
    BY <2>1, <2>3
  <2>5. Imports(source) = SubSeq(source, 1, n - 1)
    BY <1>2, <2>4 DEF Imports
  <2>6. SubSeq(source, 1, n - 1) \in Seq(STRING)
    BY <1>0, SubSeqProperties DEF Text
  <2> QED BY <2>5, <2>6 DEF Text
<1> QED BY <1>1, <1>2

LEMMA LoaderTypes ==
  ASSUME NEW st \in Loader, NEW name \in Module
  PROVE  /\ \A box \in Box : Cached(st, name, box) \in Loader
         /\ \A why \in {"run", "default"} : Report(st, name, why) \in Loader
         /\ Fails(st, name) \in Loader
         /\ \A by \in Module : Given(st, by, name) \in Loader
<1>1. ASSUME NEW other \in Loader, NEW box \in Box  PROVE Cached(other, name, box) \in Loader
  BY DEF Loader, Cached
<1>2. \A why \in {"run", "default"} : Report(st, name, why) \in Loader
  BY DEF Loader, Report
<1>3. Fails(st, name) \in Loader
  BY <1>1, <1>2 DEF Fails, Box
<1>4. ASSUME NEW by \in Module  PROVE Given(st, by, name) \in Loader
  <2>1. [by |-> by, of |-> name, box |-> st.cache[name]] \in [by : Module, of : Module, box : Box]
    BY DEF Loader
  <2> QED BY <2>1 DEF Loader, Given
<1> QED BY <1>1, <1>2, <1>3, <1>4

Loads == [Module -> [Loader -> Loader]]

RequireStep(load, name) == [p \in Loader \X STRING |-> Require(load, name, p[1], p[2])]

LEMMA RequireIsTyped ==
  ASSUME NEW load \in Loads, NEW name \in Module
  PROVE  /\ RequireStep(load, name) \in [Loader \X STRING -> Loader]
         /\ \A st \in Loader, t \in STRING :
              RequireStep(load, name)[<<st, t>>] = Require(load, name, st, t)
<1>1. ASSUME NEW st \in Loader, NEW t \in STRING  PROVE Require(load, name, st, t) \in Loader
  <2>1. CASE IsImport(t) /\ ImportOf[t] \in Module
    <3>1. load[ImportOf[t]][st] \in Loader
      BY <2>1 DEF Loads
    <3> QED BY <2>1, <3>1, LoaderTypes DEF Require
  <2>2. CASE ~(IsImport(t) /\ ImportOf[t] \in Module)
    BY <2>2 DEF Require
  <2> QED BY <2>1, <2>2
<1> QED BY <1>1 DEF RequireStep

\* The run of a file is the fold of what its imports do.
LEMMA RunIsFolded ==
  ASSUME NEW load \in Loads, NEW name \in Module, NEW text \in Text, NEW st \in Loader
  PROVE  FoldLeft(LAMBDA sofar, token : Require(load, name, sofar, token), st, text)
           = Fold(Loader, STRING, RequireStep(load, name), st, text)
<1> DEFINE Iter(it) == [s \in SUBSET (DOMAIN text) |->
                          IF s = {} THEN st ELSE Require(load, name, it[s \ {Max(s)}], text[Max(s)])]
           iter == CHOOSE it : it = Iter(it)
           f == RequireStep(load, name)
<1> HIDE DEF f
<1>0. DOMAIN text = 1..Len(text) /\ Len(text) \in Nat
  BY LenProperties DEF Text
<1>1. f \in [Loader \X STRING -> Loader]
  BY RequireIsTyped DEF f
<1>2. \A m \in Loader, t \in STRING : f[<<m, t>>] = Require(load, name, m, t)
  BY RequireIsTyped DEF f
<1>3. \A s \in SUBSET (1..Len(text)) : s # {} => Max(s) \in s /\ text[Max(s)] \in STRING
  BY <1>0, GreatestOf, ElementOfSeq DEF Text
<1>4. \E it : it = Iter(it)
  <2>1. PICK g : IsIter(Loader, STRING, f, st, text, Len(text), g)
    BY <1>1, IterExists DEF Text
  <2>2. ASSUME NEW s \in SUBSET (1..Len(text))
        PROVE  g[s] = IF s = {} THEN st ELSE Require(load, name, g[s \ {Max(s)}], text[Max(s)])
    BY <1>2, <1>3, <2>1, <2>2 DEF IsIter
  <2>3. DOMAIN g = SUBSET (1..Len(text)) /\ g = [s \in DOMAIN g |-> g[s]]
    BY <2>1 DEF IsIter
  <2>4. g = Iter(g)
    BY <1>0, <2>2, <2>3
  <2> QED BY <2>4
<1>5. iter = Iter(iter)
  BY <1>4
<1>6. FoldLeft(LAMBDA sofar, token : Require(load, name, sofar, token), st, text) = iter[DOMAIN text]
  BY DEF FoldLeft, MapThenFoldSet
<1> HIDE DEF iter
<1>7. Iterates(Loader, f, st, text, iter)
  BY <1>0, <1>2, <1>3, <1>5 DEF Iterates
<1>8. text \in Seq(STRING)
  BY DEF Text
<1>9. iter[1..Len(text)] = Fold(Loader, STRING, f, st, text)
  BY <1>1, <1>7, <1>8, IteratedIsFold, ZenonT(60)
<1> QED BY <1>0, <1>6, <1>9 DEF f

Failed(st, name) == [file |-> name, why |-> "run"] \in st.errors
WithoutDefault(st, name) == [file |-> name, why |-> "default"] \in st.errors
NotLoaded(st) == {name \in Module : st.cache[name] = NotCached}

\* What holds whenever a file begins or ends: a box is the built-in one just when the
\* file failed or has no code, a file fails only when its code throws, and a box that was given is the one in the cache, or the
\* file it is of has failed since.
Explained(code, st) ==
  /\ st \in Loader
  /\ \A name \in Module :
       st.cache[name] = Builtin
         <=> Failed(st, name) \/ (st.cache[name] # NotCached /\ name \notin DOMAIN code)
  /\ \A name \in Module : Failed(st, name) => name \in DOMAIN code /\ Throws(code[name])
  /\ \A h \in st.held : /\ h.box # NotCached /\ st.cache[h.of] # NotCached
                        /\ h.box # st.cache[h.of] => Failed(st, h.of)

\* What a call of load does to the files that were in the cache: nothing.
Leaves(st, new) ==
  /\ \A name \in Module : st.cache[name] # NotCached => new.cache[name] = st.cache[name]
  /\ \A name \in Module : WithoutDefault(new, name) <=> WithoutDefault(st, name)

LoadsWell(code, load, depth) ==
  \A name \in Module, st \in Loader :
    Explained(code, st) /\ Cardinality(NotLoaded(st)) <= depth
    => /\ Explained(code, load[name][st])
       /\ Leaves(st, load[name][st])
       /\ load[name][st].cache[name] # NotCached

LEMMA LeavesIsTransitive ==
  ASSUME NEW a, NEW b, NEW c, Leaves(a, b), Leaves(b, c)
  PROVE  Leaves(a, c)
BY DEF Leaves

LEMMA NotLoadedShrinks ==
  ASSUME NEW a, NEW b, Leaves(a, b)
  PROVE  NotLoaded(b) \subseteq NotLoaded(a)
BY DEF Leaves, NotLoaded

LEMMA ModuleIsFinite == IsFiniteSet(Module)
<1>1. Len(StudentModules) \in Nat /\ DOMAIN StudentModules = 1..Len(StudentModules)
  BY FilesAreListed, LenProperties
<1>2. IsFiniteSet(1..Len(StudentModules))
  BY <1>1, FS_Interval
<1> DEFINE f == [i \in 1..Len(StudentModules) |-> StudentModules[i]]
<1>3. f \in Surjection(1..Len(StudentModules), Module)
  BY <1>1 DEF Surjection, Module, ToSet
<1> QED BY <1>2, <1>3, FS_Surjection

LEMMA CountOfNotLoaded ==
  ASSUME NEW st
  PROVE  IsFiniteSet(NotLoaded(st)) /\ Cardinality(NotLoaded(st)) \in Nat
<1>1. NotLoaded(st) \subseteq Module
  BY DEF NotLoaded
<1> QED BY <1>1, ModuleIsFinite, FS_Subset, FS_CardinalityType

LEMMA CachedIsExplained ==
  ASSUME NEW code, NEW st, Explained(code, st), NEW name \in Module, st.cache[name] = NotCached,
         NEW box, box = IF name \in DOMAIN code THEN Exports ELSE Builtin
  PROVE  /\ Explained(code, Cached(st, name, box))
         /\ Leaves(st, Cached(st, name, box))
         /\ Cached(st, name, box).cache[name] = box
<1> DEFINE new == Cached(st, name, box)
<1>0. box \in Box /\ box # NotCached
  BY DEF Box, Exports, Builtin, NotCached
<1>1. /\ new.errors = st.errors /\ new.held = st.held
      /\ new.cache = [st.cache EXCEPT ![name] = box]
      /\ new \in Loader
  BY <1>0, LoaderTypes DEF Explained, Loader, Cached
<1>2. /\ new.cache[name] = box
      /\ \A other \in Module : other # name => new.cache[other] = st.cache[other]
  BY <1>1 DEF Explained, Loader
<1>3. ~Failed(st, name)
  BY DEF Explained, NotCached, Builtin
<1> HIDE DEF new
<1>4. \A other \in Module :
        new.cache[other] = Builtin
          <=> Failed(new, other) \/ (new.cache[other] # NotCached /\ other \notin DOMAIN code)
  BY <1>1, <1>2, <1>3, <1>0 DEF Explained, Failed, Builtin, Exports
<1>5. ASSUME NEW h \in new.held
      PROVE  /\ h.box # NotCached /\ new.cache[h.of] # NotCached
             /\ h.box # new.cache[h.of] => Failed(new, h.of)
  <2>1. h \in st.held /\ h.of \in Module
    BY <1>1 DEF Explained, Loader
  <2>2. st.cache[h.of] # NotCached /\ h.of # name
    BY <2>1 DEF Explained
  <2> QED BY <1>1, <1>2, <2>1, <2>2 DEF Explained, Failed
<1>6. Explained(code, new)
  BY <1>1, <1>4, <1>5 DEF Explained, Failed
<1>7. Leaves(st, new)
  BY <1>1, <1>2 DEF Leaves, WithoutDefault
<1> QED BY <1>2, <1>6, <1>7 DEF new

LEMMA FailsIsExplained ==
  ASSUME NEW code, NEW st, Explained(code, st), NEW name \in Module, st.cache[name] = Exports,
         name \in DOMAIN code, Throws(code[name])
  PROVE  /\ Explained(code, Fails(st, name))
         /\ Fails(st, name).cache[name] = Builtin
         /\ \A other \in Module : /\ other # name => Fails(st, name).cache[other] = st.cache[other]
                                  /\ WithoutDefault(Fails(st, name), other) <=> WithoutDefault(st, other)
<1> DEFINE new == Fails(st, name)
<1>1. /\ new.errors = st.errors \cup {[file |-> name, why |-> "run"]} /\ new.held = st.held
      /\ new.cache = [st.cache EXCEPT ![name] = Builtin]
      /\ new \in Loader
  BY LoaderTypes DEF Explained, Loader, Fails, Report, Cached
<1>2. /\ new.cache[name] = Builtin
      /\ \A other \in Module : other # name => new.cache[other] = st.cache[other]
  BY <1>1 DEF Explained, Loader
<1> HIDE DEF new
<1>3. /\ Failed(new, name)
      /\ \A other : other # name => (Failed(new, other) <=> Failed(st, other))
      /\ \A other : WithoutDefault(new, other) <=> WithoutDefault(st, other)
  BY <1>1 DEF Failed, WithoutDefault
<1>4. \A other \in Module :
        new.cache[other] = Builtin
          <=> Failed(new, other) \/ (new.cache[other] # NotCached /\ other \notin DOMAIN code)
  BY <1>2, <1>3 DEF Explained
<1>5. ASSUME NEW h \in new.held
      PROVE  /\ h.box # NotCached /\ new.cache[h.of] # NotCached
             /\ h.box # new.cache[h.of] => Failed(new, h.of)
  <2>1. h \in st.held /\ h.of \in Module
    BY <1>1 DEF Explained, Loader
  <2> QED BY <1>2, <1>3, <2>1 DEF Explained, Builtin, NotCached
<1>6. Explained(code, new)
  BY <1>1, <1>3, <1>4, <1>5 DEF Explained
<1> QED BY <1>2, <1>3, <1>6 DEF new

LEMMA GivenIsExplained ==
  ASSUME NEW code, NEW st, Explained(code, st), NEW by \in Module, NEW of \in Module,
         st.cache[of] # NotCached
  PROVE  Explained(code, Given(st, by, of)) /\ Leaves(st, Given(st, by, of))
<1> DEFINE new == Given(st, by, of)
           one == [by |-> by, of |-> of, box |-> st.cache[of]]
<1>1. /\ new.errors = st.errors /\ new.cache = st.cache /\ new.held = st.held \cup {one}
      /\ new \in Loader
  BY LoaderTypes DEF Explained, Loader, Given
<1>2. one.of = of /\ one.box = st.cache[of]
  OBVIOUS
<1> HIDE DEF new, one
<1>3. \A h \in new.held : /\ h.box # NotCached /\ new.cache[h.of] # NotCached
                          /\ h.box # new.cache[h.of] => Failed(new, h.of)
  BY <1>1, <1>2 DEF Explained, Failed
<1>4. Explained(code, new)
  BY <1>1, <1>3 DEF Explained, Failed
<1>5. Leaves(st, new)
  BY <1>1 DEF Leaves, WithoutDefault
<1> QED BY <1>4, <1>5 DEF new

LEMMA RequireIsExplained ==
  ASSUME NEW code, NEW load \in Loads, NEW depth \in Nat, LoadsWell(code, load, depth),
         NEW name \in Module, NEW token \in STRING,
         NEW st, Explained(code, st), Cardinality(NotLoaded(st)) <= depth
  PROVE  /\ Explained(code, Require(load, name, st, token))
         /\ Leaves(st, Require(load, name, st, token))
<1>1. CASE IsImport(token) /\ ImportOf[token] \in Module
  <2> DEFINE asked == ImportOf[token]
             new == load[asked][st]
  <2>1. /\ Explained(code, new) /\ Leaves(st, new) /\ new.cache[asked] # NotCached
    BY <1>1 DEF LoadsWell, Explained
  <2>2. Require(load, name, st, token) = Given(new, name, asked)
    BY <1>1 DEF Require
  <2> HIDE DEF new
  <2>3. Explained(code, Given(new, name, asked)) /\ Leaves(new, Given(new, name, asked))
    BY <1>1, <2>1, GivenIsExplained
  <2> QED BY <2>1, <2>2, <2>3, LeavesIsTransitive
<1>2. CASE ~(IsImport(token) /\ ImportOf[token] \in Module)
  BY <1>2 DEF Require, Leaves
<1> QED BY <1>1, <1>2

LEMMA RunIsExplained ==
  ASSUME NEW code, NEW load \in Loads, NEW depth \in Nat, LoadsWell(code, load, depth),
         NEW name \in Module, name \in DOMAIN code, NEW source \in Text, source = code[name],
         NEW st, Explained(code, st), Cardinality(NotLoaded(st)) <= depth,
         st.cache[name] = Exports
  PROVE  LET new == RunFile(load, name, source, st)
         IN /\ Explained(code, new) /\ new.cache[name] # NotCached
            /\ \A other \in Module :
                 /\ st.cache[other] # NotCached /\ other # name => new.cache[other] = st.cache[other]
                 /\ WithoutDefault(new, other) <=> WithoutDefault(st, other)
<1> DEFINE f == RequireStep(load, name)
           after(text) == Fold(Loader, STRING, f, st, text)
           P == {text \in Text : Explained(code, after(text)) /\ Leaves(st, after(text))}
<1>0. st \in Loader /\ f \in [Loader \X STRING -> Loader]
      /\ \A s \in Loader, t \in STRING : f[<<s, t>>] = Require(load, name, s, t)
  BY RequireIsTyped DEF Explained
<1> HIDE DEF f
<1>1. <<>> \in P
  <2>1. <<>> \in Text
    BY DEF Text
  <2>2. after(<<>>) = st
    BY <1>0, FoldEmpty
  <2>3. Leaves(st, st)
    BY DEF Leaves
  <2> QED BY <2>1, <2>2, <2>3
<1>2. ASSUME NEW text \in Seq(STRING), NEW t \in STRING, text \in P
      PROVE  Append(text, t) \in P
  <2>1. after(text) \in Loader /\ after(Append(text, t)) = f[<<after(text), t>>]
    <3>1. after(text) \in Loader
      BY <1>0, FoldType
    <3>2. after(Append(text, t)) = f[<<after(text), t>>]
      <4>1. FoldGrows(Loader, STRING, f, st)
        BY <1>0, FoldAppend
      <4> QED BY <4>1 DEF FoldGrows
    <3> QED BY <3>1, <3>2
  <2>2. Explained(code, after(text)) /\ Leaves(st, after(text))
    BY <1>2
  <2>3. Append(text, t) \in Text
    BY DEF Text
  <2> HIDE DEF after
  <2>4. PICK middle \in Loader : middle = after(text)
    BY <2>1
  <2>5. Cardinality(NotLoaded(middle)) <= depth
    <3>1. NotLoaded(middle) \subseteq NotLoaded(st)
      BY <2>2, <2>4, NotLoadedShrinks
    <3>2. Cardinality(NotLoaded(middle)) <= Cardinality(NotLoaded(st))
      BY <3>1, CountOfNotLoaded, FS_Subset
    <3> QED BY <3>2, CountOfNotLoaded
  <2>6. /\ Explained(code, Require(load, name, middle, t))
        /\ Leaves(middle, Require(load, name, middle, t))
    BY <2>2, <2>4, <2>5, RequireIsExplained
  <2>7. after(Append(text, t)) = Require(load, name, middle, t)
    BY <1>0, <2>1, <2>4
  <2> QED BY <2>2, <2>3, <2>4, <2>6, <2>7, LeavesIsTransitive
<1> HIDE DEF P
<1>3. \A text \in Seq(STRING) : text \in P
  BY <1>1, <1>2, InductionOnSequences
<1> DEFINE ran == after(Imports(source))
<1>4. Explained(code, ran) /\ Leaves(st, ran)
  BY <1>3, ImportsAreText DEF P, Text
<1>5. ran = FoldLeft(LAMBDA sofar, token : Require(load, name, sofar, token), st, Imports(source))
  BY <1>0, RunIsFolded, ImportsAreText DEF f
<1>6. RunFile(load, name, source, st) = IF Throws(source) THEN Fails(ran, name) ELSE ran
  BY <1>5 DEF RunFile
<1> HIDE DEF ran
<1>7. ran.cache[name] = Exports
  BY <1>4 DEF Leaves, Exports, NotCached
<1>8. CASE ~Throws(source)
  BY <1>4, <1>6, <1>7, <1>8 DEF Leaves, Exports, NotCached
<1>9. CASE Throws(source)
  <2>1. /\ Explained(code, Fails(ran, name)) /\ Fails(ran, name).cache[name] = Builtin
        /\ \A other \in Module :
             /\ other # name => Fails(ran, name).cache[other] = ran.cache[other]
             /\ WithoutDefault(Fails(ran, name), other) <=> WithoutDefault(ran, other)
    BY <1>4, <1>7, <1>9, FailsIsExplained
  <2> QED BY <1>4, <1>6, <1>9, <2>1 DEF Leaves, Builtin, NotCached
<1> QED BY <1>8, <1>9

LEMMA RunIsTyped ==
  ASSUME NEW load \in Loads, NEW name \in Module, NEW source \in Text, NEW st \in Loader
  PROVE  RunFile(load, name, source, st) \in Loader
<1> DEFINE f == RequireStep(load, name)
           after(text) == Fold(Loader, STRING, f, st, text)
<1>0. f \in [Loader \X STRING -> Loader]
  BY RequireIsTyped
<1>1. \A text \in Text : after(text) \in Loader
  <2> HIDE DEF f
  <2> QED BY <1>0, FoldType DEF Text
<1>2. after(Imports(source))
        = FoldLeft(LAMBDA sofar, token : Require(load, name, sofar, token), st, Imports(source))
  BY RunIsFolded, ImportsAreText
<1>3. after(Imports(source)) \in Loader
  BY <1>1, ImportsAreText
<1> HIDE DEF after
<1>4. Fails(after(Imports(source)), name) \in Loader
  BY <1>3, LoaderTypes
<1> QED BY <1>2, <1>3, <1>4 DEF RunFile

LEMMA LoadWithinIsTyped ==
  ASSUME NEW code, \A name \in DOMAIN code : code[name] \in Text,
         NEW depth, NEW load \in Loads, NEW name \in Module, NEW st \in Loader
  PROVE  LoadWithin(code, depth, load, name, st) \in Loader
<1>1. CASE name \in DOMAIN code
  <2>1. Cached(st, name, Exports) \in Loader
    BY LoaderTypes DEF Box
  <2>2. RunFile(load, name, code[name], Cached(st, name, Exports)) \in Loader
    BY <1>1, <2>1, RunIsTyped
  <2> QED BY <1>1, <2>2 DEF LoadWithin
<1>2. CASE name \notin DOMAIN code
  BY <1>2, LoaderTypes DEF LoadWithin, Box
<1> QED BY <1>1, <1>2

\* With a nesting of so many calls every load ends in which no more files are missing.
LEMMA LoadWithinIsExplained ==
  ASSUME NEW code, \A name \in DOMAIN code : code[name] \in Text,
         NEW depth \in Nat, NEW load \in Loads, LoadsWell(code, load, depth),
         NEW name \in Module,
         NEW st, Explained(code, st), Cardinality(NotLoaded(st)) <= depth + 1
  PROVE  LET new == LoadWithin(code, depth + 1, load, name, st)
         IN Explained(code, new) /\ Leaves(st, new) /\ new.cache[name] # NotCached
<1>1. CASE st.cache[name] # NotCached
  BY <1>1 DEF LoadWithin, Leaves
<1>2. CASE st.cache[name] = NotCached /\ name \notin DOMAIN code
  <2>1. /\ Explained(code, Cached(st, name, Builtin)) /\ Leaves(st, Cached(st, name, Builtin))
        /\ Cached(st, name, Builtin).cache[name] = Builtin
    BY <1>2, CachedIsExplained
  <2> QED BY <1>2, <2>1 DEF LoadWithin, Builtin, NotCached
<1>3. CASE st.cache[name] = NotCached /\ name \in DOMAIN code
  <2> DEFINE begun == Cached(st, name, Exports)
             new == RunFile(load, name, code[name], begun)
  <2>1. Explained(code, begun) /\ Leaves(st, begun) /\ begun.cache[name] = Exports
    BY <1>3, CachedIsExplained
  <2>2. LoadWithin(code, depth + 1, load, name, st) = new
    BY <1>3 DEF LoadWithin
  <2> HIDE DEF begun
  <2>3. Cardinality(NotLoaded(begun)) <= depth
    <3>1. name \in NotLoaded(st) /\ NotLoaded(begun) \subseteq NotLoaded(st) \ {name}
      BY <1>3, <2>1, NotLoadedShrinks DEF NotLoaded, Exports, NotCached
    <3>2. /\ IsFiniteSet(NotLoaded(st) \ {name})
          /\ Cardinality(NotLoaded(st) \ {name}) = Cardinality(NotLoaded(st)) - 1
      BY <3>1, CountOfNotLoaded, FS_RemoveElement
    <3>3. Cardinality(NotLoaded(begun)) <= Cardinality(NotLoaded(st) \ {name})
      BY <3>1, <3>2, FS_Subset
    <3> QED BY <3>2, <3>3, CountOfNotLoaded
  <2>4. /\ Explained(code, new) /\ new.cache[name] # NotCached
        /\ \A other \in Module :
             /\ begun.cache[other] # NotCached /\ other # name
                => new.cache[other] = begun.cache[other]
             /\ WithoutDefault(new, other) <=> WithoutDefault(begun, other)
    <3>1. PICK source \in Text : source = code[name]
      BY <1>3
    <3> QED BY <1>3, <2>1, <2>3, <3>1, RunIsExplained
  <2> HIDE DEF new
  <2>5. Leaves(st, new)
    BY <1>3, <2>1, <2>4 DEF Leaves
  <2> QED BY <2>2, <2>4, <2>5
<1> QED BY <1>1, <1>2, <1>3

IsCode(code) == DOMAIN code \subseteq Module /\ \A name \in DOMAIN code : code[name] \in Text

\* load with a nesting of any depth is a function, and loads well.
LEMMA LoadIsExplained ==
  ASSUME NEW code, IsCode(code)
  PROVE  LoadFile(code) \in Loads /\ LoadsWell(code, LoadFile(code), Cardinality(Module))
<1> DEFINE Call(depth, load) ==
             [name \in Module |-> [st \in Loader |-> LoadWithin(code, depth, load, name, st)]]
           Rec(w) == [depth \in Nat |-> Call(depth, w[depth - 1])]
           within == CHOOSE w : w = Rec(w)
           nothing == [name \in Module |-> [st \in Loader |-> st]]
           start == Call(0, nothing)
           next == [p \in Nat \X Loads |-> Call(p[1] + 1, p[2])]
<1>0. nothing \in Loads
  BY DEF Loads
<1>1. \A depth \in Nat, load \in Loads : Call(depth, load) \in Loads
  <2> TAKE depth \in Nat, load \in Loads
  <2>1. \A name \in Module, st \in Loader : LoadWithin(code, depth, load, name, st) \in Loader
    BY LoadWithinIsTyped DEF IsCode
  <2> QED BY <2>1 DEF Loads
<1>2. start \in Loads /\ next \in [Nat \X Loads -> Loads]
  <2> HIDE DEF Call, nothing
  <2>1. start \in Loads
    BY <1>0, <1>1
  <2>2. \A p \in Nat \X Loads : p[1] + 1 \in Nat /\ p[2] \in Loads
    OBVIOUS
  <2> QED BY <1>1, <2>1, <2>2
<1>3. \A depth \in Nat, load \in Loads : next[<<depth, load>>] = Call(depth + 1, load)
  <2> HIDE DEF Call
  <2> QED OBVIOUS
<1>4. \A load : Call(0, load) = start
  BY DEF LoadWithin
<1> HIDE DEF Call, start, next, nothing
<1>5. \E w : w = Rec(w)
  <2>1. PICK w \in [Nat -> Loads] : Unrolls(w, start, next)
    BY <1>2, Recursion
  <2>2. ASSUME NEW depth \in Nat  PROVE w[depth] = Call(depth, w[depth - 1])
    <3>1. CASE depth = 0
      BY <1>4, <2>1, <3>1 DEF Unrolls
    <3>2. CASE depth # 0
      <4>1. depth - 1 \in Nat /\ (depth - 1) + 1 = depth
        BY <3>2
      <4>2. w[(depth - 1) + 1] = next[<<depth - 1, w[depth - 1]>>] /\ w[depth - 1] \in Loads
        BY <2>1, <4>1 DEF Unrolls
      <4>3. next[<<depth - 1, w[depth - 1]>>] = Call((depth - 1) + 1, w[depth - 1])
        BY <1>3, <4>1, <4>2
      <4> QED BY <4>1, <4>2, <4>3
    <3> QED BY <3>1, <3>2
  <2>3. w = Rec(w)
    BY <2>2
  <2> QED BY <2>3
<1>6. within = Rec(within)
  BY <1>5
<1>7. LoadFile(code) = within[Cardinality(Module)]
  BY DEF LoadFile, Call
<1> HIDE DEF within
<1>8. \A depth \in Nat : within[depth] = Call(depth, within[depth - 1])
  BY <1>6
<1> DEFINE P == {depth \in Nat : within[depth] \in Loads /\ LoadsWell(code, within[depth], depth)}
<1>9. 0 \in P
  <2>1. within[0] = start
    BY <1>4, <1>8
  <2>2. within[0] \in Loads
    BY <1>2, <2>1
  <2>3. ASSUME NEW name \in Module, NEW st \in Loader, Explained(code, st),
               Cardinality(NotLoaded(st)) <= 0
        PROVE  within[0][name][st] = st /\ st.cache[name] # NotCached
    <3>1. NotLoaded(st) = {}
      BY <2>3, CountOfNotLoaded, FS_EmptySet
    <3>2. st.cache[name] # NotCached
      BY <3>1 DEF NotLoaded
    <3>3. within[0][name][st] = LoadWithin(code, 0, nothing, name, st)
      BY <2>1 DEF start, Call
    <3> QED BY <3>2, <3>3 DEF LoadWithin
  <2>4. LoadsWell(code, within[0], 0)
    BY <2>3 DEF LoadsWell, Leaves
  <2> QED BY <2>2, <2>4
<1>10. ASSUME NEW depth \in Nat, depth \in P  PROVE depth + 1 \in P
  <2> DEFINE load == within[depth]
  <2>1. within[depth + 1] = Call(depth + 1, load)
    BY <1>8
  <2>2. load \in Loads /\ LoadsWell(code, load, depth)
    BY <1>10
  <2> HIDE DEF load
  <2>3. within[depth + 1] \in Loads
    BY <1>1, <2>1, <2>2
  <2>4. \A name \in Module, st \in Loader :
          within[depth + 1][name][st] = LoadWithin(code, depth + 1, load, name, st)
    BY <2>1 DEF Call
  <2>5. ASSUME NEW name \in Module, NEW st \in Loader, Explained(code, st),
               Cardinality(NotLoaded(st)) <= depth + 1
        PROVE  LET new == LoadWithin(code, depth + 1, load, name, st)
               IN Explained(code, new) /\ Leaves(st, new) /\ new.cache[name] # NotCached
    BY <2>2, <2>5, LoadWithinIsExplained DEF IsCode
  <2>6. LoadsWell(code, within[depth + 1], depth + 1)
    BY <2>4, <2>5 DEF LoadsWell
  <2> QED BY <2>3, <2>6
<1> HIDE DEF P
<1>11. \A depth \in Nat : depth \in P
  BY <1>9, <1>10, Induction
<1>12. Cardinality(Module) \in Nat
  BY ModuleIsFinite, FS_CardinalityType
<1> QED BY <1>7, <1>11, <1>12 DEF P

Tables == [loader : Loader, modules : [Module -> Box]]
NextStep(code) == [p \in Tables \X Module |-> LoadNext(code, p[1], p[2])]

\* The table of the files that were taken from it so far.
TableOK(code, sofar, done) ==
  LET st == sofar.loader
  IN /\ Explained(code, st)
     /\ \A name \in Module :
          WithoutDefault(st, name) => st.cache[name] = Exports /\ ~HasDefault(code[name])
     /\ \A name \in done :
          /\ st.cache[name] # NotCached
          /\ sofar.modules[name] = IF WithoutDefault(st, name) THEN Builtin ELSE st.cache[name]

LEMMA LoadNextIsTyped ==
  ASSUME NEW code, IsCode(code), NEW sofar \in Tables, NEW name \in Module
  PROVE  LoadNext(code, sofar, name) \in Tables
<1> DEFINE st == LoadFile(code)[name][sofar.loader]
<1>1. sofar.loader \in Loader /\ sofar.modules \in [Module -> Box]
  BY DEF Tables
<1>2. st \in Loader
  BY <1>1, LoadIsExplained DEF Loads
<1> HIDE DEF st
<1>3. Report(st, name, "default") \in Loader
  BY <1>2, LoaderTypes
<1>4. st.cache[name] \in Box
  BY <1>2 DEF Loader
<1> QED BY <1>1, <1>2, <1>3, <1>4 DEF LoadNext, Tables, Box, st

LEMMA LoadNextIsExplained ==
  ASSUME NEW code, IsCode(code), NEW sofar \in Tables, NEW done, done \subseteq Module,
         NEW name \in Module, TableOK(code, sofar, done)
  PROVE  TableOK(code, LoadNext(code, sofar, name), done \cup {name})
<1> DEFINE old == sofar.loader
           st == LoadFile(code)[name][old]
           unusable == st.cache[name] = Exports /\ ~HasDefault(code[name])
           new == LoadNext(code, sofar, name)
<1>1. old \in Loader /\ sofar.modules \in [Module -> Box] /\ Explained(code, old)
  BY DEF Tables, TableOK
<1>2. Explained(code, st) /\ Leaves(old, st) /\ st.cache[name] # NotCached /\ st \in Loader
  <2>1. Cardinality(NotLoaded(old)) <= Cardinality(Module)
    <3>1. NotLoaded(old) \subseteq Module
      BY DEF NotLoaded
    <3> QED BY <3>1, ModuleIsFinite, FS_Subset
  <2>2. LoadsWell(code, LoadFile(code), Cardinality(Module)) /\ LoadFile(code) \in Loads
    BY LoadIsExplained
  <2> QED BY <1>1, <2>1, <2>2 DEF LoadsWell, Loads
<1>3. /\ new.loader = IF unusable THEN Report(st, name, "default") ELSE st
      /\ new.modules = [sofar.modules EXCEPT ![name] = IF unusable THEN Builtin ELSE st.cache[name]]
  BY DEF LoadNext
<1> HIDE DEF st, new
<1>4. /\ new.loader \in Loader /\ new.loader.cache = st.cache /\ new.loader.held = st.held
      /\ new.loader.errors = st.errors
           \cup IF unusable THEN {[file |-> name, why |-> "default"]} ELSE {}
  <2>1. Report(st, name, "default") \in Loader
    BY <1>2, LoaderTypes
  <2>2. /\ Report(st, name, "default").cache = st.cache
        /\ Report(st, name, "default").held = st.held
        /\ Report(st, name, "default").errors
             = st.errors \cup {[file |-> name, why |-> "default"]}
    BY <1>2 DEF Loader, Report
  <2>3. CASE unusable
    BY <1>3, <2>1, <2>2, <2>3
  <2>4. CASE ~unusable
    BY <1>2, <1>3, <2>4
  <2> QED BY <2>3, <2>4
<1>5. \A other : /\ Failed(new.loader, other) <=> Failed(st, other)
                 /\ WithoutDefault(new.loader, other)
                      <=> WithoutDefault(st, other) \/ (unusable /\ other = name)
  BY <1>4 DEF Failed, WithoutDefault
<1>6. \A other \in Module : WithoutDefault(st, other)
                              => st.cache[other] = Exports /\ ~HasDefault(code[other])
  BY <1>1, <1>2 DEF TableOK, Leaves, Exports, NotCached
<1>7. Explained(code, new.loader)
  BY <1>2, <1>4, <1>5 DEF Explained
<1>8. \A other \in Module : WithoutDefault(new.loader, other)
                              => new.loader.cache[other] = Exports /\ ~HasDefault(code[other])
  BY <1>4, <1>5, <1>6
<1>9. /\ new.modules[name] = IF unusable THEN Builtin ELSE st.cache[name]
      /\ \A other \in Module : other # name => new.modules[other] = sofar.modules[other]
  BY <1>1, <1>3
<1>10. WithoutDefault(new.loader, name) <=> unusable
  BY <1>5, <1>6
<1>11. ASSUME NEW other \in done \cup {name}
       PROVE  /\ new.loader.cache[other] # NotCached
              /\ new.modules[other] = IF WithoutDefault(new.loader, other) THEN Builtin
                                      ELSE new.loader.cache[other]
  <2>1. CASE other = name
    BY <1>2, <1>4, <1>9, <1>10, <2>1
  <2>2. CASE other # name
    <3>1. other \in Module /\ other \in done
      BY <2>2
    <3>2. /\ old.cache[other] # NotCached
          /\ sofar.modules[other] = IF WithoutDefault(old, other) THEN Builtin ELSE old.cache[other]
      BY <3>1 DEF TableOK
    <3>3. st.cache[other] = old.cache[other] /\ (WithoutDefault(st, other) <=> WithoutDefault(old, other))
      BY <1>2, <3>1, <3>2 DEF Leaves
    <3>4. WithoutDefault(new.loader, other) <=> WithoutDefault(old, other)
      BY <1>5, <2>2, <3>3
    <3> QED BY <1>4, <1>9, <2>2, <3>1, <3>2, <3>3, <3>4
  <2> QED BY <2>1, <2>2
<1>12. TableOK(code, new, done \cup {name})
  BY <1>7, <1>8, <1>11 DEF TableOK
<1> QED BY <1>12 DEF new

FirstTable == [loader |-> Started, modules |-> Started.cache]

LEMMA TablesAreFolded ==
  ASSUME NEW code, IsCode(code), NEW names \in Seq(Module)
  PROVE  FoldLeft(LAMBDA sofar, name : LoadNext(code, sofar, name), FirstTable, names)
           = Fold(Tables, Module, NextStep(code), FirstTable, names)
<1> DEFINE Iter(it) == [s \in SUBSET (DOMAIN names) |->
                          IF s = {} THEN FirstTable
                          ELSE LoadNext(code, it[s \ {Max(s)}], names[Max(s)])]
           iter == CHOOSE it : it = Iter(it)
           f == NextStep(code)
<1> HIDE DEF f
<1>0. DOMAIN names = 1..Len(names) /\ Len(names) \in Nat
  BY LenProperties
<1>1. f \in [Tables \X Module -> Tables] /\ FirstTable \in Tables
  BY LoadNextIsTyped DEF f, NextStep, FirstTable, Tables, Started, Loader, Box
<1>2. \A m \in Tables, t \in Module : f[<<m, t>>] = LoadNext(code, m, t)
  BY DEF f, NextStep
<1>3. \A s \in SUBSET (1..Len(names)) : s # {} => Max(s) \in s /\ names[Max(s)] \in Module
  BY <1>0, GreatestOf, ElementOfSeq
<1>4. \E it : it = Iter(it)
  <2>1. PICK g : IsIter(Tables, Module, f, FirstTable, names, Len(names), g)
    BY <1>1, IterExists
  <2>2. ASSUME NEW s \in SUBSET (1..Len(names))
        PROVE  g[s] = IF s = {} THEN FirstTable ELSE LoadNext(code, g[s \ {Max(s)}], names[Max(s)])
    BY <1>2, <1>3, <2>1, <2>2 DEF IsIter
  <2>3. DOMAIN g = SUBSET (1..Len(names)) /\ g = [s \in DOMAIN g |-> g[s]]
    BY <2>1 DEF IsIter
  <2>4. g = Iter(g)
    BY <1>0, <2>2, <2>3
  <2> QED BY <2>4
<1>5. iter = Iter(iter)
  BY <1>4
<1>6. FoldLeft(LAMBDA sofar, name : LoadNext(code, sofar, name), FirstTable, names) = iter[DOMAIN names]
  BY DEF FoldLeft, MapThenFoldSet
<1> HIDE DEF iter
<1>7. Iterates(Tables, f, FirstTable, names, iter)
  BY <1>0, <1>2, <1>3, <1>5 DEF Iterates
<1>8. iter[1..Len(names)] = Fold(Tables, Module, f, FirstTable, names)
  BY <1>1, <1>7, IteratedIsFold, ZenonT(60)
<1> QED BY <1>0, <1>6, <1>8 DEF f

LEMMA TablesAreExplained ==
  ASSUME NEW code, IsCode(code)
  PROVE  TableOK(code, LoadStudentModules(code), Module)
<1> DEFINE f == NextStep(code)
           after(names) == Fold(Tables, Module, f, FirstTable, names)
           P == {names \in Seq(Module) : TableOK(code, after(names), ToSet(names))}
<1>0. f \in [Tables \X Module -> Tables] /\ FirstTable \in Tables
  BY LoadNextIsTyped DEF NextStep, FirstTable, Tables, Started, Loader, Box
<1>1. \A sofar \in Tables, name \in Module : f[<<sofar, name>>] = LoadNext(code, sofar, name)
  BY DEF NextStep
<1> HIDE DEF f
<1>2. <<>> \in P
  <2>1. after(<<>>) = FirstTable /\ ToSet(<<>>) = {}
    BY <1>0, FoldEmpty DEF ToSet
  <2>2. Explained(code, Started)
    BY DEF Explained, Started, Failed, Loader, Box, NotCached, Builtin
  <2>3. TableOK(code, FirstTable, {})
    BY <2>2 DEF TableOK, FirstTable, WithoutDefault, Started
  <2> QED BY <2>1, <2>3, EmptySeq
<1>3. ASSUME NEW names \in Seq(Module), NEW name \in Module, names \in P
      PROVE  Append(names, name) \in P
  <2>1. FoldGrows(Tables, Module, f, FirstTable)
    BY <1>0, FoldAppend
  <2>2. after(names) \in Tables
    BY <1>0, FoldType
  <2>3. after(Append(names, name)) = LoadNext(code, after(names), name)
    BY <1>1, <2>1, <2>2 DEF FoldGrows
  <2>4. Append(names, name) \in Seq(Module)
    OBVIOUS
  <2>5. ToSet(Append(names, name)) = ToSet(names) \cup {name} /\ ToSet(names) \subseteq Module
    <3> DEFINE all == Append(names, name)
    <3>1. /\ Len(names) \in Nat /\ DOMAIN names = 1..Len(names)
          /\ DOMAIN all = 1..(Len(names) + 1) /\ all[Len(names) + 1] = name
          /\ \A i \in 1..Len(names) : all[i] = names[i] /\ names[i] \in Module
      BY AppendProperties, LenProperties, ElementOfSeq
    <3> HIDE DEF all
    <3>2. ASSUME NEW x \in ToSet(all)  PROVE x \in ToSet(names) \cup {name}
      <4>1. PICK i \in 1..(Len(names) + 1) : x = all[i]
        BY <3>1, <3>2 DEF ToSet
      <4>2. CASE i = Len(names) + 1
        BY <3>1, <4>1, <4>2
      <4>3. CASE i # Len(names) + 1
        <5>1. i \in 1..Len(names)
          BY <3>1, <4>1, <4>3
        <5> QED BY <3>1, <4>1, <5>1 DEF ToSet
      <4> QED BY <4>2, <4>3
    <3>3. ASSUME NEW x \in ToSet(names)  PROVE x \in ToSet(all) /\ x \in Module
      <4>1. PICK i \in 1..Len(names) : x = names[i]
        BY <3>1, <3>3 DEF ToSet
      <4>2. i \in DOMAIN all
        BY <3>1, <4>1
      <4> QED BY <3>1, <4>1, <4>2 DEF ToSet
    <3>4. name \in ToSet(all)
      <4>1. Len(names) + 1 \in DOMAIN all
        BY <3>1
      <4> QED BY <3>1, <4>1 DEF ToSet
    <3>5. ToSet(all) = ToSet(names) \cup {name}
      BY <3>2, <3>3, <3>4
    <3>6. ToSet(names) \subseteq Module
      BY <3>3
    <3> QED BY <3>5, <3>6 DEF all
  <2> HIDE DEF after
  <2>6. TableOK(code, after(names), ToSet(names))
    BY <1>3
  <2>7. TableOK(code, LoadNext(code, after(names), name), ToSet(names) \cup {name})
    BY <2>2, <2>5, <2>6, LoadNextIsExplained
  <2> QED BY <2>3, <2>4, <2>5, <2>7
<1> HIDE DEF P
<1>4. \A names \in Seq(Module) : names \in P
  BY <1>2, <1>3, InductionOnSequences
<1>5. StudentModules \in Seq(Module) /\ ToSet(StudentModules) = Module
  BY FilesAreListed DEF Module, ToSet
<1>6. LoadStudentModules(code) = after(StudentModules)
  BY <1>5, TablesAreFolded DEF LoadStudentModules, FirstTable, f
<1> QED BY <1>4, <1>5, <1>6 DEF P

\* Every file is loaded and every import answered, whatever imports whatever, and a
\* fallback is explained by an error.
LEMMA WhatIsAppliedIsExplained ==
  ASSUME NEW sources, \A name \in Module : sources[name] \in Text
  PROVE  LET applied == ApplySources(sources)
             reported == {e.file : e \in applied.errors}
         IN /\ \A name \in Module :
                 /\ applied.modules[name] \in {Exports, Builtin}
                 /\ applied.modules[name] = Builtin <=> name \in reported
                 /\ applied.modules[name] = Builtin =>
                      \/ ~Compiles(sources[name]) \/ Throws(sources[name])
                      \/ ~HasDefault(sources[name])
            /\ \A h \in applied.held :
                 /\ h.box \in {Exports, Builtin}
                 /\ h.box # applied.modules[h.of] => h.of \in reported
<1> DEFINE compiled == {name \in Module : Compiles(sources[name])}
           code == [name \in compiled |-> sources[name]]
           all == LoadStudentModules(code)
           applied == ApplySources(sources)
           reported == {e.file : e \in applied.errors}
<1>1. /\ IsCode(code) /\ DOMAIN code = compiled /\ compiled \subseteq Module
      /\ \A name \in compiled : code[name] = sources[name]
      /\ \A name \in Module \ compiled : ~Compiles(sources[name])
  BY DEF IsCode
<1>2. /\ applied.modules = all.modules /\ applied.held = all.loader.held
      /\ applied.errors = all.loader.errors
                            \cup {[file |-> name, why |-> "compile"] : name \in Module \ compiled}
  BY DEF ApplySources
<1> HIDE DEF code, compiled
<1>3. TableOK(code, all, Module)
  BY <1>1, TablesAreExplained
<1> HIDE DEF all, applied
<1>4. Explained(code, all.loader) /\ all.loader \in Loader
  BY <1>3 DEF TableOK, Explained
<1>5. \A name \in Module :
        name \in reported <=> \/ Failed(all.loader, name) \/ WithoutDefault(all.loader, name)
                              \/ name \notin compiled
  <2> TAKE name \in Module
  <2>1. ASSUME NEW e \in applied.errors, e.file = name
        PROVE  \/ Failed(all.loader, name) \/ WithoutDefault(all.loader, name)
               \/ name \notin compiled
    <3>1. CASE e \in all.loader.errors
      <4>1. e = [file |-> e.file, why |-> e.why] /\ e.why \in {"run", "default"}
        BY <1>4, <3>1 DEF Loader
      <4> QED BY <2>1, <3>1, <4>1 DEF Failed, WithoutDefault
    <3>2. CASE e \notin all.loader.errors
      BY <1>2, <2>1, <3>2
    <3> QED BY <3>1, <3>2
  <2>2. ASSUME \/ Failed(all.loader, name) \/ WithoutDefault(all.loader, name)
               \/ name \notin compiled
        PROVE  \E e \in applied.errors : e.file = name
    <3>1. \A why : [file |-> name, why |-> why].file = name
      OBVIOUS
    <3>2. CASE Failed(all.loader, name)
      BY <1>2, <3>1, <3>2 DEF Failed
    <3>3. CASE WithoutDefault(all.loader, name)
      BY <1>2, <3>1, <3>3 DEF WithoutDefault
    <3>4. CASE name \notin compiled
      BY <1>2, <3>1, <3>4
    <3> QED BY <2>2, <3>2, <3>3, <3>4
  <2> QED BY <2>1, <2>2
<1>6. ASSUME NEW name \in Module
      PROVE  /\ applied.modules[name] \in {Exports, Builtin}
             /\ applied.modules[name] = Builtin <=> name \in reported
             /\ applied.modules[name] = Builtin =>
                  \/ ~Compiles(sources[name]) \/ Throws(sources[name])
                  \/ ~HasDefault(sources[name])
  <2>1. /\ all.loader.cache[name] # NotCached /\ all.loader.cache[name] \in Box
        /\ all.modules[name] = IF WithoutDefault(all.loader, name) THEN Builtin
                               ELSE all.loader.cache[name]
    BY <1>3, <1>4 DEF TableOK, Loader
  <2>2. all.loader.cache[name] = Builtin <=> Failed(all.loader, name) \/ name \notin compiled
    BY <1>1, <1>4, <2>1 DEF Explained
  <2>3. /\ Failed(all.loader, name) => name \in compiled /\ Throws(sources[name])
        /\ WithoutDefault(all.loader, name) => ~HasDefault(code[name])
    BY <1>1, <1>3, <1>4 DEF Explained, TableOK
  <2>4. name \in compiled /\ WithoutDefault(all.loader, name) => ~HasDefault(sources[name])
    BY <1>1, <2>3
  <2>5. name \notin compiled => ~Compiles(sources[name])
    BY <1>1
  <2> QED BY <1>2, <1>5, <2>1, <2>2, <2>3, <2>4, <2>5 DEF Box
<1>7. ASSUME NEW h \in applied.held
      PROVE  /\ h.box \in {Exports, Builtin}
             /\ h.box # applied.modules[h.of] => h.of \in reported
  <2>1. /\ h.of \in Module /\ h.box \in Box /\ h.box # NotCached
        /\ h.box # all.loader.cache[h.of] => Failed(all.loader, h.of)
    BY <1>2, <1>4, <1>7 DEF Explained, Loader
  <2>2. all.modules[h.of] = IF WithoutDefault(all.loader, h.of) THEN Builtin
                            ELSE all.loader.cache[h.of]
    BY <1>3, <2>1 DEF TableOK
  <2> QED BY <1>2, <1>5, <2>1, <2>2 DEF Box
<1> QED BY <1>6, <1>7 DEF applied

-----------------------------------------------------------------------------
(* Texts, blanks and edits. *)

\* Sequences of S put together are sequences of S.
Join(S) == [p \in Seq(S) \X Seq(S) |-> p[1] \o p[2]]

LEMMA JoinIsTyped ==
  ASSUME NEW S
  PROVE  /\ Join(S) \in [Seq(S) \X Seq(S) -> Seq(S)] /\ <<>> \in Seq(S)
         /\ \A s, t \in Seq(S) : Join(S)[<<s, t>>] = s \o t
<1>1. \A s, t \in Seq(S) : s \o t \in Seq(S)
  OBVIOUS
<1>2. ASSUME NEW p \in Seq(S) \X Seq(S)  PROVE p[1] \o p[2] \in Seq(S)
  <2>1. p[1] \in Seq(S) /\ p[2] \in Seq(S)
    OBVIOUS
  <2> QED BY <1>1, <2>1
<1>3. \A s, t \in Seq(S) : Join(S)[<<s, t>>] = s \o t
  BY DEF Join
<1>4. Join(S) \in [Seq(S) \X Seq(S) -> Seq(S)]
  BY <1>2 DEF Join
<1> QED BY <1>3, <1>4, EmptySeq

LEMMA FlattenIsFolded ==
  ASSUME NEW S, NEW seqs \in Seq(Seq(S))
  PROVE  FlattenSeq(seqs) = Fold(Seq(S), Seq(S), Join(S), <<>>, seqs)
<1> DEFINE f == Join(S)
           Rec(h) == [i \in 1..Len(seqs) |-> IF i = 1 THEN seqs[i] ELSE h[i - 1] \o seqs[i]]
           flatten == CHOOSE h : h = Rec(h)
<1>0. /\ f \in [Seq(S) \X Seq(S) -> Seq(S)] /\ <<>> \in Seq(S)
      /\ \A s, t \in Seq(S) : f[<<s, t>>] = s \o t
  BY JoinIsTyped
<1> HIDE DEF f
<1>1. Len(seqs) \in Nat /\ \A k \in 1..Len(seqs) : seqs[k] \in Seq(S)
  BY LenProperties, ElementOfSeq
<1>2. CASE Len(seqs) = 0
  <2>1. seqs = <<>>
    BY <1>2, EmptySeq
  <2>2. Fold(Seq(S), Seq(S), f, <<>>, <<>>) = <<>>
    BY <1>0, FoldEmpty, ZenonT(60)
  <2> QED BY <1>2, <2>1, <2>2 DEF FlattenSeq, f
<1>3. CASE Len(seqs) # 0
  <2>1. PICK h : IsTrace(Seq(S), Seq(S), f, <<>>, seqs, h)
    BY <1>0, TraceExists, ZenonT(60)
  <2>2. \A k \in 0..Len(seqs) : h[k] \in Seq(S)
    BY <2>1 DEF IsTrace
  <2>3. ASSUME NEW k \in 1..Len(seqs)
        PROVE  h[k] = IF k = 1 THEN seqs[k] ELSE h[k - 1] \o seqs[k]
    <3>1. k - 1 \in 0..Len(seqs) /\ h[k] = f[<<h[k - 1], seqs[k]>>]
      BY <1>1, <2>1 DEF IsTrace
    <3>2. h[k] = h[k - 1] \o seqs[k]
      BY <1>0, <1>1, <2>2, <3>1
    <3>3. CASE k = 1
      <4>1. h[k - 1] = <<>>
        BY <2>1, <3>3 DEF IsTrace
      <4>2. seqs[k] \in Seq(S)
        BY <1>1
      <4>3. <<>> \o seqs[k] = seqs[k]
        BY <4>2
      <4> QED BY <3>2, <3>3, <4>1, <4>3
    <3> QED BY <3>2, <3>3
  <2> DEFINE g == [k \in 1..Len(seqs) |-> h[k]]
  <2>4. g = Rec(g)
    <3>1. ASSUME NEW k \in 1..Len(seqs)
          PROVE  g[k] = IF k = 1 THEN seqs[k] ELSE g[k - 1] \o seqs[k]
      <4>1. CASE k = 1
        BY <2>3, <4>1
      <4>2. CASE k # 1
        <5>1. k - 1 \in 1..Len(seqs)
          BY <1>1, <4>2
        <5> QED BY <2>3, <4>2, <5>1
      <4> QED BY <4>1, <4>2
    <3>2. DOMAIN g = 1..Len(seqs)
      OBVIOUS
    <3>3. g = [k \in 1..Len(seqs) |-> g[k]]
      OBVIOUS
    <3> HIDE DEF g
    <3> QED BY <3>1, <3>3
  <2> HIDE DEF g
  <2>5. flatten = Rec(flatten)
    BY <2>4
  <2>6. FlattenSeq(seqs) = flatten[Len(seqs)]
    BY <1>3 DEF FlattenSeq
  <2> HIDE DEF flatten
  <2>7. \A k \in 1..Len(seqs) :
          flatten[k] = IF k = 1 THEN seqs[k] ELSE flatten[k - 1] \o seqs[k]
    BY <2>5
  <2> HIDE DEF Rec
  <2> DEFINE P == {k \in Nat : 1 <= k /\ k <= Len(seqs) => flatten[k] = h[k]}
  <2>8. 0 \in P
    OBVIOUS
  <2>9. ASSUME NEW k \in Nat, k \in P  PROVE k + 1 \in P
    <3> SUFFICES ASSUME k + 1 <= Len(seqs)  PROVE flatten[k + 1] = h[k + 1]
      OBVIOUS
    <3>1. k + 1 \in 1..Len(seqs) /\ (k + 1) - 1 = k /\ (k + 1 = 1 <=> k = 0)
      BY <1>1
    <3>2. CASE k = 0
      BY <2>3, <2>7, <3>1, <3>2
    <3>3. CASE k # 0
      <4>1. flatten[k] = h[k]
        BY <1>1, <2>9, <3>3
      <4> QED BY <2>3, <2>7, <3>1, <3>3, <4>1
    <3> QED BY <3>2, <3>3
  <2> HIDE DEF P
  <2>10. \A k \in Nat : k \in P
    BY <2>8, <2>9, Induction
  <2>11. flatten[Len(seqs)] = h[Len(seqs)]
    BY <1>1, <1>3, <2>10 DEF P
  <2>12. Fold(Seq(S), Seq(S), f, <<>>, seqs) = h[Len(seqs)]
    <3>1. f \in [Seq(S) \X Seq(S) -> Seq(S)] /\ <<>> \in Seq(S)
      BY <1>0
    <3>2. EndsInFold(Seq(S), Seq(S), f, <<>>)
      BY <3>1, TracesEndInFold
    <3> QED BY <2>1, <3>2 DEF EndsInFold
  <2> QED BY <2>6, <2>11, <2>12 DEF f
<1> QED BY <1>2, <1>3

\* What FlattenSeq is, from its first sequence to its last.
Flattens(S) ==
  /\ FlattenSeq(<<>>) = <<>>
  /\ \A seqs \in Seq(Seq(S)), s \in Seq(S) :
       /\ FlattenSeq(seqs) \in Seq(S)
       /\ FlattenSeq(Append(seqs, s)) = FlattenSeq(seqs) \o s

LEMMA FlattenGrows ==
  ASSUME NEW S
  PROVE  Flattens(S)
<1> DEFINE f == Join(S)
<1>0. /\ f \in [Seq(S) \X Seq(S) -> Seq(S)] /\ <<>> \in Seq(S)
      /\ \A s, t \in Seq(S) : f[<<s, t>>] = s \o t
  BY JoinIsTyped
<1>1. \A seqs \in Seq(Seq(S)) : FlattenSeq(seqs) = Fold(Seq(S), Seq(S), f, <<>>, seqs)
  BY FlattenIsFolded
<1> HIDE DEF f
<1>2. FlattenSeq(<<>>) = <<>>
  BY DEF FlattenSeq
<1>3. ASSUME NEW seqs \in Seq(Seq(S)), NEW s \in Seq(S)
      PROVE  /\ FlattenSeq(seqs) \in Seq(S)
             /\ FlattenSeq(Append(seqs, s)) = FlattenSeq(seqs) \o s
  <2>1. Fold(Seq(S), Seq(S), f, <<>>, seqs) \in Seq(S)
    BY <1>0, FoldType, ZenonT(60)
  <2>2. FoldGrows(Seq(S), Seq(S), f, <<>>)
    BY <1>0, FoldAppend, ZenonT(60)
  <2>3. Append(seqs, s) \in Seq(Seq(S))
    OBVIOUS
  <2>4. FlattenSeq(Append(seqs, s)) = f[<<FlattenSeq(seqs), s>>]
    BY <1>1, <2>2, <2>3 DEF FoldGrows
  <2> QED BY <1>0, <1>1, <2>1, <2>4
<1> QED BY <1>2, <1>3 DEF Flattens

LEMMA SetToSeqIsTyped ==
  ASSUME NEW S, IsFiniteSet(S)
  PROVE  SetToSeq(S) \in Seq(S)
<1>1. Cardinality(S) \in Nat
  BY FS_CardinalityType
<1>2. PICK f : f \in Bijection(1..Cardinality(S), S)
  BY FS_CardinalityType DEF ExistsBijection
<1>3. f \in [1..Cardinality(S) -> S] /\ IsInjective(f)
  BY <1>2 DEF Bijection, Injection, IsInjective
<1>4. SetToSeq(S) \in [1..Cardinality(S) -> S]
  BY <1>3 DEF SetToSeq
<1> QED BY <1>1, <1>4, SeqDef

LEMMA ShortSequences ==
  ASSUME NEW S, NEW x \in S, NEW y \in S
  PROVE  /\ <<x, y>> \in Seq(S) /\ <<x>> \in Seq(S) /\ <<>> \in Seq(S)
         /\ Append(<<>>, x) = <<x>> /\ Append(<<x>>, y) = <<x, y>>
<1>1. <<x, y>> \in Seq(S) /\ <<x>> \in Seq(S)
  OBVIOUS
<1>2. <<>> \in Seq(S)
  BY EmptySeq
<1>3. Append(<<>>, x) = <<x>>
  OBVIOUS
<1>4. Append(<<x>>, y) = <<x, y>>
  <2>1. PICK s \in Seq(S) : s = Append(<<x>>, y)
    BY <1>1, AppendProperties
  <2>2. Len(s) = 2 /\ s[1] = x /\ s[2] = y
    BY <1>1, <2>1
  <2>3. PICK t \in Seq(S) : t = <<x, y>>
    BY <1>1
  <2>4. Len(t) = 2 /\ t[1] = x /\ t[2] = y
    BY <2>3
  <2>5. \A i \in 1..2 : s[i] = t[i]
    BY <2>2, <2>4
  <2>6. \A i \in 1..Len(s) : s[i] = t[i]
    BY <2>2, <2>5
  <2>7. Len(s) = Len(t)
    BY <2>2, <2>4
  <2>8. s = t
    BY <2>6, <2>7, SeqEqual
  <2> QED BY <2>1, <2>3, <2>8
<1> QED BY <1>1, <1>2, <1>3, <1>4

LEMMA EscapedIsOf ==
  ASSUME NEW S, EscapesWith(S), NEW value \in Seq(S \cup {NewLine})
  PROVE  JsxText(value) \in Seq(S) /\ StringText(value) \in Seq(S)
<1>0. /\ Len(value) \in Nat /\ DOMAIN value = 1..Len(value)
      /\ \A i \in 1..Len(value) : value[i] # NewLine => value[i] \in S
  <2>1. Len(value) \in Nat /\ DOMAIN value = 1..Len(value)
    BY LenProperties
  <2>2. \A i \in 1..Len(value) : value[i] \in S \cup {NewLine}
    BY ElementOfSeq
  <2> QED BY <2>1, <2>2
<1>1. JsxText(value) \in Seq(S)
  <2>1. ASSUME NEW i \in 1..Len(value)  PROVE JsxText(value)[i] \in S
    BY <1>0 DEF JsxText, EscapesWith
  <2>2. JsxText(value) = [i \in 1..Len(value) |-> JsxText(value)[i]]
    BY <1>0 DEF JsxText
  <2>3. JsxText(value) \in [1..Len(value) -> S]
    BY <2>1, <2>2
  <2> QED BY <1>0, <2>3, SeqDef
<1>2. StringText(value) \in Seq(S)
  <2> DEFINE part(i) == IF value[i] \in {Backslash, Quote} THEN <<Backslash, value[i]>>
                        ELSE IF value[i] = NewLine THEN <<Space>> ELSE <<value[i]>>
             parts == [i \in DOMAIN value |-> part(i)]
  <2>1. ASSUME NEW i \in 1..Len(value)  PROVE part(i) \in Seq(S)
    <3>1. \A t, u \in S : <<t, u>> \in Seq(S) /\ <<t>> \in Seq(S)
      BY ShortSequences
    <3>2. CASE value[i] \in {Backslash, Quote}
      BY <3>1, <3>2 DEF EscapesWith
    <3>3. CASE value[i] \notin {Backslash, Quote}
      BY <1>0, <3>1, <3>3 DEF EscapesWith
    <3> QED BY <3>2, <3>3
  <2>2. parts \in [1..Len(value) -> Seq(S)]
    <3> HIDE DEF part
    <3> QED BY <1>0, <2>1
  <2>3. parts \in Seq(Seq(S))
    BY <1>0, <2>2, SeqDef
  <2>4. StringText(value) = FlattenSeq(parts)
    BY DEF StringText
  <2> HIDE DEF parts
  <2> QED BY <2>3, <2>4, FlattenGrows DEF Flattens
<1> QED BY <1>1, <1>2

LEMMA EscapedIsText ==
  ASSUME NEW value \in Text
  PROVE  JsxText(value) \in Text /\ StringText(value) \in Text
<1>1. EscapesWith(STRING) /\ STRING \cup {NewLine} = STRING
  BY LiteralsAreStrings DEF EscapesWith
<1>2. value \in Seq(STRING \cup {NewLine})
  BY <1>1 DEF Text
<1>3. JsxText(value) \in Seq(STRING) /\ StringText(value) \in Seq(STRING)
  BY <1>1, <1>2, EscapedIsOf
<1> QED BY <1>3 DEF Text

LEMMA EscapedBlankIsText ==
  ASSUME NEW b, IsBlankOfStep(b), NEW entered, AreTexts(entered)
  PROVE  /\ ValueOf(b, entered) \in Text
         /\ EscapeBlankValue(b, ValueOf(b, entered)) \in Text
<1>1. ValueOf(b, entered) \in Text
  <2>1. DefaultBlankValue(b) \in Text
    <3>1. <<>> \in Text
      BY EmptySeq DEF Text
    <3> QED BY <3>1 DEF DefaultBlankValue, IsBlankOfStep
  <2> QED BY <2>1 DEF ValueOf, AreTexts
<1>2. b.escape \in {"jsx-text", "string", "none"}
  BY DEF IsBlankOfStep
<1>3. \A value \in Text : EscapeBlankValue(b, value) \in Text
  BY <1>2, EscapedIsText DEF EscapeBlankValue
<1> QED BY <1>1, <1>3

AreBlanks(blanks) == IsFiniteSet(blanks) /\ \A b \in blanks : IsBlankOfStep(b)

LEMMA FilledOf ==
  ASSUME NEW piece, IsBlank(piece), NEW blanks, IsFiniteSet(blanks), NEW entered, NEW W,
         \A b \in blanks : b.id = piece.id => EscapeBlankValue(b, ValueOf(b, entered)) \in W
  PROVE  \E texts \in Seq(W) : Fill(piece, blanks, entered) = FlattenSeq(texts)
<1> DEFINE named == {c \in blanks : c.id = piece.id}
           texts == {EscapeBlankValue(b, ValueOf(b, entered)) : b \in named}
<1>1. IsFiniteSet(named)
  BY FS_Subset
<1>2. IsFiniteSet(texts)
  <2> DEFINE f == [b \in named |-> EscapeBlankValue(b, ValueOf(b, entered))]
  <2>1. f \in Surjection(named, texts)
    BY DEF Surjection
  <2> QED BY <1>1, <2>1, FS_Surjection
<1>3. texts \subseteq W
  OBVIOUS
<1>4. Fill(piece, blanks, entered) = FlattenSeq(SetToSeq(texts))
  BY DEF Fill
<1> HIDE DEF texts
<1>5. SetToSeq(texts) \in Seq(W)
  BY <1>2, <1>3, SetToSeqIsTyped
<1> QED BY <1>4, <1>5

LEMMA FilledBlank ==
  ASSUME NEW piece, IsBlank(piece), NEW blanks, IsFiniteSet(blanks), NEW entered, NEW S,
         \A b \in blanks : EscapeBlankValue(b, ValueOf(b, entered)) \in Seq(S)
  PROVE  Fill(piece, blanks, entered) \in Seq(S)
<1>1. PICK texts \in Seq(Seq(S)) : Fill(piece, blanks, entered) = FlattenSeq(texts)
  BY FilledOf
<1> QED BY <1>1, FlattenGrows DEF Flattens

LEMMA FillIsText ==
  ASSUME NEW piece \in Piece, NEW blanks, AreBlanks(blanks), NEW entered, AreTexts(entered)
  PROVE  Fill(piece, blanks, entered) \in Text
<1>1. CASE ~IsBlank(piece)
  <2>1. piece.text \in STRING
    BY <1>1 DEF IsBlank, Piece
  <2> QED BY <1>1, <2>1 DEF Fill, Text
<1>2. CASE IsBlank(piece)
  BY <1>2, EscapedBlankIsText, FilledBlank DEF AreBlanks, Text
<1> QED BY <1>1, <1>2

LEMMA TemplateIsText ==
  ASSUME NEW template \in Seq(Piece), NEW blanks, AreBlanks(blanks), NEW entered, AreTexts(entered)
  PROVE  /\ [i \in DOMAIN template |-> Fill(template[i], blanks, entered)] \in Seq(Seq(STRING))
         /\ FillTemplate(template, blanks, entered) \in Text
<1> DEFINE filled == [i \in DOMAIN template |-> Fill(template[i], blanks, entered)]
<1>0. /\ Len(template) \in Nat /\ DOMAIN template = 1..Len(template)
      /\ \A i \in 1..Len(template) : template[i] \in Piece
  BY LenProperties, ElementOfSeq
<1>1. \A i \in 1..Len(template) : Fill(template[i], blanks, entered) \in Seq(STRING)
  BY <1>0, FillIsText DEF Text
<1>2. filled \in [1..Len(template) -> Seq(STRING)]
  BY <1>0, <1>1
<1>3. FillTemplate(template, blanks, entered) = FlattenSeq(filled)
  BY DEF FillTemplate
<1> HIDE DEF filled
<1>4. filled \in Seq(Seq(STRING))
  BY <1>0, <1>2, SeqDef
<1>5. FlattenSeq(filled) \in Seq(STRING)
  BY <1>4, FlattenGrows DEF Flattens
<1> QED BY <1>3, <1>4, <1>5 DEF filled, Text

LEMMA PlaceOf ==
  ASSUME NEW text \in Text, NEW part \in Text
  PROVE  /\ IndexOf(text, part) \in Nat
         /\ IndexOf(text, part) # 0 =>
              /\ IndexOf(text, part) + Len(part) <= Len(text) + 1
              /\ SubSeq(text, IndexOf(text, part), IndexOf(text, part) + Len(part) - 1) = part
<1> DEFINE at == {i \in 1..(Len(text) + 1 - Len(part)) : SubSeq(text, i, i + Len(part) - 1) = part}
<1>0. Len(text) \in Nat /\ Len(part) \in Nat
  BY LenProperties DEF Text
<1>1. CASE at = {}
  BY <1>1 DEF IndexOf
<1>2. CASE at # {}
  <2>1. IndexOf(text, part) = CHOOSE i \in at : \A j \in at : i <= j
    BY <1>2 DEF IndexOf
  <2>2. \E i \in at : \A j \in at : i <= j
    <3>1. at \subseteq Nat
      BY <1>0
    <3> QED BY <1>2, <3>1, Least
  <2>3. IndexOf(text, part) \in at
    BY <2>1, <2>2
  <2> QED BY <1>0, <2>3
<1> QED BY <1>1, <1>2

Sofar == [missing : BOOLEAN, text : Text]
Edits == [find : Text, put : Text]
EditStep == [p \in Sofar \X Edits |-> AfterEdit(p[1], p[2])]

LEMMA AfterEditIsTyped ==
  ASSUME NEW sofar \in Sofar, NEW e \in Edits
  PROVE  AfterEdit(sofar, e) \in Sofar
<1>0. sofar.text \in Text /\ e.find \in Text /\ e.put \in Text /\ Len(sofar.text) \in Nat
      /\ Len(e.find) \in Nat
  BY LenProperties DEF Sofar, Edits, Text
<1> DEFINE i == IndexOf(sofar.text, e.find)
<1>1. i \in Nat
  BY <1>0, PlaceOf
<1>2. CASE sofar.missing \/ i = 0
  BY <1>2 DEF AfterEdit, Missing, Sofar, Text
<1>3. CASE ~(sofar.missing \/ i = 0)
  <2> DEFINE before == SubSeq(sofar.text, 1, i - 1)
             rest == SubSeq(sofar.text, i + Len(e.find), Len(sofar.text))
  <2>0. i # 0 /\ i + Len(e.find) <= Len(sofar.text) + 1
    BY <1>0, <1>3, PlaceOf
  <2>1. AfterEdit(sofar, e) = Found(before \o e.put \o rest)
    BY <1>3 DEF AfterEdit
  <2> HIDE DEF i
  <2>2. before \in Seq(STRING) /\ rest \in Seq(STRING)
    BY <1>0, <1>1, <2>0, SubSeqProperties DEF Text
  <2> HIDE DEF before, rest
  <2>3. before \o e.put \o rest \in Seq(STRING)
    BY <1>0, <2>2 DEF Text
  <2> QED BY <2>1, <2>3 DEF Found, Sofar, Text
<1> QED BY <1>2, <1>3

LEMMA EditStepIsTyped ==
  /\ EditStep \in [Sofar \X Edits -> Sofar]
  /\ \A sofar \in Sofar, e \in Edits : EditStep[<<sofar, e>>] = AfterEdit(sofar, e)
<1>1. ASSUME NEW p \in Sofar \X Edits  PROVE AfterEdit(p[1], p[2]) \in Sofar
  <2>1. p[1] \in Sofar /\ p[2] \in Edits
    OBVIOUS
  <2> QED BY <2>1, AfterEditIsTyped
<1> QED BY <1>1 DEF EditStep

LEMMA EditsAreFolded ==
  ASSUME NEW text \in Text, NEW edits \in Seq(Edits)
  PROVE  AfterEdits(text, edits) = Fold(Sofar, Edits, EditStep, Found(text), edits)
<1> DEFINE Iter(it) == [s \in SUBSET (DOMAIN edits) |->
                          IF s = {} THEN Found(text) ELSE AfterEdit(it[s \ {Max(s)}], edits[Max(s)])]
           iter == CHOOSE it : it = Iter(it)
<1>0. DOMAIN edits = 1..Len(edits) /\ Len(edits) \in Nat
  BY LenProperties
<1>1. EditStep \in [Sofar \X Edits -> Sofar] /\ Found(text) \in Sofar
  BY EditStepIsTyped DEF Found, Sofar
<1>2. \A m \in Sofar, e \in Edits : EditStep[<<m, e>>] = AfterEdit(m, e)
  BY EditStepIsTyped
<1>3. \A s \in SUBSET (1..Len(edits)) : s # {} => Max(s) \in s /\ edits[Max(s)] \in Edits
  BY <1>0, GreatestOf, ElementOfSeq
<1>4. \E it : it = Iter(it)
  <2>1. PICK g : IsIter(Sofar, Edits, EditStep, Found(text), edits, Len(edits), g)
    BY <1>1, IterExists
  <2>2. ASSUME NEW s \in SUBSET (1..Len(edits))
        PROVE  g[s] = IF s = {} THEN Found(text) ELSE AfterEdit(g[s \ {Max(s)}], edits[Max(s)])
    BY <1>2, <1>3, <2>1, <2>2 DEF IsIter
  <2>3. DOMAIN g = SUBSET (1..Len(edits)) /\ g = [s \in DOMAIN g |-> g[s]]
    BY <2>1 DEF IsIter
  <2>4. g = Iter(g)
    BY <1>0, <2>2, <2>3
  <2> QED BY <2>4
<1>5. iter = Iter(iter)
  BY <1>4
<1>6. AfterEdits(text, edits) = iter[DOMAIN edits]
  BY DEF AfterEdits, FoldLeft, MapThenFoldSet
<1> HIDE DEF iter
<1>7. Iterates(Sofar, EditStep, Found(text), edits, iter)
  BY <1>0, <1>2, <1>3, <1>5 DEF Iterates
<1>8. iter[1..Len(edits)] = Fold(Sofar, Edits, EditStep, Found(text), edits)
  BY <1>1, <1>7, IteratedIsFold, ZenonT(60)
<1> QED BY <1>0, <1>6, <1>8

\* What TypeScript knows of a step.
IsStepOfLesson(s) ==
  /\ s.edits \in Seq(ToSet(s.edits)) /\ \A e \in ToSet(s.edits) : IsEdit(e)
  /\ AreBlanks(s.blanks)

FilledEdits(s, entered) ==
  [i \in DOMAIN s.edits |->
     [find |-> s.edits[i].find, put |-> FillTemplate(s.edits[i].replace, s.blanks, entered)]]

LEMMA FilledEditsAreTexts ==
  ASSUME NEW s, IsStepOfLesson(s), NEW entered, AreTexts(entered)
  PROVE  /\ FilledEdits(s, entered) \in Seq(Edits)
         /\ \A text : ApplyStepEdits(text, s, entered) = AfterEdits(text, FilledEdits(s, entered))
<1>0. /\ Len(s.edits) \in Nat /\ DOMAIN s.edits = 1..Len(s.edits)
      /\ \A i \in 1..Len(s.edits) : IsEdit(s.edits[i])
  BY LenProperties, ElementOfSeq DEF IsStepOfLesson
<1>1. ASSUME NEW i \in 1..Len(s.edits)
      PROVE  [find |-> s.edits[i].find,
              put |-> FillTemplate(s.edits[i].replace, s.blanks, entered)] \in Edits
  <2>1. s.edits[i].find \in Text /\ s.edits[i].replace \in Seq(Piece)
    BY <1>0 DEF IsEdit
  <2>2. FillTemplate(s.edits[i].replace, s.blanks, entered) \in Text
    BY <2>1, TemplateIsText DEF IsStepOfLesson
  <2> QED BY <2>1, <2>2 DEF Edits
<1>2. FilledEdits(s, entered) \in [1..Len(s.edits) -> Edits]
  BY <1>0, <1>1 DEF FilledEdits
<1>3. FilledEdits(s, entered) \in Seq(Edits)
  BY <1>0, <1>2, SeqDef
<1> QED BY <1>3 DEF ApplyStepEdits, FilledEdits

LEMMA AppliedIsText ==
  ASSUME NEW text \in Text, NEW s, IsStepOfLesson(s), NEW entered, AreTexts(entered)
  PROVE  ApplyStepEdits(text, s, entered) \in Sofar
<1>1. FilledEdits(s, entered) \in Seq(Edits)
  BY FilledEditsAreTexts
<1>2. ApplyStepEdits(text, s, entered) = Fold(Sofar, Edits, EditStep, Found(text), FilledEdits(s, entered))
  BY <1>1, FilledEditsAreTexts, EditsAreFolded
<1>3. EditStep \in [Sofar \X Edits -> Sofar] /\ Found(text) \in Sofar
  BY EditStepIsTyped DEF Found, Sofar
<1>4. Fold(Sofar, Edits, EditStep, Found(text), FilledEdits(s, entered)) \in Sofar
  BY <1>1, <1>3, FoldType, ZenonT(60)
<1> QED BY <1>2, <1>4

LEMMA LessonHasSteps ==
  /\ Len(Lesson) \in Nat /\ Len(Lesson) # 0 /\ DOMAIN Lesson = 1..Len(Lesson)
  /\ \A k \in 1..Len(Lesson) : Lesson[k] \in Steps
  /\ \A s \in Steps : IsStepOfLesson(s) /\ (s.file = NoFile \/ s.file \in File)
<1>1. \A s \in Steps : IsStepOfLesson(s) /\ (s.file = NoFile \/ s.file \in File)
  BY LessonIsWellFormed DEF IsStepOfLesson, AreBlanks
<1>2. Lesson \in Seq(Steps) /\ Lesson # <<>>
  BY LessonIsWellFormed
<1> QED BY <1>1, <1>2, LenProperties, ElementOfSeq, EmptySeq

TextsOfFiles == [File -> Text]

\* The answers and the drafts are texts.
AnswersAreTexts(answers) == \A id \in DOMAIN answers : AreTexts(answers[id])
DraftsAreTexts == StepIds \subseteq DOMAIN drafts /\ AnswersAreTexts(drafts)

Places == DOMAIN Lesson

SourcesStep(p, before, draft) ==
  [q \in TextsOfFiles \X Places |-> AfterStep(p, before, draft, q[1], q[2])]

LEMMA AfterStepIsTyped ==
  ASSUME NEW p, AnswersAreTexts(p.answers), DraftsAreTexts, NEW before, NEW draft,
         NEW sources \in TextsOfFiles, NEW k \in Places
  PROVE  AfterStep(p, before, draft, sources, k) \in TextsOfFiles
<1> DEFINE s == Lesson[k]
           entered == IF k = draft THEN drafts[s.id] ELSE AnswersOf(p.answers, s.id)
           result == ApplyStepEdits(sources[s.file], s, entered)
<1>1. s \in Steps /\ IsStepOfLesson(s) /\ (s.file = NoFile \/ s.file \in File) /\ s.id \in StepIds
  BY LessonHasSteps DEF StepIds, Places
<1>2. AreTexts(entered)
  <2>1. AreTexts(drafts[s.id])
    BY <1>1 DEF DraftsAreTexts, AnswersAreTexts
  <2>2. AreTexts(AnswersOf(p.answers, s.id))
    BY DEF AnswersAreTexts, AnswersOf, AreTexts
  <2> QED BY <2>1, <2>2
<1>3. AfterStep(p, before, draft, sources, k)
        = IF \/ k >= before \/ s.file = NoFile
             \/ k # draft /\ s.id \notin p.completed
             \/ result.missing
          THEN sources ELSE [sources EXCEPT ![s.file] = result.text]
  BY DEF AfterStep
<1> HIDE DEF s, entered
<1>4. ASSUME s.file \in File  PROVE result.text \in Text
  <2>1. sources[s.file] \in Text
    BY <1>4 DEF TextsOfFiles
  <2>2. result \in Sofar
    BY <1>1, <1>2, <2>1, AppliedIsText
  <2> QED BY <2>2 DEF Sofar
<1> HIDE DEF result
<1> QED BY <1>1, <1>3, <1>4 DEF TextsOfFiles

LEMMA SourcesStepIsTyped ==
  ASSUME NEW p, AnswersAreTexts(p.answers), DraftsAreTexts, NEW before, NEW draft
  PROVE  /\ SourcesStep(p, before, draft) \in [TextsOfFiles \X Places -> TextsOfFiles]
         /\ \A sources \in TextsOfFiles, k \in Places :
              SourcesStep(p, before, draft)[<<sources, k>>] = AfterStep(p, before, draft, sources, k)
<1>1. ASSUME NEW q \in TextsOfFiles \X Places
      PROVE  AfterStep(p, before, draft, q[1], q[2]) \in TextsOfFiles
  <2>1. q[1] \in TextsOfFiles /\ q[2] \in Places
    OBVIOUS
  <2> QED BY <2>1, AfterStepIsTyped
<1> QED BY <1>1 DEF SourcesStep

LEMMA SourcesAreFolded ==
  ASSUME NEW p, AnswersAreTexts(p.answers), DraftsAreTexts, NEW before, NEW draft
  PROVE  StepSources(p, before, draft)
           = Fold(TextsOfFiles, Places, SourcesStep(p, before, draft), SourceOf,
                  [k \in Places |-> k])
<1> DEFINE all == [k \in Places |-> k]
           f == SourcesStep(p, before, draft)
           Iter(it) == [s \in SUBSET (DOMAIN all) |->
                          IF s = {} THEN SourceOf
                          ELSE AfterStep(p, before, draft, it[s \ {Max(s)}], all[Max(s)])]
           iter == CHOOSE it : it = Iter(it)
<1>a. Len(Lesson) \in Nat /\ Places = 1..Len(Lesson)
  BY LessonHasSteps DEF Places
<1>b. all \in Seq(Places) /\ DOMAIN all = Places /\ Len(all) = Len(Lesson)
  BY <1>a, SeqDef
<1>0. DOMAIN all = 1..Len(all) /\ Len(all) \in Nat /\ all \in Seq(Places)
  BY <1>a, <1>b
<1>1. f \in [TextsOfFiles \X Places -> TextsOfFiles] /\ SourceOf \in TextsOfFiles
  BY SourcesStepIsTyped, SourcesAreTexts DEF TextsOfFiles, File
<1>2. \A m \in TextsOfFiles, k \in Places : f[<<m, k>>] = AfterStep(p, before, draft, m, k)
  BY SourcesStepIsTyped
<1>6. StepSources(p, before, draft) = iter[DOMAIN all]
  BY DEF StepSources, FoldLeft, Places, MapThenFoldSet
<1> HIDE DEF f, all
<1>3. \A s \in SUBSET (1..Len(all)) : s # {} => Max(s) \in s /\ all[Max(s)] \in Places
  BY <1>0, GreatestOf, ElementOfSeq
<1>4. \E it : it = Iter(it)
  <2>1. PICK g : IsIter(TextsOfFiles, Places, f, SourceOf, all, Len(all), g)
    BY <1>0, <1>1, IterExists
  <2>2. ASSUME NEW s \in SUBSET (1..Len(all))
        PROVE  g[s] = IF s = {} THEN SourceOf
                      ELSE AfterStep(p, before, draft, g[s \ {Max(s)}], all[Max(s)])
    BY <1>2, <1>3, <2>1, <2>2 DEF IsIter
  <2>3. DOMAIN g = SUBSET (1..Len(all)) /\ g = [s \in DOMAIN g |-> g[s]]
    BY <2>1 DEF IsIter
  <2>4. g = Iter(g)
    BY <1>0, <2>2, <2>3
  <2> QED BY <2>4
<1>5. iter = Iter(iter)
  BY <1>4
<1> HIDE DEF iter
<1>7. Iterates(TextsOfFiles, f, SourceOf, all, iter)
  BY <1>0, <1>2, <1>3, <1>5 DEF Iterates
<1>8. iter[1..Len(all)] = Fold(TextsOfFiles, Places, f, SourceOf, all)
  BY <1>0, <1>1, <1>7, IteratedIsFold, ZenonT(60)
<1> QED BY <1>0, <1>6, <1>8 DEF f, all

LEMMA BuiltAreTexts ==
  ASSUME NEW p, AnswersAreTexts(p.answers), DraftsAreTexts, NEW before, NEW draft
  PROVE  StepSources(p, before, draft) \in TextsOfFiles
<1> DEFINE all == [k \in Places |-> k]
           f == SourcesStep(p, before, draft)
<1>1. all \in Seq(Places)
  BY LessonHasSteps, SeqDef DEF Places
<1>2. f \in [TextsOfFiles \X Places -> TextsOfFiles] /\ SourceOf \in TextsOfFiles
  BY SourcesStepIsTyped, SourcesAreTexts DEF TextsOfFiles, File
<1>3. StepSources(p, before, draft) = Fold(TextsOfFiles, Places, f, SourceOf, all)
  BY SourcesAreFolded
<1> HIDE DEF f, all
<1> QED BY <1>1, <1>2, <1>3, FoldType, ZenonT(60)

-----------------------------------------------------------------------------
(* The steps of a lesson. *)

IsProgress(p) ==
  /\ p = [mode |-> p.mode, stepIndex |-> p.stepIndex, completed |-> p.completed,
          answers |-> p.answers, freeEdits |-> p.freeEdits]
  /\ p.mode \in {"step", "free"}

\* What localStorage holds is the progress, once it can be written.
StepsInv ==
  /\ IsProgress(progress)
  /\ CanStore => stored = Stored(progress)
  /\ status \in {"idle", "correct", "wrong"}
  /\ VerdictIsAboutTheValuesShown

\* Whatever localStorage held, the Lab starts from a progress.
LEMMA LoadedIsProgress ==
  ASSUME NEW item
  PROVE  IsProgress(LoadProgress(item))
<1>1. CASE item.is # "progress"
  BY <1>1 DEF LoadProgress, EmptyProgress, IsProgress
<1>2. CASE item.is = "progress"
  <2> DEFINE whole == Spread(EmptyProgress, item.progress)
  <2>1. LoadProgress(item) =
          [mode |-> IF whole.mode = "free" THEN "free" ELSE "step",
           stepIndex |-> whole.stepIndex, completed |-> whole.completed,
           answers |-> whole.answers,
           freeEdits |-> Restrict(whole.freeEdits, DOMAIN whole.freeEdits \cap File)]
    BY <1>2 DEF LoadProgress
  <2> HIDE DEF whole
  <2> QED  BY <2>1 DEF IsProgress
<1> QED  BY <1>1, <1>2

\* What was saved is loaded as it was, but for files that are not the student's.
LEMMA LoadsWhatWasSaved ==
  ASSUME NEW p, IsProgress(p)
  PROVE  LET q == LoadProgress(Stored(p))
         IN /\ q.mode = p.mode /\ q.stepIndex = p.stepIndex
            /\ q.completed = p.completed /\ q.answers = p.answers
<1> DEFINE whole == Spread(EmptyProgress, p)
<1>1. Stored(p).is = "progress" /\ Stored(p).progress = p
  BY DEF Stored
<1>2. /\ whole.mode = p.mode /\ whole.stepIndex = p.stepIndex
      /\ whole.completed = p.completed /\ whole.answers = p.answers
  <2>1. \A x \in {"mode", "stepIndex", "completed", "answers"} : x \in DOMAIN p
    BY DEF IsProgress
  <2>2. \A x \in DOMAIN p : whole[x] = p[x]
    BY DEF Spread
  <2> QED  BY <2>1, <2>2
<1>3. p.mode \in {"step", "free"}
  BY DEF IsProgress
<1>4. LoadProgress(Stored(p)) =
        [mode |-> IF whole.mode = "free" THEN "free" ELSE "step",
         stepIndex |-> whole.stepIndex, completed |-> whole.completed,
         answers |-> whole.answers,
         freeEdits |-> Restrict(whole.freeEdits, DOMAIN whole.freeEdits \cap File)]
  BY <1>1 DEF LoadProgress
<1> HIDE DEF whole
<1> QED  BY <1>2, <1>3, <1>4

LEMMA StepsStart == StudentInit => StepsInv
<1> SUFFICES ASSUME NEW item, OpenLab(item)  PROVE StepsInv
  BY DEF StudentInit
<1> QED
  BY LoadedIsProgress DEF OpenLab, StepsInv, VerdictIsAboutTheValuesShown

\* A step that forgets the verdict need only leave a progress, and save it.
LEMMA NoVerdict ==
  ASSUME NEW p, IsProgress(p), Change(p), status' = "idle"
  PROVE  StepsInv'
BY DEF StepsInv, Change, SaveProgress, VerdictIsAboutTheValuesShown, IsProgress, Stored

\* One that edits a file keeps the step, its values and the verdict about them.
LEMMA EditKeepsVerdict ==
  ASSUME StepsInv, NEW edits, Change([progress EXCEPT !.freeEdits = edits]),
         UNCHANGED <<drafts, status>>
  PROVE  StepsInv'
<1>1. PICK p : p = [progress EXCEPT !.freeEdits = edits]
  OBVIOUS
<1>2. /\ progress' = p /\ IsProgress(p)
      /\ p.stepIndex = progress.stepIndex /\ p.completed = progress.completed
      /\ p.answers = progress.answers
  BY <1>1 DEF StepsInv, IsProgress, Change
<1>3. step' = step
  BY <1>2 DEF step, StepIndex
<1>4. values' = values
  BY <1>3 DEF values
<1>5. VerdictIsAboutTheValuesShown'
  BY <1>2, <1>3, <1>4 DEF StepsInv, VerdictIsAboutTheValuesShown, MarkedWrong
<1> QED
  BY <1>1, <1>2, <1>5 DEF StepsInv, Change, SaveProgress

LEMMA CheckGivesItsVerdict ==
  ASSUME StepsInv, HandleCheck
  PROVE  StepsInv'
<1>1. CASE \A b \in step.blanks : IsBlankCorrect(b, values[b.id])
  <2>1. PICK p : p = [progress EXCEPT !.answers = Spread(@, [id \in {step.id} |-> values]),
                                      !.completed = @ \cup {step.id}]
    OBVIOUS
  <2>2. Change(p) /\ status' = "correct" /\ drafts' = drafts
    BY <1>1, <2>1 DEF HandleCheck
  <2>3. /\ IsProgress(p) /\ p.stepIndex = progress.stepIndex
        /\ p.completed = progress.completed \cup {step.id}
        /\ p.answers = Spread(progress.answers, [id \in {step.id} |-> values])
    BY <2>1 DEF StepsInv, IsProgress
  <2>4. progress' = p
    BY <2>2 DEF Change
  <2>5. step' = step
    BY <2>3, <2>4 DEF step, StepIndex
  <2>6. values' = values
    BY <2>2, <2>5 DEF values
  <2>7. p.answers[step.id] = values
    BY <2>3 DEF Spread
  <2>8. VerdictIsAboutTheValuesShown'
    BY <2>2, <2>3, <2>4, <2>5, <2>6, <2>7 DEF VerdictIsAboutTheValuesShown
  <2> QED  BY <2>2, <2>3, <2>4, <2>8 DEF StepsInv, Change, SaveProgress
<1>2. CASE ~\A b \in step.blanks : IsBlankCorrect(b, values[b.id])
  <2>1. status' = "wrong" /\ UNCHANGED <<progress, stored, drafts>>
    BY <1>2 DEF HandleCheck
  <2>2. step' = step
    BY <2>1 DEF step, StepIndex
  <2>3. values' = values
    BY <2>1, <2>2 DEF values
  <2>4. VerdictIsAboutTheValuesShown'
    BY <1>2, <2>1, <2>2, <2>3 DEF VerdictIsAboutTheValuesShown, MarkedWrong
  <2> QED  BY <2>1, <2>4 DEF StepsInv
<1> QED  BY <1>1, <1>2

LEMMA StepsGoOn == StepsInv /\ [StudentNext]_studentVars => StepsInv'
<1> SUFFICES ASSUME StepsInv, [StudentNext]_studentVars  PROVE StepsInv'
  OBVIOUS
<1>1. CASE UNCHANGED studentVars
  <2>1. step' = step /\ UNCHANGED <<progress, drafts, status, stored>>
    BY <1>1 DEF studentVars, step, StepIndex
  <2>2. values' = values
    BY <2>1 DEF values
  <2> QED
    BY <2>1, <2>2 DEF StepsInv, VerdictIsAboutTheValuesShown, MarkedWrong
<1>2. ASSUME NEW k \in DOMAIN Lesson, GoToStep(k)  PROVE StepsInv'
  <2>1. PICK p : p = [progress EXCEPT !.mode = "step", !.stepIndex = k]
    OBVIOUS
  <2>2. IsProgress(p)
    BY <2>1 DEF StepsInv, IsProgress
  <2> QED  BY <1>2, <2>1, <2>2, NoVerdict DEF GoToStep
<1>3. ASSUME NEW b, NEW value, HandleChangeValue(b, value)  PROVE StepsInv'
  BY <1>3 DEF HandleChangeValue, StepsInv, VerdictIsAboutTheValuesShown
<1>4. CASE HandleCheck
  BY <1>4, CheckGivesItsVerdict
<1>5. CASE HandleResetAll
  <2>1. IsProgress(EmptyProgress)
    BY DEF EmptyProgress, IsProgress
  <2> QED  BY <1>5, <2>1, NoVerdict DEF HandleResetAll
<1>6. CASE Reload
  BY <1>6, LoadedIsProgress, NoVerdict DEF Reload
<1>7. ASSUME NEW mode \in {"step", "free"}, SetMode(mode)  PROVE StepsInv'
  <2>1. PICK p : p = [progress EXCEPT !.mode = mode]
    OBVIOUS
  <2>2. IsProgress(p)
    BY <2>1 DEF StepsInv, IsProgress
  <2> QED  BY <1>7, <2>1, <2>2, NoVerdict DEF SetMode
<1>8. ASSUME NEW f, NEW source, HandleResetFreeFile(f) \/ HandleChangeFreeSource(f, source)
      PROVE  StepsInv'
  BY <1>8, EditKeepsVerdict DEF HandleResetFreeFile, HandleChangeFreeSource
<1> QED
  BY <1>1, <1>2, <1>3, <1>4, <1>5, <1>6, <1>7, <1>8 DEF StudentNext

LEMMA StepsInvIsInvariant == StudentSpec => []StepsInv
BY StepsStart, StepsGoOn, PTL DEF StudentSpec

\* LabPage.tsx, StepPanel.tsx: for any lesson, a verdict on show is about the
\* values on show, whatever was edited, reset, left or loaded anew since.
THEOREM VerdictsAreAboutWhatIsShown == StudentSpec => []VerdictIsAboutTheValuesShown
<1>1. StepsInv => VerdictIsAboutTheValuesShown
  BY DEF StepsInv
<1> QED  BY <1>1, StepsInvIsInvariant, PTL

\* What is done: a step that is completed, or has answers, goes on to be, with the
\* same answers unless it is checked again.
Keeps ==
  /\ progress.completed \subseteq progress'.completed
  /\ \A id \in DOMAIN progress.answers :
       /\ id \in DOMAIN progress'.answers
       /\ progress'.answers[id] = progress.answers[id] \/ (HandleCheck /\ id = step.id)

\* labState.ts: where localStorage can be written, nothing that was done is lost,
\* by no way through the steps and free editing and by no reload, until the
\* student resets everything.
THEOREM NothingDoneIsLost ==
  ASSUME CanStore
  PROVE  StudentSpec => [][HandleResetAll \/ Keeps]_studentVars
<1>1. StepsInv /\ [StudentNext]_studentVars => [HandleResetAll \/ Keeps]_studentVars
  <2> SUFFICES ASSUME StepsInv, [StudentNext]_studentVars
               PROVE  [HandleResetAll \/ Keeps]_studentVars
    OBVIOUS
  <2>0. IsProgress(progress) /\ stored = Stored(progress)
    BY DEF StepsInv
  <2>1. CASE UNCHANGED studentVars
    BY <2>1
  <2>2. ASSUME progress'.completed = progress.completed, progress'.answers = progress.answers
        PROVE  Keeps
    BY <2>2 DEF Keeps
  <2>3. ASSUME NEW k \in DOMAIN Lesson, GoToStep(k)  PROVE Keeps
    BY <2>0, <2>2, <2>3 DEF GoToStep, Change, IsProgress
  <2>4. ASSUME NEW b, NEW value, HandleChangeValue(b, value)  PROVE Keeps
    BY <2>2, <2>4 DEF HandleChangeValue
  <2>5. ASSUME HandleCheck  PROVE Keeps
    <3>1. CASE \A b \in step.blanks : IsBlankCorrect(b, values[b.id])
      <4>1. progress' = [progress EXCEPT !.answers = Spread(@, [id \in {step.id} |-> values]),
                                         !.completed = @ \cup {step.id}]
        BY <2>5, <3>1 DEF HandleCheck, Change
      <4>2. /\ progress'.completed = progress.completed \cup {step.id}
            /\ progress'.answers = Spread(progress.answers, [id \in {step.id} |-> values])
        BY <2>0, <4>1 DEF IsProgress
      <4>3. ASSUME NEW id \in DOMAIN progress.answers
            PROVE  /\ id \in DOMAIN progress'.answers
                   /\ id # step.id => progress'.answers[id] = progress.answers[id]
        BY <4>2 DEF Spread
      <4> QED  BY <2>5, <4>2, <4>3 DEF Keeps
    <3>2. CASE ~\A b \in step.blanks : IsBlankCorrect(b, values[b.id])
      BY <2>2, <2>5, <3>2 DEF HandleCheck
    <3> QED  BY <3>1, <3>2
  <2>6. ASSUME Reload  PROVE Keeps
    BY <2>0, <2>2, <2>6, LoadsWhatWasSaved DEF Reload, Change
  <2>7. ASSUME NEW mode \in {"step", "free"}, SetMode(mode)  PROVE Keeps
    BY <2>0, <2>2, <2>7 DEF SetMode, Change, IsProgress
  <2>8. ASSUME NEW f, NEW source, HandleResetFreeFile(f) \/ HandleChangeFreeSource(f, source)
        PROVE  Keeps
    BY <2>0, <2>2, <2>8 DEF HandleResetFreeFile, HandleChangeFreeSource, Change, IsProgress
  <2> QED
    BY <2>1, <2>3, <2>4, <2>5, <2>6, <2>7, <2>8 DEF StudentNext
<1> QED
  BY <1>1, StepsInvIsInvariant, PTL DEF StudentSpec

\* labState.ts, escapeBlankValue: whatever a student enters as a text of the page
\* has as many characters when it is put into the code, and none of them opens or
\* closes anything there, nor begins a line.
THEOREM EscapedTextsOpenNothing ==
  ASSUME NEW value
  PROVE  /\ DOMAIN JsxText(value) = DOMAIN value
         /\ \A i \in DOMAIN value :
              JsxText(value)[i] \notin {"{", "}", "<", ">", "</span>", NewLine}
<1>1. DOMAIN Wide = {"{", "}", "<", ">", "</span>"}
  BY DEF Wide
<1>2. \A c \in DOMAIN Wide : Wide[c] \in {"wide {", "wide }", "wide <", "wide >", "wide </span>"}
  BY DEF Wide
<1>3. ASSUME NEW i \in DOMAIN value
      PROVE  JsxText(value)[i] \notin {"{", "}", "<", ">", "</span>", NewLine}
  <2>1. CASE value[i] \in DOMAIN Wide
    BY <1>2, <2>1 DEF JsxText, NewLine
  <2>2. CASE value[i] = NewLine
    BY <1>1, <2>2 DEF JsxText, NewLine, Space
  <2>3. CASE value[i] \notin DOMAIN Wide /\ value[i] # NewLine
    BY <1>1, <2>3 DEF JsxText
  <2> QED  BY <2>1, <2>2, <2>3
<1> QED  BY <1>3 DEF JsxText

-----------------------------------------------------------------------------
(* What is entered, and that every fallback is explained. *)

\* What is entered in the lesson are texts of E, or of U for a blank not escaped.
EntersOnly(E, U) ==
  E \subseteq Text /\ (\A p \in Unescaped : U[p] \subseteq E) /\ LessonEnters(E, U)

\* Whatever has been entered or saved is of that kind, and the saved progress is as
\* good as the one of the page.
Enters(E, U, p) == p.stepIndex \in Int /\ AnswersIn(E, U, p.answers) /\ AreTexts(p.freeEdits)
DraftsIn(E, U) == StepIds \subseteq DOMAIN drafts /\ AnswersIn(E, U, drafts)
EntryInv(E, U) == Enters(E, U, progress) /\ DraftsIn(E, U) /\ Enters(E, U, LoadProgress(stored))

LEMMA KindsOfTexts ==
  /\ \A id, x : Kind(Text, Everywhere(Text), id, x) = Text
  /\ \A E, U : (E \subseteq Text /\ \A p \in Unescaped : U[p] \subseteq E)
                => \A id, x : Kind(E, U, id, x) \subseteq E
<1>1. \A id, x : Kind(Text, Everywhere(Text), id, x) = Text
  BY DEF Kind, Everywhere
<1>2. ASSUME NEW E, NEW U, \A p \in Unescaped : U[p] \subseteq E, NEW id, NEW x
      PROVE  Kind(E, U, id, x) \subseteq E
  BY <1>2 DEF Kind
<1> QED BY <1>1, <1>2

LEMMA TextsAreEntered == EntersOnly(Text, Everywhere(Text))
<1>1. ASSUME NEW s \in Steps, NEW b \in s.blanks
      PROVE  DefaultBlankValue(b) \in Text /\ \A value \in Entries(b) : value \in Text
  <2>1. IsBlankOfStep(b)
    BY LessonHasSteps DEF IsStepOfLesson, AreBlanks
  <2>2. <<>> \in Text
    BY EmptySeq DEF Text
  <2>3. DefaultBlankValue(b) \in Text
    BY <2>1, <2>2 DEF DefaultBlankValue, IsBlankOfStep
  <2> QED BY <2>1, <2>3, EntriesAreTexts DEF Entries, IsBlankOfStep
<1> QED
  BY <1>1, KindsOfTexts, OldIsOfTexts
    DEF EntersOnly, LessonEnters, Everywhere, ProgressOfTexts, AnswersIn, AllOf, AreTexts

LEMMA EmptyIsOfTexts ==
  ASSUME NEW E, NEW U
  PROVE  IsProgress(EmptyProgress) /\ Enters(E, U, EmptyProgress)
<1>1. AnswersIn(E, U, [id \in {} |-> {}]) /\ AreTexts([f \in {} |-> <<>>])
  BY DEF AnswersIn, AreTexts
<1> QED BY <1>1 DEF EmptyProgress, IsProgress, Enters

LEMMA WhatIsLoaded ==
  ASSUME NEW E, NEW U, NEW item, item.is = "progress", ProgressOfTexts(item.progress),
         "answers" \in DOMAIN item.progress => AnswersIn(E, U, item.progress.answers)
  PROVE  Enters(E, U, LoadProgress(item))
<1> DEFINE kept == item.progress
           whole == Spread(EmptyProgress, kept)
           free == Restrict(whole.freeEdits, DOMAIN whole.freeEdits \cap File)
<1>1. LoadProgress(item) =
        [mode |-> IF whole.mode = "free" THEN "free" ELSE "step",
         stepIndex |-> whole.stepIndex, completed |-> whole.completed,
         answers |-> whole.answers, freeEdits |-> free]
  BY DEF LoadProgress
<1>2. \A x \in {"stepIndex", "answers", "freeEdits"} :
        whole[x] = IF x \in DOMAIN kept THEN kept[x] ELSE EmptyProgress[x]
  BY DEF Spread, EmptyProgress
<1>3. whole.stepIndex \in Int /\ AnswersIn(E, U, whole.answers) /\ AreTexts(whole.freeEdits)
  <2>1. Enters(E, U, EmptyProgress)
    BY EmptyIsOfTexts
  <2>2. whole.stepIndex \in Int
    BY <1>2, <2>1 DEF Enters, ProgressOfTexts
  <2>3. AnswersIn(E, U, whole.answers)
    BY <1>2, <2>1 DEF Enters
  <2>4. AreTexts(whole.freeEdits)
    BY <1>2, <2>1 DEF Enters, ProgressOfTexts
  <2> QED BY <2>2, <2>3, <2>4
<1> HIDE DEF whole
<1>4. AreTexts(free)
  BY <1>3 DEF Restrict, AreTexts
<1> HIDE DEF free
<1> QED BY <1>1, <1>3, <1>4 DEF Enters

LEMMA AnswersInAreTexts ==
  ASSUME NEW E, NEW U, EntersOnly(E, U), NEW answers, AnswersIn(E, U, answers)
  PROVE  AnswersAreTexts(answers)
BY KindsOfTexts DEF EntersOnly, LessonEnters, AnswersIn, AllOf, AnswersAreTexts, AreTexts

LEMMA SavedIsOfTexts ==
  ASSUME NEW E, NEW U, EntersOnly(E, U), NEW p, IsProgress(p), Enters(E, U, p)
  PROVE  Enters(E, U, LoadProgress(Stored(p)))
<1>1. Stored(p).is = "progress" /\ Stored(p).progress = p
  BY DEF Stored
<1>2. ProgressOfTexts(p)
  BY AnswersInAreTexts DEF ProgressOfTexts, Enters, AnswersAreTexts
<1>3. AnswersIn(E, U, p.answers)
  BY DEF Enters
<1> QED BY <1>1, <1>2, <1>3, WhatIsLoaded

LEMMA DraftsOfAnswers ==
  ASSUME NEW E, NEW U, EntersOnly(E, U), NEW answers, AnswersIn(E, U, answers)
  PROVE  DOMAIN Drafts(answers) = StepIds /\ AnswersIn(E, U, Drafts(answers))
<1>1. ASSUME NEW id \in StepIds  PROVE AllOf(E, U, id, Drafts(answers)[id])
  <2> DEFINE s == CHOOSE s \in Steps : s.id = id
             mine == AnswersOf(answers, s.id)
  <2>1. s \in Steps /\ s.id = id
    BY DEF StepIds
  <2>2. Drafts(answers)[id] = Draft(s, answers)
    BY DEF Drafts
  <2> HIDE DEF s
  <2>3. AllOf(E, U, id, mine)
    BY <2>1 DEF AnswersIn, AnswersOf, AllOf
  <2> HIDE DEF mine
  <2>4. ASSUME NEW name \in {b.id : b \in s.blanks}
        PROVE  Draft(s, answers)[name] \in Kind(E, U, id, name)
    <3> DEFINE blank == CHOOSE b \in s.blanks : b.id = name
    <3>1. blank \in s.blanks /\ blank.id = name
      OBVIOUS
    <3>2. Draft(s, answers)[name] = ValueOf(blank, mine)
      BY DEF Draft, mine
    <3> HIDE DEF blank
    <3>3. DefaultBlankValue(blank) \in Kind(E, U, id, name)
      BY <2>1, <3>1 DEF EntersOnly, LessonEnters
    <3> QED BY <2>3, <3>1, <3>2, <3>3 DEF ValueOf, AllOf
  <2>5. DOMAIN Draft(s, answers) = {b.id : b \in s.blanks}
    BY DEF Draft
  <2> QED BY <2>2, <2>4, <2>5 DEF AllOf
<1>2. DOMAIN Drafts(answers) = StepIds
  BY DEF Drafts
<1> QED BY <1>1, <1>2 DEF AnswersIn

LEMMA StepIsOfLesson ==
  ASSUME progress.stepIndex \in Int
  PROVE  step \in Steps /\ step.id \in StepIds /\ StepIndex(progress) \in DOMAIN Lesson
<1>1. StepIndex(progress) \in 1..Len(Lesson)
  BY LessonHasSteps DEF StepIndex
<1> QED BY <1>1, LessonHasSteps DEF step, StepIds

LEMMA EntriesStart ==
  ASSUME NEW E, NEW U, EntersOnly(E, U)
  PROVE  StudentInit => EntryInv(E, U)
<1> SUFFICES ASSUME NEW item \in Old \cup {NothingStored, Unreadable}, OpenLab(item)  PROVE EntryInv(E, U)
  BY DEF StudentInit
<1>1. Enters(E, U, LoadProgress(item)) /\ IsProgress(LoadProgress(item))
  <2>1. CASE item.is # "progress"
    BY <2>1, EmptyIsOfTexts, LoadedIsProgress DEF LoadProgress
  <2>2. CASE item.is = "progress"
    <3>1. item \in Old
      BY <2>2 DEF NothingStored, Unreadable
    <3>2. "answers" \in DOMAIN item.progress => AnswersIn(E, U, item.progress.answers)
      BY <2>2, <3>1 DEF EntersOnly, LessonEnters
    <3> QED BY <2>2, <3>1, <3>2, OldIsOfTexts, WhatIsLoaded, LoadedIsProgress
  <2> QED BY <2>1, <2>2
<1>2. Enters(E, U, progress) /\ IsProgress(progress)
  BY <1>1 DEF OpenLab
<1>3. DraftsIn(E, U)
  BY <1>2, DraftsOfAnswers DEF Enters, OpenLab, DraftsIn
<1>4. Enters(E, U, LoadProgress(stored))
  BY <1>1, <1>2, SavedIsOfTexts DEF OpenLab
<1> QED BY <1>2, <1>3, <1>4 DEF EntryInv

\* A step that changes the progress need only leave one of texts, and drafts of texts.
LEMMA ChangeOfEntries ==
  ASSUME NEW E, NEW U, EntersOnly(E, U), EntryInv(E, U), NEW p, IsProgress(p), Enters(E, U, p), Change(p), DraftsIn(E, U)'
  PROVE  EntryInv(E, U)'
<1>1. progress' = p /\ (stored' = IF CanStore THEN Stored(p) ELSE stored)
  BY DEF Change, SaveProgress
<1>2. Enters(E, U, LoadProgress(stored'))
  BY <1>1, SavedIsOfTexts DEF EntryInv
<1> QED BY <1>1, <1>2 DEF EntryInv

LEMMA EntriesGoOn ==
  ASSUME NEW E, NEW U, EntersOnly(E, U)
  PROVE  StepsInv /\ EntryInv(E, U) /\ [StudentNext]_studentVars => EntryInv(E, U)'
<1> SUFFICES ASSUME StepsInv, EntryInv(E, U), [StudentNext]_studentVars  PROVE EntryInv(E, U)'
  OBVIOUS
<1>0. /\ IsProgress(progress) /\ Enters(E, U, progress) /\ DraftsIn(E, U)
      /\ step \in Steps /\ step.id \in StepIds
  BY StepIsOfLesson DEF StepsInv, EntryInv, Enters
<1>a. ASSUME drafts' = drafts  PROVE DraftsIn(E, U)'
  BY <1>0, <1>a DEF DraftsIn
<1>b. ASSUME NEW p, Enters(E, U, p), drafts' = Drafts(p.answers)  PROVE DraftsIn(E, U)'
  BY <1>b, DraftsOfAnswers DEF Enters, DraftsIn
<1>1. CASE UNCHANGED studentVars
  BY <1>1, <1>a DEF studentVars, EntryInv
<1>2. ASSUME NEW k \in DOMAIN Lesson, GoToStep(k)  PROVE EntryInv(E, U)'
  <2>1. PICK p : p = [progress EXCEPT !.mode = "step", !.stepIndex = k]
    OBVIOUS
  <2>2. k \in Int
    BY LessonHasSteps
  <2>3. IsProgress(p) /\ Enters(E, U, p)
    BY <1>0, <2>1, <2>2 DEF IsProgress, Enters
  <2> QED BY <1>2, <1>a, <2>1, <2>3, ChangeOfEntries DEF GoToStep
<1>3. ASSUME NEW b \in step.blanks, NEW value \in Entries(b), HandleChangeValue(b, value)
      PROVE  EntryInv(E, U)'
  <2>1. value \in Kind(E, U, step.id, b.id)
    BY <1>0, <1>3 DEF EntersOnly, LessonEnters
  <2>2. drafts' = [drafts EXCEPT ![step.id][b.id] = value] /\ UNCHANGED <<progress, stored>>
    BY <1>3 DEF HandleChangeValue
  <2>3. DOMAIN drafts' = DOMAIN drafts
    BY <2>2
  <2>4. ASSUME NEW id \in DOMAIN drafts, NEW x \in DOMAIN drafts'[id]  PROVE drafts'[id][x] \in Kind(E, U, id, x)
    <3>1. CASE id = step.id
      <4>1. drafts'[id] = [drafts[id] EXCEPT ![b.id] = value]
        BY <2>2, <3>1
      <4>2. x \in DOMAIN drafts[id] /\ drafts'[id][x] = IF x = b.id THEN value ELSE drafts[id][x]
        BY <2>4, <4>1
      <4>3. x \in DOMAIN drafts[id] => drafts[id][x] \in Kind(E, U, id, x)
        BY <1>0 DEF DraftsIn, AnswersIn, AllOf
      <4> QED BY <2>1, <3>1, <4>2, <4>3
    <3>2. CASE id # step.id
      <4>1. drafts'[id] = drafts[id]
        BY <2>2, <3>2
      <4> QED BY <1>0, <2>4, <4>1 DEF DraftsIn, AnswersIn, AllOf
    <3> QED BY <3>1, <3>2
  <2>5. DraftsIn(E, U)'
    BY <1>0, <2>3, <2>4 DEF DraftsIn, AnswersIn, AllOf
  <2> QED BY <2>2, <2>5 DEF EntryInv
<1>4. CASE HandleCheck
  <2>1. CASE \A b \in step.blanks : IsBlankCorrect(b, values[b.id])
    <3>1. PICK p : p = [progress EXCEPT !.answers = Spread(@, [id \in {step.id} |-> values]),
                                        !.completed = @ \cup {step.id}]
      OBVIOUS
    <3>2. IsProgress(p) /\ p.answers = Spread(progress.answers, [id \in {step.id} |-> values])
          /\ p.stepIndex = progress.stepIndex /\ p.freeEdits = progress.freeEdits
      BY <1>0, <3>1 DEF IsProgress
    <3>3. AllOf(E, U, step.id, values)
      BY <1>0 DEF DraftsIn, AnswersIn, values
    <3>4. AnswersIn(E, U, p.answers)
      BY <1>0, <3>2, <3>3 DEF Enters, AnswersIn, Spread
    <3>5. Enters(E, U, p)
      BY <1>0, <3>2, <3>4 DEF Enters
    <3>6. Change(p) /\ drafts' = drafts
      BY <1>4, <2>1, <3>1 DEF HandleCheck
    <3> QED BY <1>a, <3>2, <3>5, <3>6, ChangeOfEntries
  <2>2. CASE ~\A b \in step.blanks : IsBlankCorrect(b, values[b.id])
    BY <1>4, <1>a, <2>2 DEF HandleCheck, EntryInv
  <2> QED BY <2>1, <2>2
<1>5. CASE HandleResetAll
  BY <1>5, <1>b, EmptyIsOfTexts, ChangeOfEntries DEF HandleResetAll
<1>6. CASE Reload
  <2>1. PICK p : p = LoadProgress(stored)
    OBVIOUS
  <2>2. IsProgress(p) /\ Enters(E, U, p)
    BY <2>1, LoadedIsProgress DEF EntryInv
  <2> QED BY <1>6, <1>b, <2>1, <2>2, ChangeOfEntries DEF Reload
<1>7. ASSUME NEW mode \in {"step", "free"}, SetMode(mode)  PROVE EntryInv(E, U)'
  <2>1. PICK p : p = [progress EXCEPT !.mode = mode]
    OBVIOUS
  <2>2. IsProgress(p) /\ Enters(E, U, p)
    BY <1>0, <2>1 DEF IsProgress, Enters
  <2> QED BY <1>7, <1>a, <2>1, <2>2, ChangeOfEntries DEF SetMode
<1>8. ASSUME NEW f \in File, NEW source \in FreeSource[f], HandleChangeFreeSource(f, source)
      PROVE  EntryInv(E, U)'
  <2>1. PICK p : p = [progress EXCEPT !.freeEdits = Spread(@, [g \in {f} |-> source])]
    OBVIOUS
  <2>2. source \in Text
    BY SourcesAreTexts
  <2>3. IsProgress(p) /\ p.freeEdits = Spread(progress.freeEdits, [g \in {f} |-> source])
        /\ p.stepIndex = progress.stepIndex /\ p.answers = progress.answers
    BY <1>0, <2>1 DEF IsProgress
  <2>4. AreTexts(p.freeEdits)
    BY <1>0, <2>2, <2>3 DEF Enters, AreTexts, Spread
  <2>5. Enters(E, U, p)
    BY <1>0, <2>3, <2>4 DEF Enters
  <2> QED BY <1>8, <1>a, <2>1, <2>3, <2>5, ChangeOfEntries DEF HandleChangeFreeSource
<1>9. ASSUME NEW f \in File, HandleResetFreeFile(f)  PROVE EntryInv(E, U)'
  <2>1. PICK p : p = [progress EXCEPT !.freeEdits = Restrict(@, DOMAIN @ \ {f})]
    OBVIOUS
  <2>2. IsProgress(p)
        /\ p.freeEdits = Restrict(progress.freeEdits, DOMAIN progress.freeEdits \ {f})
        /\ p.stepIndex = progress.stepIndex /\ p.answers = progress.answers
    BY <1>0, <2>1 DEF IsProgress
  <2>3. AreTexts(p.freeEdits)
    BY <1>0, <2>2 DEF Enters, AreTexts, Restrict
  <2>4. Enters(E, U, p)
    BY <1>0, <2>2, <2>3 DEF Enters
  <2> QED BY <1>9, <1>a, <2>1, <2>2, <2>4, ChangeOfEntries DEF HandleResetFreeFile
<1> QED
  BY <1>1, <1>2, <1>3, <1>4, <1>5, <1>6, <1>7, <1>8, <1>9 DEF StudentNext

LEMMA EntriesAreTextsToo == StudentSpec => []EntryInv(Text, Everywhere(Text))
<1>1. StudentInit => EntryInv(Text, Everywhere(Text))
  BY TextsAreEntered, EntriesStart
<1>2. StepsInv /\ EntryInv(Text, Everywhere(Text)) /\ [StudentNext]_studentVars => EntryInv(Text, Everywhere(Text))'
  BY TextsAreEntered, EntriesGoOn
<1> QED BY <1>1, <1>2, StepsInvIsInvariant, PTL DEF StudentSpec

LEMMA PreviewIsOfTexts ==
  ASSUME StepsInv, EntryInv(Text, Everywhere(Text)), NEW name \in File
  PROVE  PreviewSources[name] \in Text
<1>0. /\ AnswersAreTexts(progress.answers) /\ AreTexts(progress.freeEdits) /\ DraftsAreTexts
      /\ progress.mode \in {"step", "free"}
  BY TextsAreEntered, AnswersInAreTexts DEF EntryInv, Enters, DraftsIn, DraftsAreTexts, StepsInv, IsProgress
<1>1. \A before, draft : StepSources(progress, before, draft)[name] \in Text
  BY <1>0, BuiltAreTexts DEF TextsOfFiles
<1>2. BuiltSources(progress)[name] \in Text
  BY <1>1 DEF BuiltSources
<1>3. WithFreeEdits(progress)[name] \in Text
  <2>1. DOMAIN BuiltSources(progress) = File
    BY <1>0, BuiltAreTexts DEF TextsOfFiles, BuiltSources
  <2> QED BY <1>0, <1>2, <2>1 DEF WithFreeEdits, Spread, AreTexts
<1>4. CASE progress.mode = "free"
  <2>1. PreviewSources = WithFreeEdits(progress)
    BY <1>4 DEF PreviewSources
  <2> QED BY <1>3, <2>1
<1>5. CASE progress.mode = "step" /\ step.file # NoFile /\ AllFilled
  <2>1. PreviewSources = StepSources(progress, NoStep, StepIndex(progress))
    BY <1>5 DEF PreviewSources
  <2> QED BY <1>1, <2>1
<1>6. CASE progress.mode = "step" /\ ~(step.file # NoFile /\ AllFilled)
  <2>1. PreviewSources = BuiltSources(progress)
    BY <1>6 DEF PreviewSources
  <2> QED BY <1>2, <2>1
<1> QED BY <1>0, <1>4, <1>5, <1>6

\* moduleLoader.ts, previewBridge.ts: for any lesson, sources, entries and free
\* edits, files that import each other in any way are loaded to the end, and a
\* component is the built-in one just when an error about its file is reported.
THEOREM FallbacksAlwaysExplained == StudentSpec => []FallbacksAreExplained
<1>1. StepsInv /\ EntryInv(Text, Everywhere(Text)) => FallbacksAreExplained
  <2> SUFFICES ASSUME StepsInv, EntryInv(Text, Everywhere(Text))  PROVE FallbacksAreExplained
    OBVIOUS
  <2>1. \A name \in Module : PreviewSources[name] \in Text
    BY PreviewIsOfTexts, ModulesAreFiles
  <2>2. PICK sources : sources = PreviewSources
    OBVIOUS
  <2>3. Preview = ApplySources(sources)
    BY <2>2 DEF Preview
  <2> QED BY <2>1, <2>2, <2>3, WhatIsAppliedIsExplained DEF FallbacksAreExplained
<1> QED BY <1>1, StepsInvIsInvariant, EntriesAreTextsToo, PTL

-----------------------------------------------------------------------------
(* The view of a step and the code that is built. *)

\* The lines of a text, piece by piece.
AfterPiece(lines, p, newline) ==
  IF p = newline THEN Append(lines, <<>>)
  ELSE [lines EXCEPT ![Len(lines)] = Append(@, p)]
LinesOf(S) == Seq(Seq(S)) \ {<<>>}
LineStep(S, newline) == [q \in LinesOf(S) \X S |-> AfterPiece(q[1], q[2], newline)]

LEMMA LineStepIsTyped ==
  ASSUME NEW S, NEW newline
  PROVE  /\ LineStep(S, newline) \in [LinesOf(S) \X S -> LinesOf(S)]
         /\ << <<>> >> \in LinesOf(S)
         /\ \A lines \in LinesOf(S), p \in S :
              LineStep(S, newline)[<<lines, p>>] = AfterPiece(lines, p, newline)
<1>1. ASSUME NEW lines \in LinesOf(S), NEW p \in S
      PROVE  AfterPiece(lines, p, newline) \in LinesOf(S)
  <2>1. /\ lines \in Seq(Seq(S)) /\ lines # <<>> /\ Len(lines) \in Nat /\ Len(lines) # 0
        /\ DOMAIN lines = 1..Len(lines) /\ lines[Len(lines)] \in Seq(S)
    BY LenProperties, EmptySeq, ElementOfSeq DEF LinesOf
  <2>2. <<>> \in Seq(S) /\ Append(lines[Len(lines)], p) \in Seq(S)
    BY <2>1, AppendProperties, EmptySeq
  <2>3. CASE p = newline
    <3>1. Append(lines, <<>>) \in Seq(Seq(S)) /\ Append(lines, <<>>) # <<>>
      BY <2>1, <2>2, AppendProperties
    <3> QED BY <2>3, <3>1 DEF AfterPiece, LinesOf
  <2>4. CASE p # newline
    <3> DEFINE new == [lines EXCEPT ![Len(lines)] = Append(@, p)]
    <3>1. new \in Seq(Seq(S)) /\ Len(new) = Len(lines)
      BY <2>1, <2>2, ExceptSeq
    <3>2. new # <<>>
      BY <2>1, <3>1
    <3> QED BY <2>4, <3>1, <3>2 DEF AfterPiece, LinesOf
  <2> QED BY <2>3, <2>4
<1>2. ASSUME NEW q \in LinesOf(S) \X S  PROVE AfterPiece(q[1], q[2], newline) \in LinesOf(S)
  <2>1. q[1] \in LinesOf(S) /\ q[2] \in S
    OBVIOUS
  <2> QED BY <1>1, <2>1
<1>3. << <<>> >> \in LinesOf(S)
  <2>1. <<>> \in Seq(S)
    BY EmptySeq
  <2>2. << <<>> >> \in Seq(Seq(S)) /\ << <<>> >> # <<>>
    BY <2>1, ShortSequences
  <2> QED BY <2>2 DEF LinesOf
<1>4. LineStep(S, newline) \in [LinesOf(S) \X S -> LinesOf(S)]
  BY <1>2 DEF LineStep
<1>5. \A lines \in LinesOf(S), p \in S :
        LineStep(S, newline)[<<lines, p>>] = AfterPiece(lines, p, newline)
  BY DEF LineStep
<1> QED BY <1>3, <1>4, <1>5

LEMMA LinesAreFolded ==
  ASSUME NEW S, NEW newline, NEW text \in Seq(S)
  PROVE  Lines(text, newline)
           = Fold(LinesOf(S), S, LineStep(S, newline), << <<>> >>, text)
<1> DEFINE f == LineStep(S, newline)
           first == << <<>> >>
           Iter(it) == [s \in SUBSET (DOMAIN text) |->
                          IF s = {} THEN first
                          ELSE AfterPiece(it[s \ {Max(s)}], text[Max(s)], newline)]
           iter == CHOOSE it : it = Iter(it)
<1>0. DOMAIN text = 1..Len(text) /\ Len(text) \in Nat
  BY LenProperties
<1>1. f \in [LinesOf(S) \X S -> LinesOf(S)] /\ first \in LinesOf(S)
  BY LineStepIsTyped
<1>2. \A m \in LinesOf(S), p \in S : f[<<m, p>>] = AfterPiece(m, p, newline)
  BY LineStepIsTyped
<1>6. Lines(text, newline) = iter[DOMAIN text]
  BY DEF Lines, FoldLeft, MapThenFoldSet, AfterPiece
<1> HIDE DEF f, first
<1>3. \A s \in SUBSET (1..Len(text)) : s # {} => Max(s) \in s /\ text[Max(s)] \in S
  BY <1>0, GreatestOf, ElementOfSeq
<1>4. \E it : it = Iter(it)
  <2>1. PICK g : IsIter(LinesOf(S), S, f, first, text, Len(text), g)
    BY <1>1, IterExists
  <2>2. ASSUME NEW s \in SUBSET (1..Len(text))
        PROVE  g[s] = IF s = {} THEN first ELSE AfterPiece(g[s \ {Max(s)}], text[Max(s)], newline)
    BY <1>2, <1>3, <2>1, <2>2 DEF IsIter
  <2>3. DOMAIN g = SUBSET (1..Len(text)) /\ g = [s \in DOMAIN g |-> g[s]]
    BY <2>1 DEF IsIter
  <2>4. g = Iter(g)
    BY <1>0, <2>2, <2>3
  <2> QED BY <2>4
<1>5. iter = Iter(iter)
  BY <1>4
<1> HIDE DEF iter
<1>7. Iterates(LinesOf(S), f, first, text, iter)
  BY <1>0, <1>2, <1>3, <1>5 DEF Iterates
<1>8. iter[1..Len(text)] = Fold(LinesOf(S), S, f, first, text)
  BY <1>1, <1>7, IteratedIsFold, ZenonT(60)
<1> QED BY <1>0, <1>6, <1>8 DEF f, first

\* What Lines is, from the first piece of a text to its last.
Splits(S, newline) ==
  /\ Lines(<<>>, newline) = << <<>> >>
  /\ \A text \in Seq(S) : Lines(text, newline) \in LinesOf(S)
  /\ \A text \in Seq(S), p \in S :
       Lines(Append(text, p), newline) = AfterPiece(Lines(text, newline), p, newline)

LEMMA LinesGrow ==
  ASSUME NEW S, NEW newline
  PROVE  Splits(S, newline)
<1> DEFINE f == LineStep(S, newline)
           first == << <<>> >>
<1>1. f \in [LinesOf(S) \X S -> LinesOf(S)] /\ first \in LinesOf(S)
  BY LineStepIsTyped
<1>2. \A m \in LinesOf(S), p \in S : f[<<m, p>>] = AfterPiece(m, p, newline)
  BY LineStepIsTyped
<1>3. \A text \in Seq(S) : Lines(text, newline) = Fold(LinesOf(S), S, f, first, text)
  BY LinesAreFolded
<1> HIDE DEF f, first
<1>4. Lines(<<>>, newline) = first
  <2>1. <<>> \in Seq(S)
    BY EmptySeq
  <2>2. Fold(LinesOf(S), S, f, first, <<>>) = first
    BY <1>1, FoldEmpty, ZenonT(60)
  <2> QED BY <1>3, <2>1, <2>2
<1>5. ASSUME NEW text \in Seq(S)  PROVE Lines(text, newline) \in LinesOf(S)
  <2>1. Fold(LinesOf(S), S, f, first, text) \in LinesOf(S)
    BY <1>1, FoldType, ZenonT(60)
  <2> QED BY <1>3, <2>1
<1>6. ASSUME NEW text \in Seq(S), NEW p \in S
      PROVE  Lines(Append(text, p), newline) = AfterPiece(Lines(text, newline), p, newline)
  <2>2. FoldGrows(LinesOf(S), S, f, first)
    BY <1>1, FoldAppend, ZenonT(60)
  <2>3. Append(text, p) \in Seq(S)
    OBVIOUS
  <2>4. Lines(Append(text, p), newline) = f[<<Lines(text, newline), p>>]
    BY <1>3, <2>2, <2>3 DEF FoldGrows
  <2> QED BY <1>2, <1>5, <2>4
<1> QED BY <1>4, <1>5, <1>6 DEF Splits, first

\* What Append does.
Appends(S) ==
  \A seq \in Seq(S), x \in S :
    /\ Len(seq) \in Nat /\ DOMAIN seq = 1..Len(seq)
    /\ DOMAIN Append(seq, x) = 1..(Len(seq) + 1)
    /\ Append(seq, x)[Len(seq) + 1] = x
    /\ \A i \in 1..Len(seq) : Append(seq, x)[i] = seq[i]
    /\ Append(seq, x) = [i \in DOMAIN Append(seq, x) |-> Append(seq, x)[i]]
    /\ seq \o <<x>> = Append(seq, x) /\ Append(seq, x) \in Seq(S)

LEMMA AppendedTo ==
  ASSUME NEW S
  PROVE  Appends(S)
<1> SUFFICES ASSUME NEW seq \in Seq(S), NEW x \in S
             PROVE  /\ Len(seq) \in Nat /\ DOMAIN seq = 1..Len(seq)
                    /\ DOMAIN Append(seq, x) = 1..(Len(seq) + 1)
                    /\ Append(seq, x)[Len(seq) + 1] = x
                    /\ \A i \in 1..Len(seq) : Append(seq, x)[i] = seq[i]
                    /\ Append(seq, x) = [i \in DOMAIN Append(seq, x) |-> Append(seq, x)[i]]
                    /\ seq \o <<x>> = Append(seq, x) /\ Append(seq, x) \in Seq(S)
  BY DEF Appends
<1> DEFINE all == Append(seq, x)
<1>1. Len(seq) \in Nat /\ DOMAIN seq = 1..Len(seq)
  BY LenProperties
<1>2. seq \o <<x>> = all
  OBVIOUS
<1>3. /\ all \in Seq(S) /\ Len(all) = Len(seq) + 1 /\ all[Len(seq) + 1] = x
      /\ \A i \in 1..Len(seq) : all[i] = seq[i]
  BY <1>1, AppendProperties
<1> HIDE DEF all
<1>4. DOMAIN all = 1..(Len(seq) + 1)
  BY <1>3, LenProperties
<1>5. all = [i \in DOMAIN all |-> all[i]]
  BY <1>1, <1>3, SeqDef
<1> QED BY <1>1, <1>2, <1>3, <1>4, <1>5 DEF all

\* What FillTemplate is, from the first piece of a template to its last.
Fills(blanks, entered) ==
  /\ FillTemplate(<<>>, blanks, entered) = <<>>
  /\ \A template \in Seq(Piece) : FillTemplate(template, blanks, entered) \in Seq(STRING)
  /\ \A template \in Seq(Piece), piece \in Piece :
       FillTemplate(Append(template, piece), blanks, entered)
         = FillTemplate(template, blanks, entered) \o Fill(piece, blanks, entered)

LEMMA TemplateGrows ==
  ASSUME NEW blanks, AreBlanks(blanks), NEW entered, AreTexts(entered)
  PROVE  Fills(blanks, entered)
<1> DEFINE filled(t) == [i \in DOMAIN t |-> Fill(t[i], blanks, entered)]
<1>1. FillTemplate(<<>>, blanks, entered) = <<>>
  <2>1. filled(<<>>) = <<>>
    BY EmptySeq
  <2> QED BY <2>1 DEF FillTemplate, FlattenSeq
<1>2. ASSUME NEW template \in Seq(Piece), NEW piece \in Piece
      PROVE  FillTemplate(Append(template, piece), blanks, entered)
               = FillTemplate(template, blanks, entered) \o Fill(piece, blanks, entered)
  <2>1. filled(template) \in Seq(Seq(STRING)) /\ Fill(piece, blanks, entered) \in Seq(STRING)
    BY TemplateIsText, FillIsText DEF Text
  <2>2. filled(Append(template, piece)) = Append(filled(template), Fill(piece, blanks, entered))
    <3> DEFINE all == Append(template, piece)
               right == Append(filled(template), Fill(piece, blanks, entered))
    <3>1. /\ Len(template) \in Nat /\ DOMAIN template = 1..Len(template)
          /\ DOMAIN all = 1..(Len(template) + 1) /\ all[Len(template) + 1] = piece
          /\ \A i \in 1..Len(template) : all[i] = template[i]
      BY AppendProperties, LenProperties
    <3>2. Len(filled(template)) = Len(template)
      BY <2>1, <3>1, LenProperties
    <3>3. /\ DOMAIN right = 1..(Len(template) + 1)
          /\ right[Len(template) + 1] = Fill(piece, blanks, entered)
          /\ \A i \in 1..Len(template) : right[i] = filled(template)[i]
          /\ right \in Seq(Seq(STRING))
      <4> HIDE DEF filled
      <4> QED BY <2>1, <3>1, <3>2, AppendProperties, LenProperties
    <3>4. right = [i \in DOMAIN right |-> right[i]]
      BY <3>3
    <3>5. DOMAIN filled(all) = 1..(Len(template) + 1)
      BY <3>1
    <3>6. \A i \in DOMAIN all : filled(all)[i] = Fill(all[i], blanks, entered)
      OBVIOUS
    <3>7. \A i \in 1..Len(template) : filled(template)[i] = Fill(template[i], blanks, entered)
      BY <3>1
    <3>8. filled(all) = [i \in DOMAIN filled(all) |-> filled(all)[i]]
      OBVIOUS
    <3> HIDE DEF all, filled, right
    <3>9. ASSUME NEW i \in 1..(Len(template) + 1)  PROVE filled(all)[i] = right[i]
      <4>1. CASE i = Len(template) + 1
        BY <3>1, <3>3, <3>6, <4>1
      <4>2. CASE i # Len(template) + 1
        <5>1. i \in 1..Len(template)
          BY <3>1, <4>2
        <5> QED BY <3>1, <3>3, <3>6, <3>7, <5>1
      <4> QED BY <4>1, <4>2
    <3>10. filled(all) = right
      BY <3>3, <3>4, <3>5, <3>8, <3>9
    <3> QED BY <3>10 DEF all, right
  <2>3. \A t : FillTemplate(t, blanks, entered) = FlattenSeq(filled(t))
    BY DEF FillTemplate
  <2> HIDE DEF filled
  <2>4. PICK before \in Seq(Seq(STRING)), one \in Seq(STRING) :
          before = filled(template) /\ one = Fill(piece, blanks, entered)
    BY <2>1
  <2>5. FlattenSeq(Append(before, one)) = FlattenSeq(before) \o one
    BY FlattenGrows DEF Flattens
  <2> QED BY <2>2, <2>3, <2>4, <2>5
<1>3. ASSUME NEW template \in Seq(Piece)  PROVE FillTemplate(template, blanks, entered) \in Seq(STRING)
  BY TemplateIsText DEF Text
<1> QED BY <1>1, <1>2, <1>3 DEF Fills

LEMMA TemplatesInSequence ==
  ASSUME NEW blanks, AreBlanks(blanks), NEW entered, AreTexts(entered), NEW a \in Seq(Piece)
  PROVE  \A b \in Seq(Piece) :
           FillTemplate(a \o b, blanks, entered)
             = FillTemplate(a, blanks, entered) \o FillTemplate(b, blanks, entered)
<1> DEFINE F(t) == FillTemplate(t, blanks, entered)
           P == {b \in Seq(Piece) : F(a \o b) = F(a) \o F(b)}
<1>0. /\ F(<<>>) = <<>>
      /\ \A t \in Seq(Piece) : F(t) \in Seq(STRING)
      /\ \A t \in Seq(Piece), p \in Piece : F(Append(t, p)) = F(t) \o Fill(p, blanks, entered)
  BY TemplateGrows DEF Fills
<1>1. \A p \in Piece : Fill(p, blanks, entered) \in Seq(STRING)
  BY FillIsText DEF Text
<1> HIDE DEF F
<1>2. <<>> \in P
  <2>1. a \o <<>> = a /\ <<>> \in Seq(Piece)
    BY EmptySeq
  <2>2. F(a) \in Seq(STRING)
    BY <1>0
  <2>3. F(a) \o <<>> = F(a)
    BY <2>2
  <2> QED BY <1>0, <2>1, <2>3
<1>3. ASSUME NEW b \in Seq(Piece), NEW p \in Piece, b \in P  PROVE Append(b, p) \in P
  <2>1. a \o Append(b, p) = Append(a \o b, p) /\ a \o b \in Seq(Piece) /\ Append(b, p) \in Seq(Piece)
    OBVIOUS
  <2>2. F(a \o Append(b, p)) = F(a \o b) \o Fill(p, blanks, entered)
    BY <1>0, <2>1
  <2>3. F(a) \in Seq(STRING) /\ F(b) \in Seq(STRING) /\ Fill(p, blanks, entered) \in Seq(STRING)
    BY <1>0, <1>1
  <2>4. (F(a) \o F(b)) \o Fill(p, blanks, entered) = F(a) \o (F(b) \o Fill(p, blanks, entered))
    BY <2>3
  <2> QED BY <1>0, <1>3, <2>1, <2>2, <2>4
<1> HIDE DEF P
<1>4. \A b \in Seq(Piece) : b \in P
  BY <1>2, <1>3, InductionOnSequences
<1> QED BY <1>4 DEF P, F

LEMMA PiecesOfText ==
  ASSUME NEW blanks, AreBlanks(blanks), NEW entered, AreTexts(entered), NEW text \in Text
  PROVE  /\ Pieces(text) \in Seq(Piece) /\ Len(Pieces(text)) = Len(text)
         /\ FillTemplate(Pieces(text), blanks, entered) = text
<1> DEFINE P == {t \in Text : FillTemplate(Pieces(t), blanks, entered) = t}
<1>0. ASSUME NEW t \in Text
      PROVE  Pieces(t) \in Seq(Piece) /\ Len(Pieces(t)) = Len(t) /\ DOMAIN Pieces(t) = 1..Len(t)
  <2>1. Len(t) \in Nat /\ DOMAIN t = 1..Len(t) /\ \A i \in 1..Len(t) : t[i] \in STRING
    BY LenProperties, ElementOfSeq DEF Text
  <2>2. \A i \in 1..Len(t) : Token(t[i]) \in Piece
    BY <2>1 DEF Token, Piece
  <2>3. Pieces(t) \in [1..Len(t) -> Piece]
    BY <2>1, <2>2 DEF Pieces
  <2>4. Pieces(t) \in Seq(Piece) /\ DOMAIN Pieces(t) = 1..Len(t)
    BY <2>1, <2>3, SeqDef
  <2> QED BY <2>1, <2>4, LenProperties
<1>1. <<>> \in P
  <2>1. Pieces(<<>>) = <<>> /\ <<>> \in Text
    BY EmptySeq DEF Pieces, Text
  <2> QED BY <2>1, TemplateGrows DEF Fills
<1>2. ASSUME NEW t \in Seq(STRING), NEW c \in STRING, t \in P  PROVE Append(t, c) \in P
  <2>0. t \in Text /\ Append(t, c) \in Text /\ Token(c) \in Piece
    BY DEF Text, Token, Piece
  <2>a. Appends(STRING)
    BY AppendedTo
  <2>b. Appends(Piece)
    BY AppendedTo
  <2>1. Pieces(Append(t, c)) = Append(Pieces(t), Token(c))
    <3> DEFINE all == Append(t, c)
               right == Append(Pieces(t), Token(c))
    <3>1. /\ Len(t) \in Nat /\ DOMAIN t = 1..Len(t)
          /\ DOMAIN all = 1..(Len(t) + 1) /\ all[Len(t) + 1] = c
          /\ \A i \in 1..Len(t) : all[i] = t[i]
      BY <2>a DEF Appends
    <3>2. /\ DOMAIN right = 1..(Len(t) + 1) /\ right[Len(t) + 1] = Token(c)
          /\ \A i \in 1..Len(t) : right[i] = Pieces(t)[i]
          /\ right = [i \in DOMAIN right |-> right[i]]
      <4>1. Pieces(t) \in Seq(Piece) /\ Len(Pieces(t)) = Len(t)
        BY <1>0, <2>0
      <4>2. PICK pieces \in Seq(Piece), one \in Piece : pieces = Pieces(t) /\ one = Token(c)
        BY <2>0, <4>1
      <4>3. right = Append(pieces, one)
        BY <4>2
      <4> HIDE DEF right
      <4> QED BY <2>b, <4>1, <4>2, <4>3 DEF Appends
    <3>4. Pieces(all) = [i \in 1..(Len(t) + 1) |-> Token(all[i])]
      BY <3>1 DEF Pieces
    <3>5. \A i \in 1..Len(t) : Pieces(t)[i] = Token(t[i])
      BY <3>1 DEF Pieces
    <3> HIDE DEF all, right
    <3>6. \A i \in 1..(Len(t) + 1) : Token(all[i]) = right[i]
      BY <3>1, <3>2, <3>5
    <3>7. Pieces(all) = right
      BY <3>2, <3>4, <3>6
    <3> QED BY <3>7 DEF all, right
  <2>2. FillTemplate(Append(Pieces(t), Token(c)), blanks, entered)
          = FillTemplate(Pieces(t), blanks, entered) \o Fill(Token(c), blanks, entered)
    BY <1>0, <2>0, TemplateGrows DEF Fills
  <2>3. Fill(Token(c), blanks, entered) = <<c>>
    BY DEF Fill, Token, IsBlank
  <2>4. t \o <<c>> = Append(t, c)
    BY <2>a DEF Appends
  <2> QED BY <1>2, <2>0, <2>1, <2>2, <2>3, <2>4
<1> HIDE DEF P
<1>3. \A t \in Seq(STRING) : t \in P
  BY <1>1, <1>2, InductionOnSequences
<1> QED BY <1>0, <1>3 DEF P, Text

LEMMA OneLineIsText == \A w \in OneLine : w \in Text
BY DEF OneLine, Plain, Text

LEMMA EscapedIsOneLine ==
  ASSUME NEW value \in Text
  PROVE  JsxText(value) \in OneLine /\ StringText(value) \in OneLine
<1>1. EscapesWith(Plain)
  BY LiteralsAreStrings DEF EscapesWith, Plain, Backslash, Quote, Space, NewLine, Wide
<1>2. Plain \cup {NewLine} = STRING
  BY LiteralsAreStrings DEF Plain
<1>3. value \in Seq(Plain \cup {NewLine})
  BY <1>2 DEF Text
<1>4. JsxText(value) \in Seq(Plain) /\ StringText(value) \in Seq(Plain)
  BY <1>1, <1>3, EscapedIsOf
<1> QED BY <1>4 DEF OneLine

UnescapedAreOneLine(blanks, entered) ==
  \A b \in blanks : b.escape = "none" => ValueOf(b, entered) \in OneLine

LEMMA FilledIsOneLine ==
  ASSUME NEW piece \in Piece, piece # Token(NewLine), NEW blanks, AreBlanks(blanks),
         NEW entered, AreTexts(entered), UnescapedAreOneLine(blanks, entered)
  PROVE  Fill(piece, blanks, entered) \in OneLine
<1>1. CASE ~IsBlank(piece)
  <2>1. piece.text \in STRING /\ piece = [is |-> "text", text |-> piece.text]
    BY <1>1 DEF IsBlank, Piece
  <2>2. piece.text \in Plain
    BY <2>1 DEF Token, Plain
  <2>3. <<piece.text>> \in Seq(Plain)
    BY <2>2, ShortSequences
  <2> QED BY <1>1, <2>3 DEF Fill, OneLine
<1>2. CASE IsBlank(piece)
  <2>1. ASSUME NEW b \in blanks  PROVE EscapeBlankValue(b, ValueOf(b, entered)) \in OneLine
    <3>1. IsBlankOfStep(b)
      BY DEF AreBlanks
    <3>2. ValueOf(b, entered) \in Text /\ b.escape \in {"jsx-text", "string", "none"}
      BY <3>1, EscapedBlankIsText DEF IsBlankOfStep
    <3>3. b.escape = "none" => ValueOf(b, entered) \in OneLine
      BY DEF UnescapedAreOneLine
    <3> QED BY <3>2, <3>3, EscapedIsOneLine DEF EscapeBlankValue
  <2> QED BY <1>2, <2>1, FilledBlank DEF AreBlanks, OneLine
<1> QED BY <1>1, <1>2

\* A text of one line only makes the last line longer.
Longer(lines, w) == [lines EXCEPT ![Len(lines)] = @ \o w]

AppendsLater(S) ==
  \A a, b \in Seq(S), x \in S : a \o Append(b, x) = Append(a \o b, x) /\ a \o b \in Seq(S)

LEMMA AppendedLater ==
  ASSUME NEW S
  PROVE  AppendsLater(S)
<1>1. ASSUME NEW a \in Seq(S), NEW b \in Seq(S), NEW x \in S
      PROVE  a \o Append(b, x) = Append(a \o b, x) /\ a \o b \in Seq(S)
  OBVIOUS
<1> QED BY <1>1 DEF AppendsLater

LEMMA LinesOfOneLine ==
  ASSUME NEW text \in Text
  PROVE  \A w \in OneLine : Lines(text \o w, NewLine) = Longer(Lines(text, NewLine), w)
<1> DEFINE L == Lines(text, NewLine)
           P == {w \in OneLine : Lines(text \o w, NewLine) = Longer(L, w)}
<1>0. Splits(STRING, NewLine) /\ text \in Seq(STRING)
  BY LinesGrow DEF Text
<1>1. L \in LinesOf(STRING)
  BY <1>0 DEF Splits
<1>2. /\ Len(L) \in Nat /\ Len(L) # 0 /\ DOMAIN L = 1..Len(L) /\ L[Len(L)] \in Seq(STRING)
      /\ L = [n \in 1..Len(L) |-> L[n]]
  BY <1>1, LenProperties, EmptySeq, ElementOfSeq, SeqDef DEF LinesOf
<1> HIDE DEF L
<1>3. <<>> \in P
  <2>1. text \o <<>> = text /\ L[Len(L)] \o <<>> = L[Len(L)]
    BY <1>0, <1>2
  <2>2. Longer(L, <<>>) = L
    BY <1>2, <2>1 DEF Longer
  <2> QED BY <2>1, <2>2, EmptySeq DEF OneLine, L
<1>4. ASSUME NEW w \in Seq(Plain), NEW c \in Plain, w \in P  PROVE Append(w, c) \in P
  <2>1. w \in Seq(STRING) /\ c \in STRING /\ c # NewLine /\ Append(w, c) \in OneLine
    <3>1. Append(w, c) \in Seq(Plain)
      OBVIOUS
    <3> QED BY <3>1, OneLineIsText DEF Plain, OneLine, Text
  <2>a. AppendsLater(STRING)
    BY AppendedLater
  <2>2. text \o Append(w, c) = Append(text \o w, c) /\ text \o w \in Seq(STRING)
    BY <1>0, <2>1, <2>a DEF AppendsLater
  <2>3. Lines(text \o Append(w, c), NewLine) = AfterPiece(Longer(L, w), c, NewLine)
    BY <1>0, <1>4, <2>1, <2>2 DEF Splits
  <2>4. /\ DOMAIN Longer(L, w) = 1..Len(L) /\ Longer(L, w)[Len(L)] = L[Len(L)] \o w
        /\ \A n \in 1..Len(L) : n # Len(L) => Longer(L, w)[n] = L[n]
        /\ Len(Longer(L, w)) = Len(L)
    <3>1. Longer(L, w) = [n \in 1..Len(L) |-> IF n = Len(L) THEN L[n] \o w ELSE L[n]]
      BY <1>2 DEF Longer
    <3> QED BY <1>2, <3>1
  <2>5. L[Len(L)] \o Append(w, c) = Append(L[Len(L)] \o w, c)
    BY <1>2, <2>1, <2>a DEF AppendsLater
  <2>6. AfterPiece(Longer(L, w), c, NewLine) = [Longer(L, w) EXCEPT ![Len(L)] = Append(@, c)]
    BY <2>1, <2>4 DEF AfterPiece
  <2>7. [Longer(L, w) EXCEPT ![Len(L)] = Append(@, c)]
          = [n \in 1..Len(L) |-> IF n = Len(L) THEN L[n] \o Append(w, c) ELSE L[n]]
    BY <1>2, <2>4, <2>5
  <2>8. Longer(L, Append(w, c)) = [n \in 1..Len(L) |-> IF n = Len(L) THEN L[n] \o Append(w, c) ELSE L[n]]
    BY <1>2 DEF Longer
  <2> QED BY <2>1, <2>3, <2>6, <2>7, <2>8
<1> HIDE DEF P
<1>5. \A w \in Seq(Plain) : w \in P
  BY <1>3, <1>4, InductionOnSequences
<1> QED BY <1>5 DEF P, OneLine, L

\* Line by line, a filled template is its lines filled.
FilledLines(blanks, entered, lines) ==
  [n \in DOMAIN lines |-> FillTemplate(lines[n], blanks, entered)]

LEMMA LinesOfTemplate ==
  ASSUME NEW blanks, AreBlanks(blanks), NEW entered, AreTexts(entered),
         UnescapedAreOneLine(blanks, entered)
  PROVE  \A template \in Seq(Piece) :
           Lines(FillTemplate(template, blanks, entered), NewLine)
             = FilledLines(blanks, entered, Lines(template, Token(NewLine)))
<1> DEFINE F(t) == FillTemplate(t, blanks, entered)
           L(t) == Lines(t, Token(NewLine))
           M(t) == Lines(F(t), NewLine)
           P == {t \in Seq(Piece) : M(t) = FilledLines(blanks, entered, L(t))}
<1>0. /\ F(<<>>) = <<>>
      /\ \A t \in Seq(Piece) : F(t) \in Seq(STRING)
      /\ \A t \in Seq(Piece), p \in Piece : F(Append(t, p)) = F(t) \o Fill(p, blanks, entered)
  BY TemplateGrows DEF Fills
<1>1. /\ L(<<>>) = << <<>> >>
      /\ \A t \in Seq(Piece) : L(t) \in LinesOf(Piece)
      /\ \A t \in Seq(Piece), p \in Piece : L(Append(t, p)) = AfterPiece(L(t), p, Token(NewLine))
  BY LinesGrow DEF Splits
<1>2. /\ Lines(<<>>, NewLine) = << <<>> >>
      /\ \A t \in Seq(STRING) : Lines(t, NewLine) \in LinesOf(STRING)
      /\ \A t \in Seq(STRING), c \in STRING : Lines(Append(t, c), NewLine) = AfterPiece(Lines(t, NewLine), c, NewLine)
  BY LinesGrow DEF Splits
<1>3. \A lines : FilledLines(blanks, entered, lines) = [n \in DOMAIN lines |-> F(lines[n])]
  BY DEF FilledLines
<1>4. \A t : M(t) = Lines(F(t), NewLine)
  OBVIOUS
<1> HIDE DEF F, L, M
<1>5. <<>> \in P
  <2>1. FilledLines(blanks, entered, L(<<>>)) = << <<>> >>
    BY <1>0, <1>1, <1>3
  <2> QED BY <1>0, <1>2, <1>4, <2>1, EmptySeq
<1>6. ASSUME NEW t \in Seq(Piece), NEW p \in Piece, t \in P  PROVE Append(t, p) \in P
  <2> DEFINE old == L(t)
             k == Len(old)
  <2>1. /\ k \in Nat /\ k # 0 /\ DOMAIN old = 1..k /\ \A n \in 1..k : old[n] \in Seq(Piece)
        /\ old \in Seq(Seq(Piece))
    BY <1>1, LenProperties, EmptySeq, ElementOfSeq DEF LinesOf
  <2>2. M(t) = [n \in 1..k |-> F(old[n])]
    BY <1>3, <1>6, <2>1
  <2>3. Len(M(t)) = k /\ DOMAIN M(t) = 1..k /\ M(t) \in Seq(Seq(STRING))
    BY <1>0, <2>1, <2>2
  <2>4. F(t) \in Seq(STRING) /\ Append(t, p) \in Seq(Piece)
        /\ F(Append(t, p)) = F(t) \o Fill(p, blanks, entered)
        /\ L(Append(t, p)) = AfterPiece(old, p, Token(NewLine))
    BY <1>0, <1>1
  <2>5. CASE p = Token(NewLine)
    <3>1. Fill(p, blanks, entered) = <<NewLine>>
      BY <2>5 DEF Fill, Token, IsBlank
    <3>2. F(Append(t, p)) = Append(F(t), NewLine) /\ NewLine \in STRING
      <4>1. Appends(STRING) /\ NewLine \in STRING
        BY AppendedTo, LiteralsAreStrings
      <4> QED BY <2>4, <3>1, <4>1 DEF Appends
    <3>3. M(Append(t, p)) = Append(M(t), <<>>)
      BY <1>2, <1>4, <2>4, <3>2 DEF AfterPiece
    <3>4. L(Append(t, p)) = Append(old, <<>>)
      BY <2>4, <2>5 DEF AfterPiece
    <3>5. /\ DOMAIN Append(old, <<>>) = 1..(k + 1) /\ Append(old, <<>>)[k + 1] = <<>>
          /\ \A n \in 1..k : Append(old, <<>>)[n] = old[n]
      BY <2>1, EmptySeq, AppendedTo DEF Appends
    <3>6. /\ Append(M(t), <<>>) = [n \in 1..(k + 1) |-> Append(M(t), <<>>)[n]]
          /\ Append(M(t), <<>>)[k + 1] = <<>>
          /\ \A n \in 1..k : Append(M(t), <<>>)[n] = M(t)[n]
      <4>1. Appends(Seq(STRING)) /\ <<>> \in Seq(STRING)
        BY AppendedTo, EmptySeq
      <4>2. PICK m \in Seq(Seq(STRING)) : m = M(t)
        BY <2>3
      <4>3. Len(m) = k
        BY <2>3, <4>2
      <4> HIDE DEF k
      <4> QED BY <4>1, <4>2, <4>3 DEF Appends
    <3>7. \A n \in 1..(k + 1) : Append(M(t), <<>>)[n] = F(Append(old, <<>>)[n])
      <4> TAKE n \in 1..(k + 1)
      <4>1. CASE n = k + 1
        BY <1>0, <3>5, <3>6, <4>1
      <4>2. CASE n # k + 1
        <5>1. n \in 1..k
          BY <2>1, <4>2
        <5> QED BY <2>2, <3>5, <3>6, <5>1
      <4> QED BY <4>1, <4>2
    <3>8. M(Append(t, p)) = FilledLines(blanks, entered, L(Append(t, p)))
      <4>1. FilledLines(blanks, entered, L(Append(t, p)))
              = [n \in 1..(k + 1) |-> F(Append(old, <<>>)[n])]
        BY <1>3, <3>4, <3>5
      <4> HIDE DEF old, k
      <4> QED BY <3>3, <3>6, <3>7, <4>1
    <3> QED BY <2>4, <3>8
  <2>6. CASE p # Token(NewLine)
    <3> DEFINE w == Fill(p, blanks, entered)
    <3>1. w \in OneLine
      BY <2>6, FilledIsOneLine
    <3>2. M(Append(t, p)) = Longer(M(t), w)
      BY <1>4, <2>4, <3>1, LinesOfOneLine DEF Text
    <3> HIDE DEF w
    <3>3. Longer(M(t), w) = [n \in 1..k |-> IF n = k THEN F(old[n]) \o w ELSE F(old[n])]
      BY <2>1, <2>2, <2>3 DEF Longer
    <3>4. L(Append(t, p)) = [n \in 1..k |-> IF n = k THEN Append(old[n], p) ELSE old[n]]
      <4>1. L(Append(t, p)) = [old EXCEPT ![k] = Append(@, p)]
        BY <2>4, <2>6 DEF AfterPiece
      <4>2. old = [n \in 1..k |-> old[n]]
        BY <2>1, SeqDef
      <4> HIDE DEF old, k
      <4> QED BY <2>1, <4>1, <4>2
    <3>5. F(Append(old[k], p)) = F(old[k]) \o w
      BY <1>0, <2>1 DEF w
    <3>6. M(Append(t, p)) = FilledLines(blanks, entered, L(Append(t, p)))
      <4> HIDE DEF old, k
      <4>1. FilledLines(blanks, entered, L(Append(t, p)))
              = [n \in 1..k |-> IF n = k THEN F(Append(old[n], p)) ELSE F(old[n])]
        <5>1. PICK l : l = L(Append(t, p))
          OBVIOUS
        <5>2. /\ DOMAIN l = 1..k
              /\ \A n \in 1..k : l[n] = IF n = k THEN Append(old[n], p) ELSE old[n]
          BY <3>4, <5>1
        <5>3. FilledLines(blanks, entered, l) = [n \in 1..k |-> F(l[n])]
          BY <1>3, <5>2
        <5>4. \A n \in 1..k : F(l[n]) = IF n = k THEN F(Append(old[n], p)) ELSE F(old[n])
          BY <5>2
        <5> QED BY <5>1, <5>3, <5>4
      <4> QED BY <3>2, <3>3, <3>5, <4>1
    <3> QED BY <2>4, <3>6
  <2> QED BY <2>5, <2>6
<1> HIDE DEF P
<1>7. \A t \in Seq(Piece) : t \in P
  BY <1>5, <1>6, InductionOnSequences
<1> QED BY <1>7 DEF P, F, L, M

LEMMA PartsOfPieces ==
  ASSUME NEW text \in Text, NEW a \in 1..(Len(text) + 1), NEW b \in (a - 1)..Len(text)
  PROVE  /\ SubSeq(text, a, b) \in Text /\ Len(SubSeq(text, a, b)) = b + 1 - a
         /\ Pieces(SubSeq(text, a, b)) = SubSeq(Pieces(text), a, b)
<1>0. Len(text) \in Nat /\ DOMAIN text = 1..Len(text) /\ text \in Seq(STRING)
  BY LenProperties DEF Text
<1>1. Pieces(text) \in Seq(Piece) /\ Len(Pieces(text)) = Len(text)
  <2>1. AreBlanks({}) /\ AreTexts([x \in {} |-> <<>>])
    BY FS_EmptySet DEF AreBlanks, AreTexts
  <2> QED BY <2>1, PiecesOfText
<1>2. /\ a \in Nat /\ b \in Nat /\ b + 1 - a \in Nat
      /\ \A i \in 1..(b + 1 - a) : i + a - 1 \in 1..Len(text)
  BY <1>0
<1>3. SubSeq(text, a, b) = [i \in 1..(b + 1 - a) |-> text[i + a - 1]]
  BY <1>0, <1>2
<1>4. SubSeq(text, a, b) \in Seq(STRING) /\ Len(SubSeq(text, a, b)) = b + 1 - a
  <2>1. \A i \in 1..(b + 1 - a) : text[i + a - 1] \in STRING
    BY <1>0, <1>2, ElementOfSeq
  <2>2. PICK part : part = SubSeq(text, a, b)
    OBVIOUS
  <2>3. part \in [1..(b + 1 - a) -> STRING]
    BY <1>3, <2>1, <2>2
  <2>4. part \in Seq(STRING)
    BY <1>2, <2>3, SeqDef
  <2> QED BY <1>2, <2>2, <2>3, <2>4, LenProperties
<1>5. SubSeq(Pieces(text), a, b) = [i \in 1..(b + 1 - a) |-> Pieces(text)[i + a - 1]]
  BY <1>1, <1>2
<1>6. \A i \in 1..(b + 1 - a) : Pieces(text)[i + a - 1] = Token(text[i + a - 1])
  BY <1>0, <1>2 DEF Pieces
<1>7. Pieces(SubSeq(text, a, b)) = [i \in 1..(b + 1 - a) |-> Token(text[i + a - 1])]
  BY <1>3 DEF Pieces
<1>8. Pieces(SubSeq(text, a, b)) = SubSeq(Pieces(text), a, b)
  BY <1>5, <1>6, <1>7
<1> QED BY <1>4, <1>8 DEF Text

LEMMA SamePieces ==
  ASSUME NEW x \in Text, NEW y \in Text, Pieces(x) = Pieces(y)
  PROVE  x = y
<1>0. /\ Len(x) \in Nat /\ DOMAIN x = 1..Len(x) /\ x = [i \in 1..Len(x) |-> x[i]]
      /\ Len(y) \in Nat /\ DOMAIN y = 1..Len(y) /\ y = [i \in 1..Len(y) |-> y[i]]
  BY LenProperties, SeqDef DEF Text
<1>1. DOMAIN Pieces(x) = DOMAIN x /\ DOMAIN Pieces(y) = DOMAIN y
  BY DEF Pieces
<1>2. 1..Len(x) = 1..Len(y)
  BY <1>0, <1>1
<1>3. ASSUME NEW i \in 1..Len(x)  PROVE x[i] = y[i]
  <2>1. Token(x[i]) = Token(y[i])
    BY <1>0, <1>2 DEF Pieces
  <2>2. Token(x[i]).text = x[i] /\ Token(y[i]).text = y[i]
    BY DEF Token
  <2> QED BY <2>1, <2>2
<1> QED BY <1>0, <1>2, <1>3

\* What is searched for is found in the same place.
LEMMA PlacesOfPieces ==
  ASSUME NEW text \in Text, NEW find \in Text
  PROVE  IndexOf(Pieces(text), Pieces(find)) = IndexOf(text, find)
<1>0. /\ Len(text) \in Nat /\ Len(find) \in Nat
      /\ Len(Pieces(text)) = Len(text) /\ Len(Pieces(find)) = Len(find)
  <2>1. AreBlanks({}) /\ AreTexts([x \in {} |-> <<>>])
    BY FS_EmptySet DEF AreBlanks, AreTexts
  <2> QED BY <2>1, PiecesOfText, LenProperties DEF Text
<1>1. ASSUME NEW i \in 1..(Len(text) + 1 - Len(find))
      PROVE  SubSeq(Pieces(text), i, i + Len(find) - 1) = Pieces(find)
               <=> SubSeq(text, i, i + Len(find) - 1) = find
  <2>1. i \in 1..(Len(text) + 1) /\ i + Len(find) - 1 \in (i - 1)..Len(text)
    BY <1>0
  <2>2. /\ SubSeq(text, i, i + Len(find) - 1) \in Text
        /\ Pieces(SubSeq(text, i, i + Len(find) - 1)) = SubSeq(Pieces(text), i, i + Len(find) - 1)
    BY <2>1, PartsOfPieces
  <2> QED BY <2>2, SamePieces
<1>2. {i \in 1..(Len(Pieces(text)) + 1 - Len(Pieces(find))) :
          SubSeq(Pieces(text), i, i + Len(Pieces(find)) - 1) = Pieces(find)}
        = {i \in 1..(Len(text) + 1 - Len(find)) : SubSeq(text, i, i + Len(find) - 1) = find}
  BY <1>0, <1>1
<1>3. PICK at : at = {i \in 1..(Len(text) + 1 - Len(find)) : SubSeq(text, i, i + Len(find) - 1) = find}
  OBVIOUS
<1>4. IndexOf(text, find) = IF at = {} THEN 0 ELSE CHOOSE i \in at : \A j \in at : i <= j
  BY <1>3 DEF IndexOf
<1>5. IndexOf(Pieces(text), Pieces(find))
        = IF at = {} THEN 0 ELSE CHOOSE i \in at : \A j \in at : i <= j
  <2>1. at = {i \in 1..(Len(Pieces(text)) + 1 - Len(Pieces(find))) :
                SubSeq(Pieces(text), i, i + Len(Pieces(find)) - 1) = Pieces(find)}
    BY <1>2, <1>3
  <2> QED BY <2>1 DEF IndexOf
<1> QED BY <1>4, <1>5

LEMMA FewEdits ==
  ASSUME NEW text, NEW edits, Len(edits) \in Nat, DOMAIN edits = 1..Len(edits)
  PROVE  /\ Len(edits) = 0 => AfterEdits(text, edits) = Found(text)
         /\ Len(edits) = 1 => AfterEdits(text, edits) = AfterEdit(Found(text), edits[1])
<1> DEFINE Iter(it) == [s \in SUBSET (DOMAIN edits) |->
                          IF s = {} THEN Found(text) ELSE AfterEdit(it[s \ {Max(s)}], edits[Max(s)])]
           iter == CHOOSE it : it = Iter(it)
           g == [s \in SUBSET (DOMAIN edits) |->
                   IF s = {} THEN Found(text) ELSE AfterEdit(Found(text), edits[1])]
<1>1. AfterEdits(text, edits) = iter[DOMAIN edits]
  BY DEF AfterEdits, FoldLeft, MapThenFoldSet
<1>2. ASSUME Len(edits) <= 1  PROVE g = Iter(g)
  <2>1. ASSUME NEW s \in SUBSET (DOMAIN edits), s # {}
        PROVE  Max(s) = 1 /\ s \ {Max(s)} = {}
    <3>1. s = {1}
      BY <1>2, <2>1
    <3> QED BY <3>1 DEF Max
  <2> QED BY <2>1
<1>3. ASSUME Len(edits) <= 1
      PROVE  \A s \in SUBSET (DOMAIN edits) :
               iter[s] = IF s = {} THEN Found(text)
                         ELSE AfterEdit(iter[s \ {Max(s)}], edits[Max(s)])
  <2>1. iter = Iter(iter)
    BY <1>2, <1>3
  <2> HIDE DEF iter
  <2> QED BY <2>1
<1> HIDE DEF iter, g
<1>4. CASE Len(edits) = 0
  <2>1. DOMAIN edits = {} /\ {} \in SUBSET (DOMAIN edits)
    BY <1>4
  <2>2. iter[{}] = Found(text)
    BY <1>3, <1>4, <2>1
  <2> QED BY <1>1, <1>4, <2>1, <2>2
<1>5. CASE Len(edits) = 1
  <2>1. DOMAIN edits = {1} /\ {} \in SUBSET (DOMAIN edits) /\ {1} \in SUBSET (DOMAIN edits)
    BY <1>5
  <2>2. iter[{}] = Found(text)
    BY <1>3, <1>5, <2>1
  <2>3. iter[{1}] = AfterEdit(iter[{1} \ {Max({1})}], edits[Max({1})])
    BY <1>3, <1>5, <2>1
  <2>4. Max({1}) = 1 /\ {1} \ {1} = {}
    BY DEF Max
  <2> QED BY <1>1, <1>5, <2>1, <2>2, <2>3, <2>4
<1> QED BY <1>4, <1>5

\* A step of one edit, with its blanks and with their values.
LEMMA MarkedIsApplied ==
  ASSUME NEW text \in Text, NEW s, IsStepOfLesson(s), Len(s.edits) <= 1,
         NEW entered, AreTexts(entered)
  PROVE  /\ Marked(text, s).missing = ApplyStepEdits(text, s, entered).missing
         /\ ~Marked(text, s).missing =>
              /\ Marked(text, s).text \in Seq(Piece)
              /\ FillTemplate(Marked(text, s).text, s.blanks, entered)
                   = ApplyStepEdits(text, s, entered).text
<1> DEFINE marking == [i \in DOMAIN s.edits |->
                         [find |-> Pieces(s.edits[i].find), put |-> s.edits[i].replace]]
           filling == FilledEdits(s, entered)
           F(t) == FillTemplate(t, s.blanks, entered)
<1>0. /\ Len(s.edits) \in Nat /\ DOMAIN s.edits = 1..Len(s.edits)
      /\ \A i \in 1..Len(s.edits) : IsEdit(s.edits[i])
      /\ AreBlanks(s.blanks)
  BY LenProperties, ElementOfSeq DEF IsStepOfLesson
<1>1. /\ Len(marking) = Len(s.edits) /\ DOMAIN marking = 1..Len(s.edits)
      /\ Len(filling) = Len(s.edits) /\ DOMAIN filling = 1..Len(s.edits)
  BY <1>0 DEF FilledEdits
<1>2. /\ Marked(text, s) = AfterEdits(Pieces(text), marking)
      /\ ApplyStepEdits(text, s, entered) = AfterEdits(text, filling)
  BY FilledEditsAreTexts DEF Marked
<1>3. Pieces(text) \in Seq(Piece) /\ Len(Pieces(text)) = Len(text) /\ F(Pieces(text)) = text
  BY <1>0, PiecesOfText
<1>4. CASE Len(s.edits) = 0
  <2>1. Marked(text, s) = Found(Pieces(text)) /\ ApplyStepEdits(text, s, entered) = Found(text)
    <3> HIDE DEF marking, filling
    <3> QED BY <1>1, <1>2, <1>4, FewEdits
  <2> QED BY <1>3, <2>1 DEF Found
<1>5. CASE Len(s.edits) = 1
  <2> DEFINE e == s.edits[1]
             i == IndexOf(text, e.find)
  <2>1. IsEdit(e) /\ e.find \in Text /\ e.replace \in Seq(Piece)
    BY <1>0, <1>5 DEF IsEdit
  <2>2. marking[1] = [find |-> Pieces(e.find), put |-> e.replace]
        /\ filling[1] = [find |-> e.find, put |-> F(e.replace)]
    BY <1>0, <1>5 DEF FilledEdits
  <2>3. /\ Marked(text, s) = AfterEdit(Found(Pieces(text)), marking[1])
        /\ ApplyStepEdits(text, s, entered) = AfterEdit(Found(text), filling[1])
    <3> HIDE DEF marking, filling
    <3> QED BY <1>1, <1>2, <1>5, FewEdits
  <2>4. /\ IndexOf(Pieces(text), Pieces(e.find)) = i /\ Len(Pieces(e.find)) = Len(e.find)
        /\ i \in Nat /\ Len(e.find) \in Nat /\ Len(text) \in Nat
        /\ i # 0 => i + Len(e.find) <= Len(text) + 1
    <3> HIDE DEF e
    <3> QED BY <1>0, <2>1, PlacesOfPieces, PiecesOfText, PlaceOf, LenProperties DEF Text
  <2> HIDE DEF i, marking, filling
  <2>5. CASE i = 0
    BY <2>2, <2>3, <2>4, <2>5 DEF AfterEdit, Missing, Found, i
  <2>6. CASE i # 0
    <3> DEFINE before == SubSeq(text, 1, i - 1)
               rest == SubSeq(text, i + Len(e.find), Len(text))
    <3>a. \A a \in 1..(Len(text) + 1), b \in 0..Len(text) : a <= b + 1 =>
            SubSeq(text, a, b) \in Text /\ Pieces(SubSeq(text, a, b)) = SubSeq(Pieces(text), a, b)
      <4> SUFFICES ASSUME NEW a \in 1..(Len(text) + 1), NEW b \in 0..Len(text), a <= b + 1
                   PROVE  /\ SubSeq(text, a, b) \in Text
                          /\ Pieces(SubSeq(text, a, b)) = SubSeq(Pieces(text), a, b)
        OBVIOUS
      <4>1. b \in (a - 1)..Len(text)
        BY <2>4
      <4> QED BY <4>1, PartsOfPieces
    <3>1. /\ before \in Text /\ rest \in Text
          /\ Pieces(before) = SubSeq(Pieces(text), 1, i - 1)
          /\ Pieces(rest) = SubSeq(Pieces(text), i + Len(e.find), Len(text))
      <4>1. /\ 1 \in 1..(Len(text) + 1) /\ i - 1 \in 0..Len(text) /\ 1 <= (i - 1) + 1
            /\ i + Len(e.find) \in 1..(Len(text) + 1) /\ Len(text) \in 0..Len(text)
            /\ i + Len(e.find) <= Len(text) + 1
        BY <2>4, <2>6
      <4> HIDE DEF e
      <4> QED BY <3>a, <4>1
    <3>2. Marked(text, s) = Found(Pieces(before) \o e.replace \o Pieces(rest))
      <4>1. Marked(text, s)
              = Found(SubSeq(Pieces(text), 1, i - 1) \o e.replace
                      \o SubSeq(Pieces(text), i + Len(e.find), Len(text)))
        <5> HIDE DEF e
        <5>1. PICK m : m = marking[1]
          OBVIOUS
        <5>2. m.find = Pieces(e.find) /\ m.put = e.replace
          BY <2>2, <5>1
        <5>3. PICK sofar : sofar = Found(Pieces(text))
          OBVIOUS
        <5>4. sofar.missing = FALSE /\ sofar.text = Pieces(text)
          BY <5>3 DEF Found
        <5>5. AfterEdit(sofar, m)
                = Found(SubSeq(Pieces(text), 1, i - 1) \o e.replace
                        \o SubSeq(Pieces(text), i + Len(e.find), Len(text)))
          BY <1>3, <2>4, <2>6, <5>2, <5>4 DEF AfterEdit
        <5> QED BY <2>3, <5>1, <5>3, <5>5
      <4> QED BY <3>1, <4>1
    <3>3. ApplyStepEdits(text, s, entered) = Found(before \o F(e.replace) \o rest)
      BY <2>2, <2>3, <2>4, <2>6 DEF AfterEdit, Found, i
    <3> HIDE DEF before, rest, e
    <3>4. Pieces(before) \in Seq(Piece) /\ Pieces(rest) \in Seq(Piece)
          /\ F(Pieces(before)) = before /\ F(Pieces(rest)) = rest
      BY <1>0, <3>1, PiecesOfText
    <3>5. Pieces(before) \o e.replace \in Seq(Piece)
          /\ Pieces(before) \o e.replace \o Pieces(rest) \in Seq(Piece)
      BY <2>1, <3>4, ConcatProperties
    <3>6. F(Pieces(before) \o e.replace) = before \o F(e.replace)
      <4>1. PICK a \in Seq(Piece), b \in Seq(Piece) : a = Pieces(before) /\ b = e.replace
        BY <2>1, <3>4
      <4>2. F(a \o b) = F(a) \o F(b)
        BY <1>0, TemplatesInSequence
      <4> HIDE DEF F
      <4> QED BY <3>4, <4>1, <4>2
    <3>7. F(Pieces(before) \o e.replace \o Pieces(rest)) = F(Pieces(before) \o e.replace) \o rest
      <4>1. PICK a \in Seq(Piece), b \in Seq(Piece) :
              a = Pieces(before) \o e.replace /\ b = Pieces(rest)
        BY <3>4, <3>5
      <4>2. F(a \o b) = F(a) \o F(b)
        BY <1>0, TemplatesInSequence
      <4> HIDE DEF F
      <4> QED BY <3>4, <4>1, <4>2
    <3> QED BY <3>2, <3>3, <3>5, <3>6, <3>7 DEF Found
  <2> QED BY <2>5, <2>6
<1> HIDE DEF F, marking, filling
<1>6. Len(s.edits) = 0 \/ Len(s.edits) = 1
  <2>1. PICK n \in Nat : n = Len(s.edits)
    BY <1>0
  <2>2. n <= 1
    BY <2>1
  <2>3. n = 0 \/ n = 1
    BY <2>2
  <2> QED BY <2>1, <2>3
<1> QED BY <1>4, <1>5, <1>6 DEF F

LEMMA LinesOfView ==
  ASSUME NEW lines, NEW line \in View(lines, [n \in DOMAIN lines |-> n])
  PROVE  line.number \in DOMAIN lines /\ line.segments = lines[line.number]
<1>1. PICK n \in DOMAIN lines :
        line = [number |-> [k \in DOMAIN lines |-> k][n], segments |-> lines[n]]
  BY DEF View
<1> QED BY <1>1

\* labState.ts: the inputs of a step have one line each; whatever is entered there,
\* every line on show of a step of one edit is, with the values in its blanks, the
\* line of that number of the code that is built, and the step has a place in the
\* code on show just when it has one in the code that is built.
THEOREM ViewShowsOneEdit ==
  ASSUME LessonEnters(Text, Everywhere(OneLine))
  PROVE  StudentSpec => [](Len(step.edits) <= 1 => ViewShowsWhatIsApplied)
<1>0. EntersOnly(Text, Everywhere(OneLine))
  BY OneLineIsText DEF EntersOnly, Everywhere
<1>1. StudentInit => EntryInv(Text, Everywhere(OneLine))
  BY <1>0, EntriesStart
<1>2. StepsInv /\ EntryInv(Text, Everywhere(OneLine)) /\ [StudentNext]_studentVars
        => EntryInv(Text, Everywhere(OneLine))'
  BY <1>0, EntriesGoOn
<1>3. StepsInv /\ EntryInv(Text, Everywhere(OneLine)) => (Len(step.edits) <= 1 => ViewShowsWhatIsApplied)
  <2> SUFFICES ASSUME StepsInv, EntryInv(Text, Everywhere(OneLine)), Len(step.edits) <= 1, step.file # NoFile
               PROVE  LET view == CodeView
                          applied == ApplyStepEdits(BaseSource, step, values)
                          appliedLines == Lines(applied.text, NewLine)
                      IN /\ view.missing = applied.missing
                         /\ \A line \in view.lines :
                              FillTemplate(line.segments, step.blanks, values)
                                = appliedLines[line.number]
    BY DEF ViewShowsWhatIsApplied
  <2>1. step \in Steps /\ step.id \in StepIds
    BY StepIsOfLesson DEF EntryInv, Enters
  <2>2. IsStepOfLesson(step) /\ step.file \in File /\ AreBlanks(step.blanks)
    BY <2>1, LessonHasSteps DEF IsStepOfLesson
  <2>3. AllOf(Text, Everywhere(OneLine), step.id, values)
    BY <2>1 DEF EntryInv, DraftsIn, AnswersIn, values
  <2>4. AreTexts(values)
    BY <1>0, <2>3, KindsOfTexts DEF EntersOnly, LessonEnters, AllOf, AreTexts
  <2>5. UnescapedAreOneLine(step.blanks, values)
    <3> SUFFICES ASSUME NEW b \in step.blanks, b.escape = "none"
                 PROVE  ValueOf(b, values) \in OneLine
      BY DEF UnescapedAreOneLine
    <3>1. Kind(Text, Everywhere(OneLine), step.id, b.id) = OneLine
      BY <2>1 DEF Kind, Unescaped, Everywhere
    <3>2. DefaultBlankValue(b) \in OneLine
      BY <1>0, <2>1, <3>1 DEF EntersOnly, LessonEnters
    <3> QED BY <2>3, <3>1, <3>2 DEF ValueOf, AllOf
  <2>6. BaseSource \in Text
    <3>1. AnswersAreTexts(progress.answers) /\ DraftsAreTexts
      BY <1>0, AnswersInAreTexts DEF EntryInv, Enters, DraftsIn, DraftsAreTexts
    <3>2. StepSources(progress, StepIndex(progress), NoStep) \in TextsOfFiles
      BY <3>1, BuiltAreTexts
    <3> QED BY <2>2, <3>2 DEF BaseSource, TextsOfFiles
  <2> DEFINE marked == Marked(BaseSource, step)
             applied == ApplyStepEdits(BaseSource, step, values)
             lines == Lines(marked.text, Token(NewLine))
  <2>7. /\ marked.missing = applied.missing
        /\ ~marked.missing =>
             /\ marked.text \in Seq(Piece)
             /\ FillTemplate(marked.text, step.blanks, values) = applied.text
    BY <2>2, <2>4, <2>6, MarkedIsApplied
  <2>8. /\ CodeView.missing = marked.missing
        /\ CodeView.lines = IF marked.missing THEN {} ELSE View(lines, [n \in DOMAIN lines |-> n])
    BY DEF CodeView, BuildStepCodeView
  <2> HIDE DEF marked, applied
  <2>9. ASSUME NEW line \in CodeView.lines
        PROVE  FillTemplate(line.segments, step.blanks, values) = Lines(applied.text, NewLine)[line.number]
    <3>1. ~marked.missing /\ line \in View(lines, [n \in DOMAIN lines |-> n])
      BY <2>8
    <3>2. line.number \in DOMAIN lines /\ line.segments = lines[line.number]
      BY <3>1, LinesOfView
    <3>3. Lines(applied.text, NewLine) = FilledLines(step.blanks, values, lines)
      <4>1. Lines(FillTemplate(marked.text, step.blanks, values), NewLine)
              = FilledLines(step.blanks, values, lines)
        BY <2>2, <2>4, <2>5, <2>7, <3>1, LinesOfTemplate
      <4> QED BY <2>7, <3>1, <4>1
    <3> HIDE DEF lines
    <3> QED BY <3>2, <3>3 DEF FilledLines
  <2> QED BY <2>7, <2>8, <2>9 DEF applied
<1> QED BY <1>1, <1>2, <1>3, StepsInvIsInvariant, PTL DEF StudentSpec

-----------------------------------------------------------------------------
(* What a filled template does to the code around it. *)

Scans ==
  /\ \A mode \in ScanMode : ScanFrom(mode, <<>>) = mode
  /\ \A mode \in ScanMode, text \in Seq(STRING) : ScanFrom(mode, text) \in ScanMode
  /\ \A mode \in ScanMode, text \in Seq(STRING), c \in STRING :
       ScanFrom(mode, Append(text, c)) = Scan(ScanFrom(mode, text), c)

LEMMA ScanGrows == Scans
<1>1. ScanStep \in [ScanMode \X STRING -> ScanMode]
  BY DEF ScanStep, ScanMode, Scan
<1>2. \A m \in ScanMode, t \in STRING : ScanStep[<<m, t>>] = Scan(m, t)
  BY DEF ScanStep
<1>3. \A mode \in ScanMode, text \in Seq(STRING) :
        ScanFrom(mode, text) = Fold(ScanMode, STRING, ScanStep, mode, text)
  BY ScanIsFolded DEF ScanFrom
<1>4. ASSUME NEW mode \in ScanMode  PROVE ScanFrom(mode, <<>>) = mode
  <2>1. Fold(ScanMode, STRING, ScanStep, mode, <<>>) = mode
    BY <1>1, FoldEmpty, ZenonT(60)
  <2>2. <<>> \in Seq(STRING)
    BY EmptySeq
  <2> QED BY <1>3, <2>1, <2>2
<1>5. ASSUME NEW mode \in ScanMode, NEW text \in Seq(STRING)  PROVE ScanFrom(mode, text) \in ScanMode
  <2>1. Fold(ScanMode, STRING, ScanStep, mode, text) \in ScanMode
    BY <1>1, FoldType, ZenonT(60)
  <2> QED BY <1>3, <2>1
<1>6. ASSUME NEW mode \in ScanMode, NEW text \in Seq(STRING), NEW c \in STRING
      PROVE  ScanFrom(mode, Append(text, c)) = Scan(ScanFrom(mode, text), c)
  <2>1. FoldGrows(ScanMode, STRING, ScanStep, mode)
    BY <1>1, FoldAppend, ZenonT(60)
  <2>a. Appends(STRING)
    BY AppendedTo
  <2>2. Append(text, c) \in Seq(STRING)
    BY <2>a DEF Appends
  <2>3. ScanFrom(mode, Append(text, c)) = ScanStep[<<ScanFrom(mode, text), c>>]
    BY <1>3, <2>1, <2>2 DEF FoldGrows
  <2> QED BY <1>2, <1>5, <2>3
<1> QED BY <1>4, <1>5, <1>6 DEF Scans

\* Texts one after the other.
LEMMA ScanInSequence ==
  ASSUME NEW mode \in ScanMode, NEW a \in Seq(STRING)
  PROVE  \A b \in Seq(STRING) : ScanFrom(mode, a \o b) = ScanFrom(ScanFrom(mode, a), b)
<1> DEFINE P == {b \in Seq(STRING) : ScanFrom(mode, a \o b) = ScanFrom(ScanFrom(mode, a), b)}
<1>0. ScanFrom(mode, a) \in ScanMode
  BY ScanGrows DEF Scans
<1>1. <<>> \in P
  <2>1. a \o <<>> = a /\ <<>> \in Seq(STRING)
    BY EmptySeq
  <2> QED BY <1>0, <2>1, ScanGrows DEF Scans
<1>2. ASSUME NEW b \in Seq(STRING), NEW c \in STRING, b \in P  PROVE Append(b, c) \in P
  <2>1. a \o Append(b, c) = Append(a \o b, c) /\ a \o b \in Seq(STRING)
    BY AppendedLater DEF AppendsLater
  <2>a. Appends(STRING)
    BY AppendedTo
  <2>2. Append(b, c) \in Seq(STRING)
    BY <2>a DEF Appends
  <2>3. ScanFrom(mode, Append(a \o b, c)) = Scan(ScanFrom(mode, a \o b), c)
    BY <2>1, ScanGrows DEF Scans
  <2>4. ScanFrom(ScanFrom(mode, a), Append(b, c)) = Scan(ScanFrom(ScanFrom(mode, a), b), c)
    BY <1>0, ScanGrows DEF Scans
  <2> QED BY <1>2, <2>1, <2>2, <2>3, <2>4
<1> HIDE DEF P
<1>3. \A b \in Seq(STRING) : b \in P
  BY <1>1, <1>2, InductionOnSequences
<1> QED BY <1>3 DEF P

\* Texts after which Sucrase is in the mode it was in before.
Keep(mode) == {text \in Seq(STRING) : ScanFrom(mode, text) = mode}

LEMMA KeptOneAfterTheOther ==
  ASSUME NEW mode \in ScanMode
  PROVE  \A texts \in Seq(Keep(mode)) : FlattenSeq(texts) \in Keep(mode)
<1> DEFINE P == {texts \in Seq(Keep(mode)) : FlattenSeq(texts) \in Keep(mode)}
<1>0. Flattens(STRING) /\ \A t : t \in Keep(mode) <=> t \in Seq(STRING) /\ ScanFrom(mode, t) = mode
  BY FlattenGrows DEF Keep
<1>1. <<>> \in P
  BY <1>0, EmptySeq, ScanGrows DEF Flattens, Scans
<1>2. ASSUME NEW texts \in Seq(Keep(mode)), NEW t \in Keep(mode), texts \in P
      PROVE  Append(texts, t) \in P
  <2>a. Appends(Keep(mode))
    BY AppendedTo
  <2>1. Append(texts, t) \in Seq(Keep(mode))
    BY <2>a DEF Appends
  <2>2. texts \in Seq(Seq(STRING)) /\ t \in Seq(STRING)
    <3>1. Keep(mode) \subseteq Seq(STRING)
      BY DEF Keep
    <3> QED BY <3>1
  <2>3. FlattenSeq(Append(texts, t)) = FlattenSeq(texts) \o t /\ FlattenSeq(texts) \in Seq(STRING)
    BY <1>0, <2>2 DEF Flattens
  <2>4. ScanFrom(mode, FlattenSeq(texts) \o t) = ScanFrom(ScanFrom(mode, FlattenSeq(texts)), t)
    BY <2>2, <2>3, ScanInSequence
  <2>5. FlattenSeq(texts) \o t \in Seq(STRING)
    BY <2>2, <2>3, ConcatProperties
  <2> QED BY <1>0, <1>2, <2>1, <2>3, <2>4, <2>5
<1> HIDE DEF P
<1>3. \A texts \in Seq(Keep(mode)) : texts \in P
  BY <1>1, <1>2, InductionOnSequences
<1> QED BY <1>3 DEF P

\* labState.ts, escapeBlankValue: whatever is entered, a string goes on as a string.
LEMMA StringGoesOn ==
  ASSUME NEW value \in Text
  PROVE  StringText(value) \in Keep("string")
<1> DEFINE part(i) == IF value[i] \in {Backslash, Quote} THEN <<Backslash, value[i]>>
                      ELSE IF value[i] = NewLine THEN <<Space>> ELSE <<value[i]>>
           parts == [i \in DOMAIN value |-> part(i)]
<1>0. /\ Len(value) \in Nat /\ DOMAIN value = 1..Len(value)
      /\ \A i \in 1..Len(value) : value[i] \in STRING
  BY LenProperties, ElementOfSeq DEF Text
<1>1. Backslash \in STRING /\ Quote \in STRING /\ Space \in STRING /\ "string" \in ScanMode
  BY LiteralsAreStrings DEF ScanMode
<1>a. \A t, u \in STRING : /\ <<t, u>> \in Seq(STRING) /\ <<t>> \in Seq(STRING)
                           /\ Append(<<>>, t) = <<t>> /\ Append(<<t>>, u) = <<t, u>>
  BY ShortSequences
<1>2. \A c \in STRING : <<c>> \in Seq(STRING) /\ ScanFrom("string", <<c>>) = Scan("string", c)
  <2> TAKE c \in STRING
  <2>1. <<>> \in Seq(STRING) /\ Append(<<>>, c) = <<c>> /\ <<c>> \in Seq(STRING)
    BY EmptySeq, <1>a
  <2>2. ScanFrom("string", Append(<<>>, c)) = Scan(ScanFrom("string", <<>>), c)
    BY <1>1, <2>1, ScanGrows DEF Scans
  <2> QED BY <1>1, <2>1, <2>2, ScanGrows DEF Scans
<1>3. \A c \in STRING : <<Backslash, c>> \in Keep("string")
  <2> TAKE c \in STRING
  <2>1. /\ <<Backslash>> \in Seq(STRING) /\ <<Backslash, c>> \in Seq(STRING)
        /\ Append(<<Backslash>>, c) = <<Backslash, c>>
    BY <1>1, <1>a
  <2>2. ScanFrom("string", Append(<<Backslash>>, c)) = Scan(ScanFrom("string", <<Backslash>>), c)
    BY <1>1, <2>1, ScanGrows DEF Scans
  <2>3. Scan("string", Backslash) = "escaped" /\ Scan("escaped", c) = "string"
    BY DEF Scan, Backslash
  <2> QED BY <1>1, <1>2, <2>1, <2>2, <2>3 DEF Keep
<1>4. ASSUME NEW c \in STRING, c \notin {Backslash, Quote, NewLine}  PROVE <<c>> \in Keep("string")
  <2>1. Scan("string", c) = "string"
    BY <1>4 DEF Scan, Backslash, Quote, NewLine
  <2> QED BY <1>2, <2>1 DEF Keep
<1>5. <<Space>> \in Keep("string")
  BY <1>1, <1>4 DEF Space, Backslash, Quote, NewLine
<1>6. \A i \in 1..Len(value) : part(i) \in Keep("string")
  BY <1>0, <1>3, <1>4, <1>5
<1>7. parts \in [1..Len(value) -> Keep("string")]
  <2> HIDE DEF part
  <2> QED BY <1>0, <1>6
<1>8. parts \in Seq(Keep("string"))
  BY <1>0, <1>7, SeqDef
<1>9. StringText(value) = FlattenSeq(parts)
  BY DEF StringText
<1> HIDE DEF parts
<1> QED BY <1>1, <1>8, <1>9, KeptOneAfterTheOther

\* escapeBlankValue: whatever is entered, a text of the page goes on as one.
LEMMA JsxTextGoesOn ==
  ASSUME NEW value \in Text
  PROVE  JsxText(value) \in Keep("jsx")
<1> DEFINE wide(c) == IF c \in DOMAIN Wide THEN Wide[c] ELSE IF c = NewLine THEN Space ELSE c
           P == {v \in Text : JsxText(v) \in Keep("jsx")}
<1>0. "jsx" \in ScanMode /\ \A c \in STRING : wide(c) \in STRING /\ Scan("jsx", wide(c)) = "jsx"
  BY LiteralsAreStrings DEF ScanMode, Scan, Wide, Space, NewLine
<1>1. <<>> \in P
  <2>1. JsxText(<<>>) = <<>> /\ <<>> \in Seq(STRING)
    BY EmptySeq DEF JsxText
  <2> QED BY <1>0, <2>1, ScanGrows DEF Keep, Scans, Text
<1>2. ASSUME NEW v \in Seq(STRING), NEW c \in STRING, v \in P  PROVE Append(v, c) \in P
  <2>1. JsxText(v) \in Seq(STRING) /\ ScanFrom("jsx", JsxText(v)) = "jsx"
    BY <1>2 DEF Keep
  <2>2. JsxText(Append(v, c)) = Append(JsxText(v), wide(c))
    <3> DEFINE all == Append(v, c)
               mine == JsxText(v)
               right == Append(mine, wide(c))
    <3>a. Appends(STRING)
      BY AppendedTo
    <3>1. /\ Len(v) \in Nat /\ DOMAIN v = 1..Len(v)
          /\ DOMAIN all = 1..(Len(v) + 1) /\ all[Len(v) + 1] = c
          /\ \A i \in 1..Len(v) : all[i] = v[i]
      BY <3>a DEF Appends
    <3>2. DOMAIN mine = 1..Len(v) /\ \A i \in 1..Len(v) : mine[i] = wide(v[i])
      BY <3>1 DEF JsxText
    <3>3. Len(mine) = Len(v)
      BY <2>1, <3>1, <3>2, LenProperties
    <3>4. JsxText(all) = [i \in 1..(Len(v) + 1) |-> wide(all[i])]
      BY <3>1 DEF JsxText
    <3> HIDE DEF all, mine, wide
    <3>5. /\ DOMAIN right = 1..(Len(v) + 1) /\ right[Len(v) + 1] = wide(c)
          /\ \A i \in 1..Len(v) : right[i] = mine[i]
          /\ right = [i \in DOMAIN right |-> right[i]]
      <4>1. PICK m \in Seq(STRING), w \in STRING : m = mine /\ w = wide(c)
        BY <1>0, <2>1 DEF mine
      <4> HIDE DEF right
      <4>2. right = Append(m, w)
        BY <4>1 DEF right
      <4> QED BY <3>3, <3>a, <4>1, <4>2 DEF Appends
    <3> HIDE DEF right
    <3>6. \A i \in 1..(Len(v) + 1) : wide(all[i]) = right[i]
      <4> TAKE i \in 1..(Len(v) + 1)
      <4>1. CASE i = Len(v) + 1
        BY <3>1, <3>5, <4>1
      <4>2. CASE i # Len(v) + 1
        <5>1. i \in 1..Len(v)
          BY <3>1, <4>2
        <5> QED BY <3>1, <3>2, <3>5, <5>1
      <4> QED BY <4>1, <4>2
    <3>7. JsxText(all) = right
      BY <3>4, <3>5, <3>6
    <3> QED BY <3>7 DEF all, right, mine
  <2>3. PICK w \in STRING : w = wide(c) /\ Scan("jsx", w) = "jsx"
    BY <1>0
  <2> HIDE DEF wide
  <2>4. ScanFrom("jsx", Append(JsxText(v), w)) = Scan(ScanFrom("jsx", JsxText(v)), w)
    BY <1>0, <2>1, ScanGrows DEF Scans
  <2>5. Append(JsxText(v), w) \in Seq(STRING) /\ Append(v, c) \in Text
    BY <2>1, AppendProperties DEF Text
  <2> QED BY <2>1, <2>2, <2>3, <2>4, <2>5 DEF Keep
<1> HIDE DEF P
<1>3. \A v \in Seq(STRING) : v \in P
  BY <1>1, <1>2, InductionOnSequences
<1> QED BY <1>3 DEF P, Text

\* Whatever is broken stays so.
LEMMA BrokenStays == \A text \in Seq(STRING) : ScanFrom("broken", text) = "broken"
<1> DEFINE P == {text \in Seq(STRING) : ScanFrom("broken", text) = "broken"}
<1>0. "broken" \in ScanMode /\ \A c : Scan("broken", c) = "broken"
  BY DEF ScanMode, Scan
<1>1. <<>> \in P
  BY <1>0, EmptySeq, ScanGrows DEF Scans
<1>2. ASSUME NEW text \in Seq(STRING), NEW c \in STRING, text \in P  PROVE Append(text, c) \in P
  <2>a. Appends(STRING)
    BY AppendedTo
  <2>1. Append(text, c) \in Seq(STRING)
    BY <2>a DEF Appends
  <2> QED BY <1>0, <1>2, <2>1, ScanGrows DEF Scans
<1> HIDE DEF P
<1>3. \A text \in Seq(STRING) : text \in P
  BY <1>1, <1>2, InductionOnSequences
<1> QED BY <1>3 DEF P

ReadStep(s) == [p \in ScanMode \X Piece |-> ReadPiece(s, p[1], p[2])]

LEMMA ReadStepIsTyped ==
  ASSUME NEW s
  PROVE  /\ ReadStep(s) \in [ScanMode \X Piece -> ScanMode]
         /\ \A m \in ScanMode, p \in Piece : ReadStep(s)[<<m, p>>] = ReadPiece(s, m, p)
<1>1. ASSUME NEW m \in ScanMode, NEW p \in Piece  PROVE ReadPiece(s, m, p) \in ScanMode
  <2>1. \A c : Scan(m, c) \in ScanMode
    BY DEF Scan, ScanMode
  <2> QED BY <2>1 DEF ReadPiece, ScanMode
<1>2. ASSUME NEW q \in ScanMode \X Piece  PROVE ReadPiece(s, q[1], q[2]) \in ScanMode
  BY <1>1
<1> QED BY <1>2 DEF ReadStep

LEMMA ReadIsFolded ==
  ASSUME NEW s, NEW mode \in ScanMode, NEW template \in Seq(Piece)
  PROVE  ReadFrom(s, mode, template) = Fold(ScanMode, Piece, ReadStep(s), mode, template)
<1> DEFINE f == ReadStep(s)
           Iter(it) == [x \in SUBSET (DOMAIN template) |->
                          IF x = {} THEN mode
                          ELSE ReadPiece(s, it[x \ {Max(x)}], template[Max(x)])]
           iter == CHOOSE it : it = Iter(it)
<1>0. DOMAIN template = 1..Len(template) /\ Len(template) \in Nat
  BY LenProperties
<1>1. f \in [ScanMode \X Piece -> ScanMode]
  BY ReadStepIsTyped
<1>2. \A m \in ScanMode, p \in Piece : f[<<m, p>>] = ReadPiece(s, m, p)
  BY ReadStepIsTyped
<1>6. ReadFrom(s, mode, template) = iter[DOMAIN template]
  BY DEF ReadFrom, FoldLeft, MapThenFoldSet
<1> HIDE DEF f
<1>3. \A x \in SUBSET (1..Len(template)) : x # {} => Max(x) \in x /\ template[Max(x)] \in Piece
  BY <1>0, GreatestOf, ElementOfSeq
<1>4. \E it : it = Iter(it)
  <2>1. PICK g : IsIter(ScanMode, Piece, f, mode, template, Len(template), g)
    BY <1>1, IterExists
  <2>2. ASSUME NEW x \in SUBSET (1..Len(template))
        PROVE  g[x] = IF x = {} THEN mode ELSE ReadPiece(s, g[x \ {Max(x)}], template[Max(x)])
    BY <1>2, <1>3, <2>1, <2>2 DEF IsIter
  <2>3. DOMAIN g = SUBSET (1..Len(template)) /\ g = [x \in DOMAIN g |-> g[x]]
    BY <2>1 DEF IsIter
  <2>4. g = Iter(g)
    BY <1>0, <2>2, <2>3
  <2> QED BY <2>4
<1>5. iter = Iter(iter)
  BY <1>4
<1> HIDE DEF iter
<1>7. Iterates(ScanMode, f, mode, template, iter)
  BY <1>0, <1>2, <1>3, <1>5 DEF Iterates
<1>8. iter[1..Len(template)] = Fold(ScanMode, Piece, f, mode, template)
  BY <1>1, <1>7, IteratedIsFold, ZenonT(60)
<1> QED BY <1>0, <1>6, <1>8 DEF f

\* What ReadFrom is, from the first piece of a template to its last.
Reads(s, mode) ==
  /\ ReadFrom(s, mode, <<>>) = mode
  /\ \A template \in Seq(Piece) : ReadFrom(s, mode, template) \in ScanMode
  /\ \A template \in Seq(Piece), piece \in Piece :
       ReadFrom(s, mode, Append(template, piece)) = ReadPiece(s, ReadFrom(s, mode, template), piece)

LEMMA ReadGrows ==
  ASSUME NEW s, NEW mode \in ScanMode
  PROVE  Reads(s, mode)
<1>1. ReadStep(s) \in [ScanMode \X Piece -> ScanMode]
  BY ReadStepIsTyped
<1>2. \A m \in ScanMode, p \in Piece : ReadStep(s)[<<m, p>>] = ReadPiece(s, m, p)
  BY ReadStepIsTyped
<1>3. \A template \in Seq(Piece) :
        ReadFrom(s, mode, template) = Fold(ScanMode, Piece, ReadStep(s), mode, template)
  BY ReadIsFolded
<1>4. ReadFrom(s, mode, <<>>) = mode
  <2>1. Fold(ScanMode, Piece, ReadStep(s), mode, <<>>) = mode
    BY <1>1, FoldEmpty, ZenonT(60)
  <2>2. <<>> \in Seq(Piece)
    BY EmptySeq
  <2> QED BY <1>3, <2>1, <2>2
<1>5. ASSUME NEW template \in Seq(Piece)  PROVE ReadFrom(s, mode, template) \in ScanMode
  <2>1. Fold(ScanMode, Piece, ReadStep(s), mode, template) \in ScanMode
    BY <1>1, FoldType, ZenonT(60)
  <2> QED BY <1>3, <2>1
<1>6. ASSUME NEW template \in Seq(Piece), NEW piece \in Piece
      PROVE  ReadFrom(s, mode, Append(template, piece)) = ReadPiece(s, ReadFrom(s, mode, template), piece)
  <2>1. FoldGrows(ScanMode, Piece, ReadStep(s), mode)
    BY <1>1, FoldAppend, ZenonT(60)
  <2>a. Appends(Piece)
    BY AppendedTo
  <2>2. Append(template, piece) \in Seq(Piece)
    BY <2>a DEF Appends
  <2>3. ReadFrom(s, mode, Append(template, piece)) = ReadStep(s)[<<ReadFrom(s, mode, template), piece>>]
    BY <1>3, <2>1, <2>2 DEF FoldGrows
  <2> QED BY <1>2, <1>5, <2>3
<1> QED BY <1>4, <1>5, <1>6 DEF Reads

LEMMA ValuesOfStep ==
  ASSUME NEW E, EntersOnly(E, Offers), NEW s \in Steps, NEW entered, AllOf(E, Offers, s.id, entered)
  PROVE  /\ AreTexts(entered)
         /\ \A b \in s.blanks :
              /\ ValueOf(b, entered) \in E /\ ValueOf(b, entered) \in Text
              /\ b.escape = "none" => ValueOf(b, entered) \in Offers[<<s.id, b.id>>]
<1>0. E \subseteq Text /\ \A id, x : Kind(E, Offers, id, x) \subseteq E
  BY KindsOfTexts DEF EntersOnly, LessonEnters
<1>1. AreTexts(entered)
  BY <1>0 DEF AllOf, AreTexts
<1>2. ASSUME NEW b \in s.blanks
      PROVE  /\ ValueOf(b, entered) \in Kind(E, Offers, s.id, b.id)
             /\ b.escape = "none" => Kind(E, Offers, s.id, b.id) = Offers[<<s.id, b.id>>]
  <2>1. DefaultBlankValue(b) \in Kind(E, Offers, s.id, b.id)
    BY DEF EntersOnly, LessonEnters
  <2>2. ValueOf(b, entered) \in Kind(E, Offers, s.id, b.id)
    BY <2>1 DEF ValueOf, AllOf
  <2>3. b.escape = "none" => <<s.id, b.id>> \in Unescaped
    BY DEF Unescaped
  <2> QED BY <2>2, <2>3 DEF Kind
<1> QED BY <1>0, <1>1, <1>2

\* Where a piece of a template is in its place, what is filled in reads as it does.
LEMMA PieceReads ==
  ASSUME NEW E, EntersOnly(E, Offers), NEW s \in Steps, NEW entered, AllOf(E, Offers, s.id, entered),
         NEW mode \in ScanMode, NEW piece \in Piece, ReadPiece(s, mode, piece) # "broken"
  PROVE  ScanFrom(mode, Fill(piece, s.blanks, entered)) = ReadPiece(s, mode, piece)
<1>1. CASE ~IsBlank(piece)
  <2>1. piece.text \in STRING
    BY <1>1 DEF IsBlank, Piece
  <2>2. PICK c \in STRING : c = piece.text
    BY <2>1
  <2>3. Fill(piece, s.blanks, entered) = <<c>> /\ ReadPiece(s, mode, piece) = Scan(mode, c)
    BY <1>1, <2>2 DEF Fill, ReadPiece
  <2>4. /\ Append(<<>>, c) = <<c>> /\ <<>> \in Seq(STRING)
        /\ ScanFrom(mode, Append(<<>>, c)) = Scan(ScanFrom(mode, <<>>), c)
        /\ ScanFrom(mode, <<>>) = mode
    BY ShortSequences, ScanGrows DEF Scans
  <2> QED BY <2>3, <2>4
<1>2. CASE IsBlank(piece)
  <2>1. /\ \A b \in s.blanks : b.id = piece.id => Stands(s, b, mode)
        /\ ReadPiece(s, mode, piece) = mode
    BY <1>2 DEF ReadPiece
  <2>2. ASSUME NEW b \in s.blanks, b.id = piece.id
        PROVE  EscapeBlankValue(b, ValueOf(b, entered)) \in Keep(mode)
    <3>1. Stands(s, b, mode) /\ ValueOf(b, entered) \in Text
          /\ (b.escape = "none" => ValueOf(b, entered) \in Offers[<<s.id, b.id>>])
      BY <2>1, <2>2, ValuesOfStep
    <3>2. PICK value \in Text : value = ValueOf(b, entered)
      BY <3>1
    <3>3. CASE b.escape = "jsx-text" /\ mode = "jsx"
      BY <3>2, <3>3, JsxTextGoesOn DEF EscapeBlankValue
    <3>4. CASE b.escape = "string" /\ mode = "string"
      BY <3>2, <3>4, StringGoesOn DEF EscapeBlankValue
    <3>5. CASE b.escape = "none" /\ \A v \in Offers[<<s.id, b.id>>] : ScanFrom(mode, v) = mode
      BY <3>1, <3>2, <3>5 DEF EscapeBlankValue, Keep, Text
    <3> QED BY <3>1, <3>3, <3>4, <3>5 DEF Stands
  <2>3. IsFiniteSet(s.blanks)
    BY LessonHasSteps DEF IsStepOfLesson, AreBlanks
  <2>4. PICK texts \in Seq(Keep(mode)) : Fill(piece, s.blanks, entered) = FlattenSeq(texts)
    BY <1>2, <2>2, <2>3, FilledOf
  <2>5. FlattenSeq(texts) \in Keep(mode)
    BY KeptOneAfterTheOther
  <2> QED BY <2>1, <2>4, <2>5 DEF Keep
<1> QED BY <1>1, <1>2

\* So does a template, however it is filled.
LEMMA TemplateReads ==
  ASSUME NEW E, EntersOnly(E, Offers), NEW s \in Steps, NEW entered, AllOf(E, Offers, s.id, entered),
         NEW mode \in ScanMode
  PROVE  \A template \in Seq(Piece) :
           ReadFrom(s, mode, template) # "broken" =>
             ScanFrom(mode, FillTemplate(template, s.blanks, entered)) = ReadFrom(s, mode, template)
<1> DEFINE F(t) == FillTemplate(t, s.blanks, entered)
           P == {t \in Seq(Piece) : ReadFrom(s, mode, t) # "broken" =>
                                      ScanFrom(mode, F(t)) = ReadFrom(s, mode, t)}
<1>a. AreBlanks(s.blanks) /\ AreTexts(entered)
  BY LessonHasSteps, ValuesOfStep DEF IsStepOfLesson
<1>0. /\ F(<<>>) = <<>>
      /\ \A t \in Seq(Piece) : F(t) \in Seq(STRING)
      /\ \A t \in Seq(Piece), p \in Piece : F(Append(t, p)) = F(t) \o Fill(p, s.blanks, entered)
  BY <1>a, TemplateGrows DEF Fills
<1>1. \A p \in Piece : Fill(p, s.blanks, entered) \in Seq(STRING)
  BY <1>a, FillIsText DEF Text
<1>2. Reads(s, mode)
  BY ReadGrows
<1> HIDE DEF F
<1>3. <<>> \in P
  <2>1. ScanFrom(mode, <<>>) = mode /\ <<>> \in Seq(Piece)
    BY EmptySeq, ScanGrows DEF Scans
  <2> QED BY <1>0, <1>2, <2>1 DEF Reads
<1>4. ASSUME NEW t \in Seq(Piece), NEW p \in Piece, t \in P  PROVE Append(t, p) \in P
  <2>a. Appends(Piece)
    BY AppendedTo
  <2>1. Append(t, p) \in Seq(Piece)
    BY <2>a DEF Appends
  <2>2. PICK m \in ScanMode : m = ReadFrom(s, mode, t)
    BY <1>2 DEF Reads
  <2>3. ReadFrom(s, mode, Append(t, p)) = ReadPiece(s, m, p)
    BY <1>2, <2>2 DEF Reads
  <2>4. ASSUME ReadPiece(s, m, p) # "broken"  PROVE ScanFrom(mode, F(Append(t, p))) = ReadPiece(s, m, p)
    <3>1. m # "broken"
      <4>1. \A c : Scan("broken", c) = "broken"
        BY DEF Scan
      <4> QED BY <2>4, <4>1 DEF ReadPiece
    <3>2. ScanFrom(mode, F(t)) = m
      BY <1>4, <2>2, <3>1
    <3>3. PICK a \in Seq(STRING), b \in Seq(STRING) : a = F(t) /\ b = Fill(p, s.blanks, entered)
      BY <1>0, <1>1
    <3>4. ScanFrom(mode, a \o b) = ScanFrom(ScanFrom(mode, a), b)
      BY ScanInSequence
    <3>5. ScanFrom(m, b) = ReadPiece(s, m, p)
      BY <2>4, <3>3, PieceReads
    <3> QED BY <1>0, <3>2, <3>3, <3>4, <3>5
  <2> QED BY <2>1, <2>3, <2>4
<1> HIDE DEF P
<1>5. \A t \in Seq(Piece) : t \in P
  BY <1>3, <1>4, InductionOnSequences
<1> QED BY <1>5 DEF P, F

-----------------------------------------------------------------------------
(* Edits in a lesson that is sound. *)

LEMMA CalmIsText == \A text \in Calm : text \in Text
BY DEF Calm, Harmless, Text

LEMMA CalmDoesNotThrow ==
  ASSUME NEW text \in Calm
  PROVE  ~Throws(text)
<1>1. \A i \in DOMAIN text : text[i] \in Harmless
  BY ElementOfSeq, LenProperties DEF Calm
<1>2. DOMAIN text = 1..Len(text)
  BY LenProperties DEF Calm
<1> QED BY <1>1, <1>2 DEF Throws, Refused, Contains, Harmless

LEMMA ContainsInSequence ==
  ASSUME NEW S, NEW a \in Seq(S), NEW b \in Seq(S), NEW x
  PROVE  Contains(a \o b, x) <=> Contains(a, x) \/ Contains(b, x)
<1>1. /\ Len(a) \in Nat /\ Len(b) \in Nat /\ Len(a \o b) = Len(a) + Len(b)
      /\ \A i \in 1..Len(a) : (a \o b)[i] = a[i]
      /\ \A i \in 1..Len(b) : (a \o b)[Len(a) + i] = b[i]
  BY LenProperties, ConcatProperties
<1> DEFINE c == a \o b
<1> HIDE DEF c
<1>2. ASSUME NEW i \in 1..Len(c), c[i] = x  PROVE Contains(a, x) \/ Contains(b, x)
  <2>1. CASE i <= Len(a)
    BY <1>1, <1>2, <2>1 DEF Contains, c
  <2>2. CASE ~(i <= Len(a))
    <3>1. i - Len(a) \in 1..Len(b) /\ Len(a) + (i - Len(a)) = i
      BY <1>1, <2>2 DEF c
    <3> QED BY <1>1, <1>2, <3>1 DEF Contains, c
  <2> QED BY <2>1, <2>2
<1>3. ASSUME NEW i \in 1..Len(a), a[i] = x  PROVE Contains(c, x)
  BY <1>1, <1>3 DEF Contains, c
<1>4. ASSUME NEW i \in 1..Len(b), b[i] = x  PROVE Contains(c, x)
  BY <1>1, <1>4 DEF Contains, c
<1> QED BY <1>2, <1>3, <1>4 DEF Contains, c

\* A text around a place that holds find.
LEMMA PartsOfText ==
  ASSUME NEW S, NEW text \in Seq(S), S \subseteq STRING, NEW find \in Text, IndexOf(text, find) # 0
  PROVE  LET i == IndexOf(text, find)
             left == SubSeq(text, 1, i - 1)
             right == SubSeq(text, i + Len(find), Len(text))
         IN left \in Seq(S) /\ right \in Seq(S) /\ text = (left \o find) \o right
<1>a. text \in Seq(STRING)
  BY SeqMonotonic
<1>0. text \in Text /\ Len(text) \in Nat /\ Len(find) \in Nat
  BY <1>a, LenProperties DEF Text
<1>1. PICK i \in Nat : i = IndexOf(text, find)
  BY <1>0, PlaceOf
<1>2. i # 0 /\ i + Len(find) <= Len(text) + 1 /\ SubSeq(text, i, i + Len(find) - 1) = find
  BY <1>0, <1>1, PlaceOf
<1>b. i # 0 /\ i + Len(find) <= Len(text) + 1
  BY <1>2
<1> DEFINE left == SubSeq(text, 1, i - 1)
           right == SubSeq(text, i + Len(find), Len(text))
<1>3. left \in Seq(S) /\ right \in Seq(S)
  BY <1>0, <1>1, <1>2, SubSeqProperties
<1>4. left \o find = SubSeq(text, 1, i + Len(find) - 1)
  <2>1. PICK n \in Int : n = i + Len(find) - 1
    BY <1>0, <1>1
  <2>2. /\ 1 \in 1..(Len(text) + 1) /\ i - 1 \in (1 - 1)..Len(text) /\ n \in (i - 1)..Len(text)
        /\ (i - 1) + 1 = i
    BY <1>0, <1>1, <1>b, <2>1
  <2>3. SubSeq(text, 1, i - 1) \o SubSeq(text, (i - 1) + 1, n) = SubSeq(text, 1, n)
    BY <2>2, ConcatAdjacentSubSeq
  <2> QED BY <1>2, <2>1, <2>2, <2>3
<1>5. SubSeq(text, 1, i + Len(find) - 1) \o right = text
  <2>1. PICK n \in Int : n = i + Len(find) - 1
    BY <1>0, <1>1
  <2>2. /\ 1 \in 1..(Len(text) + 1) /\ n \in (1 - 1)..Len(text) /\ Len(text) \in n..Len(text)
        /\ n + 1 = i + Len(find)
    BY <1>0, <1>1, <1>b, <2>1
  <2>3. SubSeq(text, 1, n) \o SubSeq(text, n + 1, Len(text)) = SubSeq(text, 1, Len(text))
    BY <2>2, ConcatAdjacentSubSeq
  <2>4. SubSeq(text, 1, Len(text)) = text
    BY SubSeqFull
  <2> QED BY <2>1, <2>2, <2>3, <2>4
<1> QED BY <1>1, <1>3, <1>4, <1>5

LEMMA SoundEnters == LessonIsSound => EntersOnly(Calm, Offers)
BY CalmIsText DEF LessonIsSound, EntersOnly

LEMMA TemplateIsCalm ==
  ASSUME LessonIsSound, NEW s \in StepsOfCode, NEW e \in ToSet(s.edits),
         NEW entered, AllOf(Calm, Offers, s.id, entered)
  PROVE  FillTemplate(e.replace, s.blanks, entered) \in Calm
<1> DEFINE template == e.replace
           filled == [i \in DOMAIN template |-> Fill(template[i], s.blanks, entered)]
<1>0. s \in Steps /\ template \in Seq(Piece) /\ AreBlanks(s.blanks)
  BY LessonHasSteps DEF StepsOfCode, IsStepOfLesson, IsEdit
<1>1. /\ Len(template) \in Nat /\ DOMAIN template = 1..Len(template)
      /\ \A i \in 1..Len(template) : template[i] \in Piece
  BY <1>0, LenProperties, ElementOfSeq
<1>2. ASSUME NEW i \in 1..Len(template)  PROVE Fill(template[i], s.blanks, entered) \in Seq(Harmless)
  <2>1. CASE ~IsBlank(template[i])
    <3>1. template[i].text \in Harmless
      BY <1>1, <2>1 DEF LessonIsSound
    <3>2. <<template[i].text>> \in Seq(Harmless)
      BY <3>1, ShortSequences
    <3> QED BY <2>1, <3>2 DEF Fill
  <2>2. CASE IsBlank(template[i])
    <3>1. ASSUME NEW b \in s.blanks
          PROVE  EscapeBlankValue(b, ValueOf(b, entered)) \in Seq(Harmless)
      <4>1. ValueOf(b, entered) \in Calm
        BY <1>0, ValuesOfStep, SoundEnters
      <4>2. PICK value \in Seq(Harmless) : value = ValueOf(b, entered)
        BY <4>1 DEF Calm
      <4>3. value \in Seq(Harmless \cup {NewLine})
        OBVIOUS
      <4>4. JsxText(value) \in Seq(Harmless) /\ StringText(value) \in Seq(Harmless)
        BY <4>3, EscapedIsOf DEF LessonIsSound
      <4>5. b.escape \in {"jsx-text", "string", "none"}
        BY <1>0 DEF AreBlanks, IsBlankOfStep
      <4> QED BY <4>2, <4>4, <4>5 DEF EscapeBlankValue
    <3> QED BY <1>0, <2>2, <3>1, FilledBlank DEF AreBlanks
  <2> QED BY <2>1, <2>2
<1>3. filled \in [1..Len(template) -> Seq(Harmless)]
  BY <1>1, <1>2
<1>4. FillTemplate(template, s.blanks, entered) = FlattenSeq(filled)
  BY DEF FillTemplate
<1> HIDE DEF filled
<1>5. filled \in Seq(Seq(Harmless))
  BY <1>1, <1>3, SeqDef
<1> QED BY <1>4, <1>5, FlattenGrows DEF Flattens, Calm

\* An edit finds its place where its template, blanks and all, leaves Sucrase as
\* what was there does.
InPlace(s, e, text) ==
  LET i == IndexOf(text, e.find)
      mode == ScanFrom("code", SubSeq(text, 1, i - 1))
  IN i # 0 => ReadFrom(s, mode, e.replace) = ScanFrom(mode, e.find)

\* A text with put in the place of find.
Spliced(text, find, put) ==
  LET i == IndexOf(text, find)
  IN SubSeq(text, 1, i - 1) \o put \o SubSeq(text, i + Len(find), Len(text))

LEMMA EditRuns ==
  ASSUME LessonIsSound, NEW s \in StepsOfCode, NEW e \in ToSet(s.edits),
         NEW entered, AllOf(Calm, Offers, s.id, entered),
         NEW text \in Runs, InPlace(s, e, text), IndexOf(text, e.find) # 0
  PROVE  Spliced(text, e.find, FillTemplate(e.replace, s.blanks, entered)) \in Runs
<1> DEFINE i == IndexOf(text, e.find)
           left == SubSeq(text, 1, i - 1)
           right == SubSeq(text, i + Len(e.find), Len(text))
           put == FillTemplate(e.replace, s.blanks, entered)
           mode == ScanFrom("code", left)
           after == ScanFrom(mode, e.find)
<1>0. /\ text \in Calm /\ ScanFrom("code", text) = "code" /\ Contains(text, "export default")
      /\ e.find \in Text /\ e.replace \in Seq(Piece) /\ EntersOnly(Calm, Offers) /\ s \in Steps
  BY LessonHasSteps, SoundEnters DEF StepsOfCode, Runs, Parses, ScanFrom, HasDefault, IsStepOfLesson, IsEdit, LessonIsSound
<1>1. left \in Calm /\ right \in Calm /\ text = (left \o e.find) \o right
  <2>1. text \in Seq(Harmless) /\ Harmless \subseteq STRING
    BY <1>0 DEF Calm, Harmless
  <2>2. /\ left \in Seq(Harmless) /\ right \in Seq(Harmless)
        /\ text = (left \o e.find) \o right
    BY <1>0, <2>1, PartsOfText
  <2> QED BY <2>2 DEF Calm
<1>2. put \in Calm
  BY TemplateIsCalm
<1>3. ReadFrom(s, mode, e.replace) = after
  BY DEF InPlace
<1> HIDE DEF left, right, put, i
<1>4. left \in Seq(STRING) /\ right \in Seq(STRING) /\ put \in Seq(STRING) /\ e.find \in Seq(STRING)
  BY <1>0, <1>1, <1>2, CalmIsText DEF Text
<1>5. "code" \in ScanMode /\ mode \in ScanMode /\ after \in ScanMode
  BY <1>4, ScanGrows DEF Scans, ScanMode
<1>6. ScanFrom(after, right) = "code"
  <2>1. left \o e.find \in Seq(STRING)
    BY <1>4, ConcatProperties
  <2>2. ScanFrom("code", (left \o e.find) \o right) = ScanFrom(ScanFrom("code", left \o e.find), right)
    BY <1>4, <1>5, <2>1, ScanInSequence
  <2>3. ScanFrom("code", left \o e.find) = after
    BY <1>4, <1>5, ScanInSequence
  <2> QED BY <1>0, <1>1, <2>2, <2>3
<1>7. after # "broken"
  BY <1>4, <1>6, BrokenStays
<1> HIDE DEF mode, after
<1>8. ScanFrom(mode, put) = after
  <2>1. PICK m \in ScanMode : m = mode
    BY <1>5
  <2>2. ReadFrom(s, m, e.replace) # "broken"
    BY <1>3, <1>7, <2>1
  <2>3. ScanFrom(m, put) = ReadFrom(s, m, e.replace)
    BY <1>0, <2>2, TemplateReads DEF put
  <2> QED BY <1>3, <2>1, <2>3
<1>9. left \o put \in Seq(STRING) /\ left \o put \in Calm /\ (left \o put) \o right \in Calm
  BY <1>1, <1>2, <1>4, ConcatProperties DEF Calm
<1>10. ScanFrom("code", (left \o put) \o right) = "code"
  <2>1. ScanFrom("code", (left \o put) \o right) = ScanFrom(ScanFrom("code", left \o put), right)
    BY <1>4, <1>5, <1>9, ScanInSequence
  <2>2. ScanFrom("code", left \o put) = ScanFrom(mode, put)
    BY <1>4, <1>5, ScanInSequence DEF mode
  <2> QED BY <1>6, <1>8, <2>1, <2>2
<1>11. Contains((left \o put) \o right, "export default")
  <2>0. \A a, b \in Seq(STRING) : \A x : Contains(a \o b, x) <=> Contains(a, x) \/ Contains(b, x)
    BY ContainsInSequence
  <2>1. ~Contains(e.find, "export default")
    BY DEF LessonIsSound, HasDefault
  <2>2. left \o e.find \in Seq(STRING)
    BY <1>4, ConcatProperties
  <2>3. Contains(left \o e.find, "export default") \/ Contains(right, "export default")
    BY <1>0, <1>1, <1>4, <2>2, <2>0
  <2>4. Contains(left \o e.find, "export default") => Contains(left, "export default")
    BY <1>4, <2>1, <2>0
  <2>5. Contains(left, "export default") => Contains(left \o put, "export default")
    BY <1>4, <2>0
  <2> QED BY <1>4, <1>9, <2>3, <2>4, <2>5, <2>0
<1> QED BY <1>9, <1>10, <1>11
  DEF Spliced, Runs, Parses, ScanFrom, HasDefault, left, right, put, i

\* Each edit of a step finds its place in what the edits before it have made.
AllInPlace(s, entered, text) ==
  \A j \in DOMAIN s.edits :
    LET sofar == AfterEdits(text, SubSeq(FilledEdits(s, entered), 1, j - 1))
    IN sofar.missing \/ InPlace(s, s.edits[j], sofar.text)

LEMMA EditsInTurn ==
  ASSUME NEW text \in Text, NEW edits \in Seq(Edits)
  PROVE  /\ AfterEdits(text, SubSeq(edits, 1, 0)) = Found(text)
         /\ \A n \in Nat : n < Len(edits) =>
              AfterEdits(text, SubSeq(edits, 1, n + 1))
                = AfterEdit(AfterEdits(text, SubSeq(edits, 1, n)), edits[n + 1])
         /\ \A n \in Nat : n <= Len(edits) => AfterEdits(text, SubSeq(edits, 1, n)) \in Sofar
         /\ AfterEdits(text, SubSeq(edits, 1, Len(edits))) = AfterEdits(text, edits)
<1>0. /\ EditStep \in [Sofar \X Edits -> Sofar] /\ Found(text) \in Sofar
      /\ \A sofar \in Sofar, e \in Edits : EditStep[<<sofar, e>>] = AfterEdit(sofar, e)
  BY EditStepIsTyped DEF Found, Sofar
<1>1. \A es \in Seq(Edits) : AfterEdits(text, es) = Fold(Sofar, Edits, EditStep, Found(text), es)
  BY EditsAreFolded
<1>2. Len(edits) \in Nat /\ SubSeq(edits, 1, Len(edits)) = edits
      /\ \A i \in 1..Len(edits) : edits[i] \in Edits
  BY LenProperties, ElementOfSeq, SubSeqFull
<1>3. AfterEdits(text, SubSeq(edits, 1, 0)) = Found(text)
  <2>1. SubSeq(edits, 1, 0) = <<>> /\ <<>> \in Seq(Edits)
    BY SubSeqEmpty, EmptySeq
  <2>2. Fold(Sofar, Edits, EditStep, Found(text), <<>>) = Found(text)
    BY <1>0, FoldEmpty, ZenonT(60)
  <2> QED BY <1>1, <2>1, <2>2
<1>4. ASSUME NEW n \in Nat, n <= Len(edits)  PROVE SubSeq(edits, 1, n) \in Seq(Edits)
  <2>1. \A i \in 1..n : edits[i] \in Edits
    BY <1>2, <1>4
  <2> QED BY <2>1, SubSeqProperties
<1>5. ASSUME NEW n \in Nat, n <= Len(edits)  PROVE AfterEdits(text, SubSeq(edits, 1, n)) \in Sofar
  <2>1. PICK es \in Seq(Edits) : es = SubSeq(edits, 1, n)
    BY <1>4, <1>5
  <2>2. Fold(Sofar, Edits, EditStep, Found(text), es) \in Sofar
    BY <1>0, FoldType, ZenonT(60)
  <2> QED BY <1>1, <2>1, <2>2
<1>6. ASSUME NEW n \in Nat, n < Len(edits)
      PROVE  AfterEdits(text, SubSeq(edits, 1, n + 1))
               = AfterEdit(AfterEdits(text, SubSeq(edits, 1, n)), edits[n + 1])
  <2>0. n <= Len(edits) /\ n + 1 <= Len(edits) /\ n + 1 \in Nat /\ n + 1 \in 1..Len(edits)
    BY <1>2, <1>6
  <2>1. PICK es \in Seq(Edits), e \in Edits : es = SubSeq(edits, 1, n) /\ e = edits[n + 1]
    BY <1>2, <1>4, <2>0
  <2>2. SubSeq(edits, 1, n + 1) = Append(es, e)
    <3>1. SubSeq(edits, 1, n + 1) = SubSeq(edits, 1, n) \o <<edits[n + 1]>>
      BY <1>2, <2>0
    <3>2. Appends(Edits)
      BY AppendedTo
    <3> QED BY <2>1, <3>1, <3>2 DEF Appends
  <2>3. FoldGrows(Sofar, Edits, EditStep, Found(text))
    BY <1>0, FoldAppend, ZenonT(60)
  <2>4. Append(es, e) \in Seq(Edits) /\ AfterEdits(text, es) \in Sofar
    BY <1>4, <1>5, <2>0, <2>1, <2>2
  <2>5. AfterEdits(text, Append(es, e)) = EditStep[<<AfterEdits(text, es), e>>]
    BY <1>1, <2>3, <2>4 DEF FoldGrows
  <2> QED BY <1>0, <2>1, <2>2, <2>4, <2>5
<1> QED BY <1>2, <1>3, <1>5, <1>6

\* A set of texts that no edit of a step leaves, once its place is found.
StaysIn(R, s, e, entered, text) ==
  IndexOf(text, e.find) # 0 =>
    Spliced(text, e.find, FillTemplate(e.replace, s.blanks, entered)) \in R

LEMMA EditsKeep ==
  ASSUME NEW R, R \subseteq Text, NEW s \in Steps, NEW entered, AreTexts(entered), NEW text \in R,
         \A j \in DOMAIN s.edits :
           LET sofar == AfterEdits(text, SubSeq(FilledEdits(s, entered), 1, j - 1))
           IN ~sofar.missing /\ sofar.text \in R => StaysIn(R, s, s.edits[j], entered, sofar.text)
  PROVE  /\ \A n \in Nat : n <= Len(s.edits) =>
              LET sofar == AfterEdits(text, SubSeq(FilledEdits(s, entered), 1, n))
              IN sofar.missing \/ sofar.text \in R
         /\ LET applied == ApplyStepEdits(text, s, entered)
            IN applied.missing \/ applied.text \in R
<1> DEFINE edits == FilledEdits(s, entered)
           after(n) == AfterEdits(text, SubSeq(edits, 1, n))
           P == {n \in Nat : n <= Len(edits) => after(n).missing \/ after(n).text \in R}
<1>0. IsStepOfLesson(s) /\ text \in Text
  BY LessonHasSteps
<1>1. edits \in Seq(Edits) /\ ApplyStepEdits(text, s, entered) = AfterEdits(text, edits)
  BY <1>0, FilledEditsAreTexts
<1>2. /\ Len(s.edits) \in Nat /\ DOMAIN s.edits = 1..Len(s.edits) /\ Len(edits) = Len(s.edits)
      /\ \A i \in 1..Len(s.edits) :
           /\ edits[i].find = s.edits[i].find
           /\ edits[i].put = FillTemplate(s.edits[i].replace, s.blanks, entered)
  <2>1. Len(s.edits) \in Nat /\ DOMAIN s.edits = 1..Len(s.edits)
    BY <1>0, LenProperties DEF IsStepOfLesson
  <2>2. DOMAIN edits = 1..Len(s.edits) /\ Len(edits) = Len(s.edits)
    BY <2>1 DEF FilledEdits
  <2> QED BY <2>1, <2>2 DEF FilledEdits
<1> HIDE DEF edits
<1>3. /\ after(0) = Found(text)
      /\ \A n \in Nat : n < Len(edits) => after(n + 1) = AfterEdit(after(n), edits[n + 1])
      /\ after(Len(edits)) = AfterEdits(text, edits)
  BY <1>0, <1>1, EditsInTurn
<1>4. \A j \in 1..Len(s.edits) : ~after(j - 1).missing /\ after(j - 1).text \in R =>
                                  StaysIn(R, s, s.edits[j], entered, after(j - 1).text)
  BY <1>2 DEF edits
<1> HIDE DEF after
<1>5. 0 \in P
  BY <1>3 DEF Found
<1>6. ASSUME NEW n \in Nat, n \in P  PROVE n + 1 \in P
  <2> SUFFICES ASSUME n + 1 <= Len(edits)  PROVE after(n + 1).missing \/ after(n + 1).text \in R
    OBVIOUS
  <2>1. n < Len(edits) /\ n <= Len(edits) /\ n + 1 \in 1..Len(s.edits) /\ (n + 1) - 1 = n
    BY <1>2
  <2>2. after(n + 1) = AfterEdit(after(n), edits[n + 1])
    BY <1>3, <2>1
  <2>3. PICK e : e = s.edits[n + 1]
    OBVIOUS
  <2>4. edits[n + 1].find = e.find /\ edits[n + 1].put = FillTemplate(e.replace, s.blanks, entered)
    BY <1>2, <2>1, <2>3
  <2> DEFINE i == IndexOf(after(n).text, e.find)
  <2>5. CASE after(n).missing \/ i = 0
    BY <2>2, <2>4, <2>5 DEF AfterEdit, Missing
  <2>6. CASE ~after(n).missing /\ i # 0
    <3> DEFINE made == Spliced(after(n).text, e.find, FillTemplate(e.replace, s.blanks, entered))
    <3>1. made \in R
      <4>1. StaysIn(R, s, e, entered, after(n).text)
        BY <1>4, <1>6, <2>1, <2>3, <2>6
      <4> QED BY <2>6, <4>1 DEF StaysIn
    <3>2. PICK sofar, new : sofar = after(n) /\ new = edits[n + 1]
      OBVIOUS
    <3>3. /\ sofar.text = after(n).text /\ new.find = e.find
          /\ new.put = FillTemplate(e.replace, s.blanks, entered)
          /\ ~(sofar.missing \/ IndexOf(sofar.text, e.find) = 0)
      BY <2>4, <2>6, <3>2
    <3>4. AfterEdit(sofar, new) = Found(made)
      BY <3>3 DEF AfterEdit, Spliced
    <3> HIDE DEF made
    <3>5. after(n + 1) = Found(made)
      BY <2>2, <3>2, <3>4
    <3>6. Found(made).text = made
      BY DEF Found
    <3>7. after(n + 1).text = made
      BY <3>5, <3>6
    <3> QED BY <3>1, <3>7
  <2> QED BY <2>5, <2>6
<1> HIDE DEF P
<1>7. \A n \in Nat : n \in P
  BY <1>5, <1>6, Induction
<1>8. \A n \in Nat : n <= Len(s.edits) => after(n).missing \/ after(n).text \in R
  BY <1>2, <1>7 DEF P
<1>9. ApplyStepEdits(text, s, entered) = after(Len(edits)) /\ Len(edits) \in Nat
      /\ Len(edits) <= Len(s.edits)
  BY <1>1, <1>2, <1>3
<1> QED BY <1>8, <1>9 DEF after, edits

LEMMA AppliedRuns ==
  ASSUME LessonIsSound, NEW s \in StepsOfCode, NEW entered, AllOf(Calm, Offers, s.id, entered),
         NEW text \in Runs, AllInPlace(s, entered, text)
  PROVE  LET applied == ApplyStepEdits(text, s, entered)
         IN applied.missing \/ applied.text \in Runs
<1>0. s \in Steps /\ AreTexts(entered) /\ Runs \subseteq Text
  BY ValuesOfStep, SoundEnters, CalmIsText DEF LessonIsSound, Runs, StepsOfCode
<1>1. ASSUME NEW j \in DOMAIN s.edits, NEW t \in Runs, InPlace(s, s.edits[j], t)
      PROVE  StaysIn(Runs, s, s.edits[j], entered, t)
  <2>1. s.edits[j] \in ToSet(s.edits)
    BY DEF ToSet
  <2> QED BY <1>1, <2>1, EditRuns DEF StaysIn
<1>2. \A j \in DOMAIN s.edits :
        LET sofar == AfterEdits(text, SubSeq(FilledEdits(s, entered), 1, j - 1))
        IN ~sofar.missing /\ sofar.text \in Runs => StaysIn(Runs, s, s.edits[j], entered, sofar.text)
  BY <1>1 DEF AllInPlace
<1> QED BY <1>0, <1>2, EditsKeep

\* The code in which a step is done is that of the steps before it.
LEMMA StepsInTurn ==
  ASSUME NEW p, AnswersAreTexts(p.answers), DraftsAreTexts, NEW draft
  PROVE  /\ StepSources(p, 1, draft) = SourceOf
         /\ \A k \in DOMAIN Lesson :
              StepSources(p, k + 1, draft)
                = AfterStep(p, NoStep, draft, StepSources(p, k, draft), k)
<1> DEFINE N == Len(Lesson)
           Upto(m) == [k \in 1..m |-> k]
           f(b) == SourcesStep(p, b, draft)
           H == [b \in 1..(N + 1) |-> [m \in 0..N |-> Fold(TextsOfFiles, Places, f(b), SourceOf, Upto(m))]]
<1>0. N \in Nat /\ DOMAIN Lesson = 1..N /\ Places = 1..N /\ NoStep = N + 1
  BY LessonHasSteps DEF Places, NoStep
<1>a. SourceOf \in TextsOfFiles
  BY SourcesAreTexts DEF TextsOfFiles, File
<1>b. \A b : /\ f(b) \in [TextsOfFiles \X Places -> TextsOfFiles]
             /\ \A src \in TextsOfFiles, k \in Places : f(b)[<<src, k>>] = AfterStep(p, b, draft, src, k)
  BY SourcesStepIsTyped
<1>c. \A m \in 0..N : Upto(m) \in Seq(Places)
  BY <1>0, SeqDef
<1> HIDE DEF f
<1>1. ASSUME NEW b \in 1..(N + 1), NEW m \in 0..N  PROVE H[b][m] \in TextsOfFiles
  <2>1. PICK seq \in Seq(Places) : seq = Upto(m)
    BY <1>c
  <2>2. Fold(TextsOfFiles, Places, f(b), SourceOf, seq) \in TextsOfFiles
    BY <1>a, <1>b, FoldType, ZenonT(60)
  <2> QED BY <2>1, <2>2
<1>2. ASSUME NEW b \in 1..(N + 1)  PROVE H[b][0] = SourceOf
  <2>1. Upto(0) = <<>>
    OBVIOUS
  <2>2. Fold(TextsOfFiles, Places, f(b), SourceOf, <<>>) = SourceOf
    BY <1>a, <1>b, FoldEmpty, ZenonT(60)
  <2>3. 0 \in 0..N
    BY <1>0
  <2> QED BY <2>1, <2>2, <2>3
<1>3. ASSUME NEW b \in 1..(N + 1), NEW m \in 0..N, m < N
      PROVE  H[b][m + 1] = AfterStep(p, b, draft, H[b][m], m + 1)
  <2>0. m + 1 \in 0..N /\ m + 1 \in Places
    BY <1>0, <1>3
  <2>1. PICK seq \in Seq(Places), k \in Places : seq = Upto(m) /\ k = m + 1
    BY <1>c, <2>0
  <2>2. Upto(m + 1) = Append(seq, k)
    BY <1>0, <2>1
  <2>3. FoldGrows(TextsOfFiles, Places, f(b), SourceOf)
    BY <1>a, <1>b, FoldAppend, ZenonT(60)
  <2>4. H[b][m + 1] = Fold(TextsOfFiles, Places, f(b), SourceOf, Append(seq, k))
        /\ H[b][m] = Fold(TextsOfFiles, Places, f(b), SourceOf, seq)
    BY <2>0, <2>1, <2>2
  <2>5. H[b][m + 1] = f(b)[<<H[b][m], k>>]
    BY <2>3, <2>4 DEF FoldGrows
  <2> QED BY <1>1, <1>b, <2>1, <2>5
<1>4. ASSUME NEW b \in 1..(N + 1)  PROVE StepSources(p, b, draft) = H[b][N]
  <2>1. StepSources(p, b, draft) = Fold(TextsOfFiles, Places, f(b), SourceOf, [k \in Places |-> k])
    BY SourcesAreFolded DEF f
  <2>2. N \in 0..N /\ [k \in Places |-> k] = Upto(N)
    BY <1>0
  <2> QED BY <2>1, <2>2
<1> HIDE DEF H, N, Upto
<1>5. ASSUME NEW b \in 1..(N + 1)
      PROVE  \A m \in Nat : m <= N => H[b][m] = IF m < b THEN H[N + 1][m] ELSE H[N + 1][b - 1]
  <2> DEFINE P == {m \in Nat : m <= N => H[b][m] = IF m < b THEN H[N + 1][m] ELSE H[N + 1][b - 1]}
  <2>1. 0 \in P
    BY <1>0, <1>2
  <2>2. ASSUME NEW m \in Nat, m \in P  PROVE m + 1 \in P
    <3> SUFFICES ASSUME m + 1 <= N
                 PROVE  H[b][m + 1] = IF m + 1 < b THEN H[N + 1][m + 1] ELSE H[N + 1][b - 1]
      OBVIOUS
    <3>1. m \in 0..N /\ m < N /\ N + 1 \in 1..(N + 1) /\ m + 1 \in Places
      BY <1>0
    <3>2. /\ H[b][m + 1] = AfterStep(p, b, draft, H[b][m], m + 1)
          /\ H[N + 1][m + 1] = AfterStep(p, N + 1, draft, H[N + 1][m], m + 1)
      BY <1>3, <3>1
    <3>3. H[b][m] = IF m < b THEN H[N + 1][m] ELSE H[N + 1][b - 1]
      BY <2>2, <3>1
    <3>4. CASE m + 1 < b
      <4>1. H[b][m] = H[N + 1][m]
        BY <1>0, <3>1, <3>3, <3>4
      <4>2. ~(m + 1 >= b) /\ ~(m + 1 >= N + 1)
        BY <1>0, <3>1, <3>4
      <4>3. \A src : AfterStep(p, b, draft, src, m + 1) = AfterStep(p, N + 1, draft, src, m + 1)
        BY <4>2 DEF AfterStep
      <4> QED BY <3>2, <3>4, <4>1, <4>3
    <3>5. CASE ~(m + 1 < b)
      <4>1. m + 1 >= b
        BY <1>0, <3>1, <3>5
      <4>2. H[b][m] = H[N + 1][b - 1]
        <5>1. CASE m < b
          <6>1. m = b - 1
            BY <1>0, <3>1, <4>1, <5>1
          <6> QED BY <3>3, <5>1, <6>1
        <5>2. CASE ~(m < b)
          BY <3>3, <5>2
        <5> QED BY <5>1, <5>2
      <4>3. \A src : AfterStep(p, b, draft, src, m + 1) = src
        BY <4>1 DEF AfterStep
      <4> QED BY <3>2, <3>5, <4>2, <4>3
    <3> QED BY <3>4, <3>5
  <2> HIDE DEF P
  <2>3. \A m \in Nat : m \in P
    BY <2>1, <2>2, Induction
  <2> QED BY <2>3 DEF P
<1>6. ASSUME NEW b \in 1..(N + 1)  PROVE StepSources(p, b, draft) = H[N + 1][b - 1]
  <2>1. H[b][N] = IF N < b THEN H[N + 1][N] ELSE H[N + 1][b - 1]
    BY <1>0, <1>5
  <2>2. N < b => N = b - 1
    BY <1>0
  <2> QED BY <1>4, <2>1, <2>2
<1>7. StepSources(p, 1, draft) = SourceOf
  <2>1. 1 \in 1..(N + 1) /\ N + 1 \in 1..(N + 1) /\ 1 - 1 = 0
    BY <1>0
  <2> QED BY <1>2, <1>6, <2>1
<1>8. ASSUME NEW k \in 1..N
      PROVE  StepSources(p, k + 1, draft) = AfterStep(p, NoStep, draft, StepSources(p, k, draft), k)
  <2>1. PICK m \in 0..N : m = k - 1 /\ m < N /\ m + 1 = k
    BY <1>0
  <2>2. k \in 1..(N + 1) /\ k + 1 \in 1..(N + 1) /\ (k + 1) - 1 = k /\ N + 1 \in 1..(N + 1)
    BY <1>0
  <2>3. StepSources(p, k, draft) = H[N + 1][m] /\ StepSources(p, k + 1, draft) = H[N + 1][k]
    BY <1>6, <2>1, <2>2
  <2>4. H[N + 1][m + 1] = AfterStep(p, N + 1, draft, H[N + 1][m], m + 1)
    BY <1>3, <2>1, <2>2
  <2> QED BY <1>0, <2>1, <2>3, <2>4
<1> QED BY <1>0, <1>7, <1>8

\* The step whose blanks the code on show holds, and what is entered in each step.
DraftStep == IF step.file # NoFile /\ AllFilled THEN StepIndex(progress) ELSE NoStep
EnteredIn(p, draft, k) == IF k = draft THEN drafts[Lesson[k].id] ELSE AnswersOf(p.answers, Lesson[k].id)

LEMMA EnteredInStep ==
  ASSUME NEW E, NEW p, AnswersIn(E, Offers, p.answers), DraftsIn(E, Offers), NEW draft,
         NEW k \in DOMAIN Lesson
  PROVE  AllOf(E, Offers, Lesson[k].id, EnteredIn(p, draft, k))
<1>1. Lesson[k].id \in StepIds
  BY LessonHasSteps DEF StepIds
<1>2. AllOf(E, Offers, Lesson[k].id, drafts[Lesson[k].id])
  BY <1>1 DEF DraftsIn, AnswersIn
<1>3. AllOf(E, Offers, Lesson[k].id, AnswersOf(p.answers, Lesson[k].id))
  BY DEF AnswersIn, AnswersOf, AllOf
<1> QED BY <1>2, <1>3 DEF EnteredIn

\* A step whose edits are in the code that is built.
IsBuilt(p, draft, k) == Lesson[k].file \in Module /\ (k = draft \/ Lesson[k].id \in p.completed)

\* A set of texts that holds the built-in code and that no step leaves holds the
\* code of every step.
LEMMA BuiltKeep ==
  ASSUME NEW R, NEW p, AnswersAreTexts(p.answers), DraftsAreTexts, NEW draft,
         \A f \in Module : SourceOf[f] \in R,
         \A k \in DOMAIN Lesson : \A text \in R :
           IsBuilt(p, draft, k) /\ text = StepSources(p, k, draft)[Lesson[k].file] =>
             LET applied == ApplyStepEdits(text, Lesson[k], EnteredIn(p, draft, k))
             IN applied.missing \/ applied.text \in R
  PROVE  \A k \in 1..NoStep : \A f \in Module : StepSources(p, k, draft)[f] \in R
<1> DEFINE G(k) == StepSources(p, k, draft)
           P == {m \in Nat : m <= Len(Lesson) => \A f \in Module : G(m + 1)[f] \in R}
<1>0. /\ Len(Lesson) \in Nat /\ DOMAIN Lesson = 1..Len(Lesson) /\ NoStep = Len(Lesson) + 1
  BY LessonHasSteps DEF NoStep
<1>2. /\ G(1) = SourceOf
      /\ \A k \in 1..Len(Lesson) : G(k + 1) = AfterStep(p, NoStep, draft, G(k), k)
      /\ \A k : DOMAIN G(k) = File
  BY <1>0, StepsInTurn, BuiltAreTexts DEF TextsOfFiles
<1>3. \A k \in 1..Len(Lesson) : \A text \in R :
        IsBuilt(p, draft, k) /\ text = G(k)[Lesson[k].file] =>
          LET applied == ApplyStepEdits(text, Lesson[k], EnteredIn(p, draft, k))
          IN applied.missing \/ applied.text \in R
  BY <1>0
<1> HIDE DEF G
<1>4. 0 \in P
  BY <1>2
<1>5. ASSUME NEW m \in Nat, m \in P  PROVE m + 1 \in P
  <2> SUFFICES ASSUME m + 1 <= Len(Lesson), NEW f \in Module  PROVE G((m + 1) + 1)[f] \in R
    OBVIOUS
  <2>1. PICK k \in 1..Len(Lesson) : k = m + 1
    BY <1>0
  <2>2. \A g \in Module : G(k)[g] \in R
    BY <1>0, <1>5, <2>1
  <2>3. f \in DOMAIN G(k)
    BY <1>2, ModulesAreFiles
  <2> DEFINE s == Lesson[k]
             entered == EnteredIn(p, draft, k)
             result == ApplyStepEdits(G(k)[s.file], s, entered)
  <2>5. G(k + 1) = IF \/ k >= NoStep \/ s.file = NoFile
                      \/ k # draft /\ s.id \notin p.completed
                      \/ result.missing
                   THEN G(k) ELSE [G(k) EXCEPT ![s.file] = result.text]
    BY <1>2 DEF AfterStep, EnteredIn
  <2>6. IsBuilt(p, draft, k) => result.missing \/ result.text \in R
    BY <1>3, <2>2 DEF IsBuilt
  <2> HIDE DEF s, entered, result
  <2>7. CASE G(k + 1) = G(k)
    BY <2>1, <2>2, <2>7
  <2>8. CASE G(k + 1) # G(k)
    <3>1. /\ G(k + 1) = [G(k) EXCEPT ![s.file] = result.text]
          /\ k = draft \/ s.id \in p.completed
          /\ ~result.missing
      BY <2>5, <2>8
    <3>2. CASE f = s.file
      <4>1. IsBuilt(p, draft, k)
        BY <3>1, <3>2 DEF IsBuilt, s
      <4> QED BY <2>1, <2>3, <2>6, <3>1, <3>2, <4>1
    <3>3. CASE f # s.file
      BY <2>1, <2>2, <2>3, <3>1, <3>3
    <3> QED BY <3>2, <3>3
  <2> QED BY <2>7, <2>8
<1> HIDE DEF P
<1>6. \A m \in Nat : m \in P
  BY <1>4, <1>5, Induction
<1>7. ASSUME NEW k \in 1..NoStep, NEW f \in Module  PROVE G(k)[f] \in R
  <2>1. k - 1 \in Nat /\ k - 1 <= Len(Lesson) /\ (k - 1) + 1 = k
    BY <1>0
  <2> QED BY <1>6, <2>1 DEF P
<1> QED BY <1>7 DEF G

\* The edits of the steps that are completed and of the one on show find their
\* places: none of them stands in what a student entered in a step before.
PlacesAreKept(p, draft) ==
  \A k \in DOMAIN Lesson :
    IsBuilt(p, draft, k) =>
      AllInPlace(Lesson[k], EnteredIn(p, draft, k), StepSources(p, k, draft)[Lesson[k].file])

EditsInPlace == PlacesAreKept(progress, DraftStep)

LEMMA BuiltRuns ==
  ASSUME LessonIsSound, NEW p, AnswersIn(Calm, Offers, p.answers), DraftsIn(Calm, Offers),
         NEW draft, PlacesAreKept(p, draft)
  PROVE  \A f \in Module : StepSources(p, NoStep, draft)[f] \in Runs
<1>0. EntersOnly(Calm, Offers) /\ \A f \in Module : SourceOf[f] \in Runs
  BY SoundEnters DEF LessonIsSound
<1>1. AnswersAreTexts(p.answers) /\ DraftsAreTexts
  BY <1>0, AnswersInAreTexts DEF DraftsIn, DraftsAreTexts
<1>2. ASSUME NEW k \in DOMAIN Lesson, NEW text \in Runs, IsBuilt(p, draft, k),
             text = StepSources(p, k, draft)[Lesson[k].file]
      PROVE  LET applied == ApplyStepEdits(text, Lesson[k], EnteredIn(p, draft, k))
             IN applied.missing \/ applied.text \in Runs
  <2>1. Lesson[k] \in StepsOfCode
    BY <1>2, LessonHasSteps DEF IsBuilt, StepsOfCode
  <2>2. AllOf(Calm, Offers, Lesson[k].id, EnteredIn(p, draft, k))
    BY EnteredInStep
  <2>3. AllInPlace(Lesson[k], EnteredIn(p, draft, k), text)
    BY <1>2 DEF PlacesAreKept
  <2> QED BY <2>1, <2>2, <2>3, AppliedRuns
<1>3. NoStep \in 1..NoStep
  BY LessonHasSteps DEF NoStep
<1>4. \A k \in 1..NoStep : \A f \in Module : StepSources(p, k, draft)[f] \in Runs
  BY <1>0, <1>1, <1>2, BuiltKeep
<1> QED BY <1>3, <1>4

LEMMA StepsRun ==
  ASSUME LessonIsSound
  PROVE  EntryInv(Calm, Offers) /\ EditsInPlace => StepsNeverBreakCode
<1> SUFFICES ASSUME EntryInv(Calm, Offers), EditsInPlace, progress.mode = "step"
             PROVE  \A name \in Module :
                      \/ ApplySources(PreviewSources).modules[name] = Exports
                      \/ HasForbiddenWord(PreviewSources[name])
  BY DEF StepsNeverBreakCode
<1>1. PreviewSources = StepSources(progress, NoStep, DraftStep)
  BY DEF PreviewSources, BuiltSources, DraftStep
<1>2. \A f \in Module : PreviewSources[f] \in Runs
  <2>1. \A f \in Module : StepSources(progress, NoStep, DraftStep)[f] \in Runs
    BY BuiltRuns DEF EntryInv, Enters, EditsInPlace
  <2> QED BY <1>1, <2>1
<1>3. PICK sources : sources = PreviewSources
  OBVIOUS
<1>4. \A name \in Module :
        /\ sources[name] \in Text /\ Parses(sources[name]) /\ HasDefault(sources[name])
        /\ ~Throws(sources[name])
  BY <1>2, <1>3, CalmIsText, CalmDoesNotThrow DEF Runs
<1>5. \A name \in Module :
        /\ ApplySources(sources).modules[name] \in {Exports, Builtin}
        /\ ApplySources(sources).modules[name] = Builtin =>
             \/ ~Compiles(sources[name]) \/ Throws(sources[name]) \/ ~HasDefault(sources[name])
  BY <1>4, WhatIsAppliedIsExplained
<1> QED BY <1>3, <1>4, <1>5 DEF Compiles

\* labState.ts, lab/README.md: in a lesson whose built-in code, templates, answers
\* and choices are in order, a student may enter any text without a throw or an
\* import, one the escaping was not thought for included, and the code built of
\* the steps runs without an error, as long as no edit of a later step finds its
\* place within what was entered.
THEOREM StepsKeepCodeRunning ==
  ASSUME LessonIsSound
  PROVE  StudentSpec => [](EditsInPlace => StepsNeverBreakCode)
<1>0. EntersOnly(Calm, Offers)
  BY SoundEnters
<1>1. StudentInit => EntryInv(Calm, Offers)
  BY <1>0, EntriesStart
<1>2. StepsInv /\ EntryInv(Calm, Offers) /\ [StudentNext]_studentVars => EntryInv(Calm, Offers)'
  BY <1>0, EntriesGoOn
<1>3. EntryInv(Calm, Offers) => (EditsInPlace => StepsNeverBreakCode)
  BY StepsRun
<1> QED BY <1>1, <1>2, <1>3, StepsInvIsInvariant, PTL DEF StudentSpec

-----------------------------------------------------------------------------
(* Edits in a lesson that is anchored. *)

\* What a sequence with one element more begins with.
OneMore(all, t, c) ==
  /\ \A i \in DOMAIN t : all[i] = t[i] /\ SubSeq(all, 1, i - 1) = SubSeq(t, 1, i - 1)
  /\ all[Len(t) + 1] = c /\ SubSeq(all, 1, Len(t)) = t
  /\ DOMAIN all = DOMAIN t \cup {Len(t) + 1}

LEMMA FirstOfAppended ==
  ASSUME NEW S, NEW t \in Seq(S), NEW c \in S
  PROVE  OneMore(Append(t, c), t, c)
<1>a. Appends(S)
  BY AppendedTo
<1>1. /\ Len(t) \in Nat /\ DOMAIN t = 1..Len(t) /\ t \in Seq(S) /\ SubSeq(t, 1, Len(t)) = t
      /\ \A i \in 1..Len(t) : t[i] \in S
  BY LenProperties, SubSeqFull, ElementOfSeq
<1>2. PICK all \in Seq(S) : all = Append(t, c)
  BY <1>a DEF Appends
<1>3. /\ DOMAIN all = 1..(Len(t) + 1) /\ all[Len(t) + 1] = c
      /\ \A i \in 1..Len(t) : all[i] = t[i]
  BY <1>1, <1>2, <1>a DEF Appends
<1>4. ASSUME NEW n \in 0..Len(t)  PROVE SubSeq(all, 1, n) = SubSeq(t, 1, n)
  <2>1. /\ SubSeq(all, 1, n) = [i \in 1..n |-> all[i]]
        /\ SubSeq(t, 1, n) = [i \in 1..n |-> t[i]]
    <3>1. n \in 0..Len(all) /\ n \in 0..Len(t)
      BY <1>1, <1>3, LenProperties
    <3>2. SubSeq(all, 1, n) = Restrict(all, 1..n) /\ SubSeq(t, 1, n) = Restrict(t, 1..n)
      BY <3>1, <1>1, SubSeqRestrict
    <3> QED BY <3>2 DEF Restrict
  <2> QED BY <1>1, <1>3, <2>1
<1>5. ASSUME NEW i \in DOMAIN t  PROVE i - 1 \in 0..Len(t)
  BY <1>1
<1> QED BY <1>1, <1>2, <1>3, <1>4, <1>5 DEF OneMore

LEMMA AnchoredGrows ==
  ASSUME NEW anchor, NEW mode \in ScanMode
  PROVE  /\ Anchored(anchor, mode, <<>>)
         /\ \A t \in Seq(STRING), c \in STRING :
              Anchored(anchor, mode, Append(t, c)) <=>
                Anchored(anchor, mode, t) /\ (c \in DOMAIN anchor => ScanFrom(mode, t) = anchor[c])
<1>1. Anchored(anchor, mode, <<>>)
  BY DEF Anchored
<1>2. ASSUME NEW t \in Seq(STRING), NEW c \in STRING
      PROVE  Anchored(anchor, mode, Append(t, c)) <=>
               Anchored(anchor, mode, t) /\ (c \in DOMAIN anchor => ScanFrom(mode, t) = anchor[c])
  <2>1. PICK all : all = Append(t, c)
    OBVIOUS
  <2>2. OneMore(all, t, c)
    BY <2>1, FirstOfAppended
  <2>3. (Len(t) + 1) - 1 = Len(t)
    BY LenProperties
  <2> QED BY <2>1, <2>2, <2>3 DEF Anchored, OneMore
<1> QED BY <1>1, <1>2

LEMMA MarksGrow ==
  ASSUME NEW anchor, NEW s, NEW mode \in ScanMode, NEW t \in Seq(Piece), NEW p \in Piece,
         MarksInPlace(anchor, s, mode, Append(t, p))
  PROVE  /\ MarksInPlace(anchor, s, mode, t)
         /\ ~IsBlank(p) /\ p.text \in DOMAIN anchor => ReadFrom(s, mode, t) = anchor[p.text]
<1>1. PICK all : all = Append(t, p)
  OBVIOUS
<1>2. OneMore(all, t, p)
  BY <1>1, FirstOfAppended
<1>3. (Len(t) + 1) - 1 = Len(t)
  BY LenProperties
<1> QED BY <1>1, <1>2, <1>3 DEF MarksInPlace, OneMore

LEMMA AnchoredInSequence ==
  ASSUME NEW anchor, NEW mode \in ScanMode, NEW a \in Seq(STRING)
  PROVE  \A b \in Seq(STRING) :
           Anchored(anchor, mode, a \o b) <=>
             Anchored(anchor, mode, a) /\ Anchored(anchor, ScanFrom(mode, a), b)
<1> DEFINE A(m, t) == Anchored(anchor, m, t)
           P == {b \in Seq(STRING) : A(mode, a \o b) <=> A(mode, a) /\ A(ScanFrom(mode, a), b)}
<1>0. ScanFrom(mode, a) \in ScanMode
  BY ScanGrows DEF Scans
<1>1. \A m \in ScanMode :
        /\ A(m, <<>>)
        /\ \A t \in Seq(STRING), c \in STRING :
             A(m, Append(t, c)) <=> A(m, t) /\ (c \in DOMAIN anchor => ScanFrom(m, t) = anchor[c])
  BY AnchoredGrows
<1> HIDE DEF A
<1>2. <<>> \in P
  <2>1. a \o <<>> = a /\ <<>> \in Seq(STRING)
    BY EmptySeq
  <2> QED BY <1>0, <1>1, <2>1
<1>3. ASSUME NEW b \in Seq(STRING), NEW c \in STRING, b \in P  PROVE Append(b, c) \in P
  <2>a. Appends(STRING)
    BY AppendedTo
  <2>1. a \o Append(b, c) = Append(a \o b, c) /\ a \o b \in Seq(STRING)
    BY AppendedLater DEF AppendsLater
  <2>2. Append(b, c) \in Seq(STRING)
    BY <2>a DEF Appends
  <2>3. ScanFrom(mode, a \o b) = ScanFrom(ScanFrom(mode, a), b)
    BY ScanInSequence
  <2>4. A(mode, Append(a \o b, c)) <=>
          A(mode, a \o b) /\ (c \in DOMAIN anchor => ScanFrom(mode, a \o b) = anchor[c])
    BY <1>1, <2>1
  <2>5. A(ScanFrom(mode, a), Append(b, c)) <=>
          /\ A(ScanFrom(mode, a), b)
          /\ c \in DOMAIN anchor => ScanFrom(ScanFrom(mode, a), b) = anchor[c]
    BY <1>0, <1>1
  <2> QED BY <1>3, <2>1, <2>2, <2>3, <2>4, <2>5
<1> HIDE DEF P
<1>4. \A b \in Seq(STRING) : b \in P
  BY <1>2, <1>3, InductionOnSequences
<1> QED BY <1>4 DEF P, A

\* A text without such tokens.
LEMMA UnmarkedIsAnchored ==
  ASSUME NEW anchor, NEW S, S \cap DOMAIN anchor = {}, NEW text \in Seq(S), NEW mode
  PROVE  Anchored(anchor, mode, text)
<1>1. \A i \in DOMAIN text : text[i] \in S
  BY ElementOfSeq, LenProperties
<1> QED BY <1>1 DEF Anchored

\* A filled blank, escaped.
LEMMA BlankIsOf ==
  ASSUME NEW S, EscapesWith(S), EntersOnly(Seq(S), Offers), NEW s \in Steps,
         NEW entered, AllOf(Seq(S), Offers, s.id, entered), NEW piece, IsBlank(piece)
  PROVE  Fill(piece, s.blanks, entered) \in Seq(S)
<1>0. AreBlanks(s.blanks)
  BY LessonHasSteps DEF IsStepOfLesson
<1>1. ASSUME NEW b \in s.blanks  PROVE EscapeBlankValue(b, ValueOf(b, entered)) \in Seq(S)
  <2>1. ValueOf(b, entered) \in Seq(S)
    BY ValuesOfStep
  <2>2. PICK value \in Seq(S) : value = ValueOf(b, entered)
    BY <2>1
  <2>3. value \in Seq(S \cup {NewLine})
    OBVIOUS
  <2>4. JsxText(value) \in Seq(S) /\ StringText(value) \in Seq(S)
    BY <2>3, EscapedIsOf
  <2>5. b.escape \in {"jsx-text", "string", "none"}
    BY <1>0 DEF AreBlanks, IsBlankOfStep
  <2> QED BY <2>2, <2>4, <2>5 DEF EscapeBlankValue
<1> QED BY <1>0, <1>1, FilledBlank DEF AreBlanks

LEMMA TemplateIsAnchored ==
  ASSUME NEW anchor, EscapesWith(Unmarked(anchor)), EntersOnly(Seq(Unmarked(anchor)), Offers),
         NEW s \in Steps, NEW entered, AllOf(Seq(Unmarked(anchor)), Offers, s.id, entered),
         NEW mode \in ScanMode
  PROVE  \A t \in Seq(Piece) :
           ReadFrom(s, mode, t) # "broken" /\ MarksInPlace(anchor, s, mode, t) =>
             Anchored(anchor, mode, FillTemplate(t, s.blanks, entered))
<1> DEFINE E == Seq(Unmarked(anchor))
           F(t) == FillTemplate(t, s.blanks, entered)
           A(m, t) == Anchored(anchor, m, t)
           M(t) == MarksInPlace(anchor, s, mode, t)
           P == {t \in Seq(Piece) : ReadFrom(s, mode, t) # "broken" /\ M(t) => A(mode, F(t))}
<1>a. AreBlanks(s.blanks) /\ AreTexts(entered)
  BY LessonHasSteps, ValuesOfStep DEF IsStepOfLesson
<1>0. /\ F(<<>>) = <<>>
      /\ \A t \in Seq(Piece) : F(t) \in Seq(STRING)
      /\ \A t \in Seq(Piece), p \in Piece : F(Append(t, p)) = F(t) \o Fill(p, s.blanks, entered)
  BY <1>a, TemplateGrows DEF Fills
<1>1. \A p \in Piece : Fill(p, s.blanks, entered) \in Seq(STRING)
  BY <1>a, FillIsText DEF Text
<1>2. Reads(s, mode)
  BY ReadGrows
<1>b. \A t \in Seq(Piece) : ReadFrom(s, mode, t) # "broken" => ScanFrom(mode, F(t)) = ReadFrom(s, mode, t)
  BY TemplateReads
<1>c. \A a, b \in Seq(STRING) : A(mode, a \o b) <=> A(mode, a) /\ A(ScanFrom(mode, a), b)
  BY AnchoredInSequence
<1>d. \A t \in Seq(Piece), p \in Piece :
        M(Append(t, p)) => M(t) /\ (~IsBlank(p) /\ p.text \in DOMAIN anchor => ReadFrom(s, mode, t) = anchor[p.text])
  BY MarksGrow
<1>e. A(mode, <<>>)
  BY AnchoredGrows
<1>f. ASSUME NEW m \in ScanMode, NEW p \in Piece,
             ~IsBlank(p) /\ p.text \in DOMAIN anchor => m = anchor[p.text]
      PROVE  A(m, Fill(p, s.blanks, entered))
  <2>1. CASE IsBlank(p)
    <3>1. Fill(p, s.blanks, entered) \in Seq(Unmarked(anchor))
      BY <2>1, BlankIsOf
    <3>2. Unmarked(anchor) \cap DOMAIN anchor = {}
      BY DEF Unmarked
    <3> QED BY <3>1, <3>2, UnmarkedIsAnchored
  <2>2. CASE ~IsBlank(p)
    <3>1. p.text \in STRING
      BY <2>2 DEF IsBlank, Piece
    <3>2. PICK c \in STRING : c = p.text
      BY <3>1
    <3>3. Append(<<>>, c) = <<c>> /\ <<>> \in Seq(STRING) /\ ScanFrom(m, <<>>) = m
      BY ShortSequences, ScanGrows DEF Scans
    <3>4. A(m, Append(<<>>, c))
      BY <1>f, <2>2, <3>2, <3>3, AnchoredGrows
    <3> QED BY <2>2, <3>2, <3>3, <3>4 DEF Fill
  <2> QED BY <2>1, <2>2
<1> HIDE DEF F, A, M
<1>3. <<>> \in P
  BY <1>0, <1>e, EmptySeq
<1>4. ASSUME NEW t \in Seq(Piece), NEW p \in Piece, t \in P  PROVE Append(t, p) \in P
  <2>a. Appends(Piece)
    BY AppendedTo
  <2>1. Append(t, p) \in Seq(Piece)
    BY <2>a DEF Appends
  <2>2. PICK m \in ScanMode : m = ReadFrom(s, mode, t)
    BY <1>2 DEF Reads
  <2>3. ReadFrom(s, mode, Append(t, p)) = ReadPiece(s, m, p)
    BY <1>2, <2>2 DEF Reads
  <2>4. ASSUME ReadPiece(s, m, p) # "broken", M(Append(t, p))  PROVE A(mode, F(Append(t, p)))
    <3>1. m # "broken"
      <4>1. \A c : Scan("broken", c) = "broken"
        BY DEF Scan
      <4> QED BY <2>4, <4>1 DEF ReadPiece
    <3>2. M(t) /\ (~IsBlank(p) /\ p.text \in DOMAIN anchor => m = anchor[p.text])
      BY <1>d, <2>2, <2>4
    <3>3. A(mode, F(t)) /\ ScanFrom(mode, F(t)) = m
      BY <1>4, <1>b, <2>2, <3>1, <3>2
    <3>4. A(m, Fill(p, s.blanks, entered))
      BY <1>f, <3>2
    <3>5. PICK a \in Seq(STRING), b \in Seq(STRING) : a = F(t) /\ b = Fill(p, s.blanks, entered)
      BY <1>0, <1>1
    <3>6. A(mode, a \o b)
      BY <1>c, <3>3, <3>4, <3>5
    <3>7. F(Append(t, p)) = F(t) \o Fill(p, s.blanks, entered)
      BY <1>0
    <3>8. F(Append(t, p)) = a \o b
      BY <3>5, <3>7
    <3> QED BY <3>6, <3>8
  <2> QED BY <2>1, <2>3, <2>4
<1> HIDE DEF P
<1>5. \A t \in Seq(Piece) : t \in P
  BY <1>3, <1>4, InductionOnSequences
<1> QED BY <1>5 DEF P, F, A, M

LEMMA AnchoredEnters ==
  ASSUME NEW anchor, IsAnchored(anchor)
  PROVE  EntersOnly(Seq(Unmarked(anchor)), Offers)
<1>1. Seq(Unmarked(anchor)) \subseteq Text
  BY SeqMonotonic DEF Unmarked, Harmless, Text
<1> QED BY <1>1 DEF IsAnchored, EntersOnly

Tidy(anchor) == {text \in Runs : Anchored(anchor, "code", text)}

LEMMA UnmarkedIsCalm ==
  ASSUME NEW anchor, NEW id, NEW entered, AllOf(Seq(Unmarked(anchor)), Offers, id, entered)
  PROVE  AllOf(Calm, Offers, id, entered)
<1>1. Unmarked(anchor) \subseteq Harmless
  BY DEF Unmarked
<1>2. Seq(Unmarked(anchor)) \subseteq Calm
  BY <1>1, SeqMonotonic DEF Calm
<1> QED BY <1>2 DEF AllOf, Kind

LEMMA EditIsTidy ==
  ASSUME LessonIsSound, NEW anchor, IsAnchored(anchor), NEW s \in StepsOfCode, NEW e \in ToSet(s.edits),
         NEW entered, AllOf(Seq(Unmarked(anchor)), Offers, s.id, entered),
         NEW text \in Tidy(anchor), IndexOf(text, e.find) # 0
  PROVE  /\ InPlace(s, e, text)
         /\ Spliced(text, e.find, FillTemplate(e.replace, s.blanks, entered)) \in Tidy(anchor)
<1> DEFINE i == IndexOf(text, e.find)
           left == SubSeq(text, 1, i - 1)
           right == SubSeq(text, i + Len(e.find), Len(text))
           put == FillTemplate(e.replace, s.blanks, entered)
           mode == ScanFrom("code", left)
           after == ScanFrom(mode, e.find)
           A(m, t) == Anchored(anchor, m, t)
<1>0. /\ text \in Runs /\ text \in Calm /\ A("code", text)
      /\ e.find \in Text /\ e.replace \in Seq(Piece) /\ s \in Steps /\ "code" \in ScanMode
      /\ EscapesWith(Unmarked(anchor)) /\ EntersOnly(Seq(Unmarked(anchor)), Offers)
  BY LessonHasSteps, AnchoredEnters DEF StepsOfCode, Runs, Tidy, IsStepOfLesson, IsEdit, IsAnchored, ScanMode
<1>a. AllOf(Calm, Offers, s.id, entered)
  BY UnmarkedIsCalm
<1>1. /\ left \in Seq(STRING) /\ right \in Seq(STRING) /\ e.find \in Seq(STRING)
      /\ text = (left \o e.find) \o right
  <2>1. text \in Seq(STRING)
    BY <1>0, CalmIsText DEF Text
  <2>2. text \in Seq(STRING) /\ STRING \subseteq STRING /\ e.find \in Text
    BY <1>0, <2>1
  <2>3. /\ left \in Seq(STRING) /\ right \in Seq(STRING)
        /\ text = (left \o e.find) \o right
    BY <2>2, PartsOfText
  <2> QED BY <1>0, <2>3 DEF Text
<1>2. put \in Seq(STRING)
  <2>1. put \in Calm
    BY <1>a, TemplateIsCalm
  <2> QED BY <2>1, CalmIsText DEF Text
<1>b. Spliced(text, e.find, put) = (left \o put) \o right
  <2>1. \A x : SubSeq(text, 1, i - 1) \o x \o right = (left \o x) \o right
    OBVIOUS
  <2> QED BY <2>1 DEF Spliced
<1> HIDE DEF left, right, put, i
<1>3. mode \in ScanMode /\ after \in ScanMode
  BY <1>0, <1>1, ScanGrows DEF Scans
<1>c. \A m \in ScanMode, a \in Seq(STRING) : \A b \in Seq(STRING) :
        A(m, a \o b) <=> A(m, a) /\ A(ScanFrom(m, a), b)
  BY AnchoredInSequence
<1>d. \A m \in ScanMode, a \in Seq(STRING) : \A b \in Seq(STRING) :
        ScanFrom(m, a \o b) = ScanFrom(ScanFrom(m, a), b)
  BY ScanInSequence
<1>4. left \o e.find \in Seq(STRING) /\ left \o put \in Seq(STRING)
  BY <1>1, <1>2, ConcatProperties
<1>f. ASSUME NEW m \in ScanMode, ReadFrom(s, m, e.replace) # "broken"
      PROVE  ScanFrom(m, put) = ReadFrom(s, m, e.replace)
  BY <1>0, <1>f, TemplateReads DEF put
<1>e. PICK before \in Seq(STRING), rest \in Seq(STRING), found \in Seq(STRING), filled \in Seq(STRING) :
        before = left /\ rest = right /\ found = e.find /\ filled = put
  BY <1>1, <1>2
<1> HIDE DEF A
<1>5. A("code", left) /\ A(mode, e.find) /\ A(after, right)
  <2>0. before \o found \in Seq(STRING)
    BY <1>4, <1>e
  <2>1. A("code", (before \o found) \o rest)
    BY <1>0, <1>1, <1>e
  <2>2. A("code", before \o found) /\ A(ScanFrom("code", before \o found), rest)
    BY <1>0, <1>c, <2>0, <2>1
  <2>3. A("code", before) /\ A(ScanFrom("code", before), found)
    BY <1>0, <1>c, <2>2
  <2>4. ScanFrom("code", before \o found) = ScanFrom(ScanFrom("code", before), found)
    BY <1>0, <1>d
  <2> QED BY <1>e, <2>2, <2>3, <2>4
<1>6. /\ ReadFrom(s, mode, e.replace) = after
      /\ MarksInPlace(anchor, s, mode, e.replace)
  <2>1. PICK a \in DOMAIN e.find :
          /\ e.find[a] \in DOMAIN anchor
          /\ \A m \in ScanMode :
               ScanFrom(m, SubSeq(e.find, 1, a - 1)) = anchor[e.find[a]] =>
                 /\ ReadFrom(s, m, e.replace) = ScanFrom(m, e.find)
                 /\ MarksInPlace(anchor, s, m, e.replace)
    BY DEF IsAnchored
  <2>2. PICK m \in ScanMode : m = mode
    BY <1>3
  <2>3. ScanFrom(m, SubSeq(e.find, 1, a - 1)) = anchor[e.find[a]]
    BY <1>5, <2>1, <2>2 DEF A, Anchored
  <2> QED BY <2>1, <2>2, <2>3
<1>7. InPlace(s, e, text)
  BY <1>6 DEF InPlace, mode, left, i
<1>8. Spliced(text, e.find, put) \in Runs
  BY <1>0, <1>7, <1>a, EditRuns DEF put
<1>9. after # "broken"
  <2>1. ScanFrom("code", text) = "code"
    BY <1>0 DEF Runs, Parses, ScanFrom
  <2>2. ScanFrom("code", (before \o found) \o rest) = ScanFrom(ScanFrom("code", before \o found), rest)
    BY <1>0, <1>4, <1>d, <1>e
  <2>3. ScanFrom("code", before \o found) = ScanFrom(ScanFrom("code", before), found)
    BY <1>0, <1>d
  <2>4. ScanFrom(after, rest) = "code"
    BY <1>1, <1>e, <2>1, <2>2, <2>3
  <2> QED BY <2>4, BrokenStays
<1> HIDE DEF mode, after
<1>10. A(mode, put) /\ ScanFrom(mode, put) = after
  <2>1. PICK m \in ScanMode : m = mode
    BY <1>3
  <2>2. ReadFrom(s, m, e.replace) # "broken" /\ MarksInPlace(anchor, s, m, e.replace)
    BY <1>6, <1>9, <2>1
  <2>3. Anchored(anchor, m, FillTemplate(e.replace, s.blanks, entered))
    BY <1>0, <2>2, TemplateIsAnchored
  <2>4. ScanFrom(m, put) = ReadFrom(s, m, e.replace)
    BY <1>f, <2>2
  <2> QED BY <1>6, <2>1, <2>3, <2>4 DEF put, A
<1>11. A("code", (left \o put) \o right)
  <2>1. ScanFrom("code", before \o filled) = ScanFrom(ScanFrom("code", before), filled)
    BY <1>0, <1>d
  <2>2. ScanFrom("code", before \o filled) = after
    BY <1>10, <1>e, <2>1 DEF mode
  <2>3. A("code", before \o filled)
    BY <1>0, <1>c, <1>5, <1>10, <1>e DEF mode
  <2>4. before \o filled \in Seq(STRING)
    BY <1>4, <1>e
  <2>5. A("code", (before \o filled) \o rest)
    BY <1>0, <1>c, <1>5, <1>e, <2>2, <2>3, <2>4
  <2> QED BY <1>e, <2>5
<1> QED BY <1>7, <1>8, <1>11, <1>b DEF Tidy, A, put

LEMMA StepIsTidy ==
  ASSUME LessonIsSound, NEW anchor, IsAnchored(anchor), NEW s \in StepsOfCode, 
         NEW entered, AllOf(Seq(Unmarked(anchor)), Offers, s.id, entered), NEW text \in Tidy(anchor)
  PROVE  /\ AllInPlace(s, entered, text)
         /\ LET applied == ApplyStepEdits(text, s, entered)
            IN applied.missing \/ applied.text \in Tidy(anchor)
<1> DEFINE sofar(n) == AfterEdits(text, SubSeq(FilledEdits(s, entered), 1, n))
<1>0. /\ s \in Steps /\ AreTexts(entered) /\ Tidy(anchor) \subseteq Text
      /\ Len(s.edits) \in Nat /\ DOMAIN s.edits = 1..Len(s.edits)
  <2>1. s \in Steps /\ EntersOnly(Seq(Unmarked(anchor)), Offers)
    BY AnchoredEnters DEF StepsOfCode
  <2>2. AreTexts(entered)
    BY <2>1, ValuesOfStep
  <2>3. s.edits \in Seq(ToSet(s.edits))
    BY <2>1, LessonHasSteps DEF IsStepOfLesson
  <2> QED BY <2>1, <2>2, <2>3, LenProperties, CalmIsText DEF Tidy, Runs
<1>1. ASSUME NEW j \in DOMAIN s.edits, NEW t \in Tidy(anchor)
      PROVE  StaysIn(Tidy(anchor), s, s.edits[j], entered, t) /\ InPlace(s, s.edits[j], t)
  <2>1. PICK e \in ToSet(s.edits) : e = s.edits[j]
    BY DEF ToSet
  <2>2. IndexOf(t, e.find) # 0 =>
          /\ InPlace(s, e, t)
          /\ Spliced(t, e.find, FillTemplate(e.replace, s.blanks, entered)) \in Tidy(anchor)
    BY EditIsTidy
  <2>3. IndexOf(t, e.find) = 0 => InPlace(s, e, t)
    BY DEF InPlace
  <2> QED BY <2>1, <2>2, <2>3 DEF StaysIn
<1>2. \A j \in DOMAIN s.edits :
        ~sofar(j - 1).missing /\ sofar(j - 1).text \in Tidy(anchor) =>
           StaysIn(Tidy(anchor), s, s.edits[j], entered, sofar(j - 1).text)
  BY <1>1
<1>3. /\ \A n \in Nat : n <= Len(s.edits) => sofar(n).missing \/ sofar(n).text \in Tidy(anchor)
      /\ LET applied == ApplyStepEdits(text, s, entered)
         IN applied.missing \/ applied.text \in Tidy(anchor)
  BY <1>0, <1>2, EditsKeep
<1>4. ASSUME NEW j \in DOMAIN s.edits
      PROVE  sofar(j - 1).missing \/ InPlace(s, s.edits[j], sofar(j - 1).text)
  <2>1. j - 1 \in Nat /\ j - 1 <= Len(s.edits)
    BY <1>0
  <2>2. sofar(j - 1).missing \/ sofar(j - 1).text \in Tidy(anchor)
    BY <1>3, <2>1
  <2> HIDE DEF sofar
  <2> QED BY <1>1, <2>2
<1> QED BY <1>3, <1>4 DEF AllInPlace

LEMMA PlacesAreFound ==
  ASSUME LessonIsSound, NEW anchor, IsAnchored(anchor), NEW p,
         AnswersIn(Seq(Unmarked(anchor)), Offers, p.answers), DraftsIn(Seq(Unmarked(anchor)), Offers),
         NEW draft
  PROVE  PlacesAreKept(p, draft)
<1> DEFINE E == Seq(Unmarked(anchor))
<1>0. EntersOnly(E, Offers)
  BY AnchoredEnters
<1>1. AnswersAreTexts(p.answers) /\ DraftsAreTexts
  BY <1>0, AnswersInAreTexts DEF DraftsIn, DraftsAreTexts
<1>2. \A f \in Module : SourceOf[f] \in Tidy(anchor)
  BY DEF LessonIsSound, IsAnchored, Tidy
<1>3. ASSUME NEW k \in DOMAIN Lesson, NEW text \in Tidy(anchor), IsBuilt(p, draft, k)
      PROVE  /\ AllInPlace(Lesson[k], EnteredIn(p, draft, k), text)
             /\ LET applied == ApplyStepEdits(text, Lesson[k], EnteredIn(p, draft, k))
                IN applied.missing \/ applied.text \in Tidy(anchor)
  <2>1. Lesson[k] \in StepsOfCode
    BY <1>3, LessonHasSteps DEF IsBuilt, StepsOfCode
  <2>2. AllOf(E, Offers, Lesson[k].id, EnteredIn(p, draft, k))
    BY EnteredInStep
  <2> QED BY <2>1, <2>2, StepIsTidy
<1>4. \A k \in 1..NoStep : \A f \in Module : StepSources(p, k, draft)[f] \in Tidy(anchor)
  BY <1>1, <1>2, <1>3, BuiltKeep
<1>5. ASSUME NEW k \in DOMAIN Lesson, IsBuilt(p, draft, k)
      PROVE  AllInPlace(Lesson[k], EnteredIn(p, draft, k), StepSources(p, k, draft)[Lesson[k].file])
  <2>1. k \in 1..NoStep
    BY LessonHasSteps DEF NoStep
  <2>2. Lesson[k].file \in Module
    BY <1>5 DEF IsBuilt
  <2> QED BY <1>3, <1>4, <1>5, <2>1, <2>2
<1> QED BY <1>5 DEF PlacesAreKept

\* lab/README.md, labState.ts (buildSources), sandbox.ts: a lesson in order, each
\* of whose edits looks for a token that no student may enter and that stands in
\* the code in one mode only, is one a student cannot leave the path of: whatever
\* he fills in, in whatever order he goes through the steps, saves and opens the
\* Lab again, the code built of the steps compiles, unless a word the sandbox
\* forbids is in it, and runs without an error.
THEOREM AnchoredLessonKeepsRunning ==
  ASSUME LessonIsSound, NEW CONSTANT anchor, IsAnchored(anchor)
  PROVE  StudentSpec => []StepsNeverBreakCode
<1> DEFINE E == Seq(Unmarked(anchor))
           Kept == EntryInv(E, Offers) /\ EntryInv(Calm, Offers)
<1>0. EntersOnly(E, Offers) /\ EntersOnly(Calm, Offers)
  BY AnchoredEnters, SoundEnters
<1>1. StudentInit => Kept
  BY <1>0, EntriesStart
<1>2. StepsInv /\ Kept /\ [StudentNext]_studentVars => Kept'
  BY <1>0, EntriesGoOn
<1>3. Kept => EditsInPlace
  BY PlacesAreFound DEF EntryInv, Enters, EditsInPlace
<1>4. EntryInv(Calm, Offers) /\ EditsInPlace => StepsNeverBreakCode
  BY StepsRun
<1> HIDE DEF Kept
<1> QED BY <1>1, <1>2, <1>3, <1>4, StepsInvIsInvariant, PTL DEF StudentSpec, Kept
=============================================================================
