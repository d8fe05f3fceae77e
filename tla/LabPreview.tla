----------------------------- MODULE LabPreview -----------------------------
(***************************************************************************)
(* The Lab: the page a student edits code on (LabPage, PreviewFrame) and   *)
(* the real site in an iframe that runs the code (previewBridge), talking  *)
(* by postMessage.  A set of sources is one value of Source; what compiling,*)
(* loading and rendering it does is given by ErrorsIn, CrashesIn, HangsNow *)
(* and HangsLater.  Original is the null of the code: the site as it is.   *)
(*                                                                         *)
(* Both windows are of one origin and share one event loop: a task of one  *)
(* never interrupts a task of the other, and an endless loop stops both    *)
(* until the tab is reloaded or closed.                                    *)
(***************************************************************************)
EXTENDS Naturals, Sequences

CONSTANTS Source,      \* the sets of sources a student can build
          Base,        \* the sources without any edit
          Original,    \* the null that stands for the built-in components
          NeverSent,   \* lastSentRef before anything was sent
          Error,       \* what the error list can show
          ErrorsIn,    \* the errors compiling and loading some sources reports
          CrashesIn,   \* the errors rendering them reports, slot by slot
          HangsNow,    \* sources whose loading or first render never ends
          HangsLater,  \* sources that hang when the student opens another page
          Opening,     \* how the Lab is opened again: "reload", "newTab"
          MaxActs      \* bound on what the student does

ASSUME SomeSources == Base \in Source /\ Original \notin Source
                      /\ NeverSent \notin Source \cup {Original}
ASSUME ErrorsOfSources == /\ ErrorsIn \in [Source -> SUBSET Error]
                          /\ CrashesIn \in [Source -> SUBSET Error]
ASSUME UneditedIsFine == /\ ErrorsIn[Base] = {} /\ CrashesIn[Base] = {}
                         /\ Base \notin HangsNow \cup HangsLater
ASSUME Hangs == HangsNow \subseteq Source /\ HangsLater \subseteq Source
ASSUME Openings == Opening \subseteq {"reload", "newTab"}
ASSUME Bound == MaxActs \in Nat

VARIABLES
  edited,     \* the sources of the progress and the drafts on the page
  saved,      \* those of the progress alone, kept in localStorage
  flag,       \* "lab:applying" in the tab's sessionStorage
  safeMode,   \* LabPage shows Original until the student tries again
  timer,      \* the debounce timer of PreviewFrame is running
  ready,      \* readyRef: the iframe has said lab:ready
  lastSent,   \* lastSentRef
  errors,     \* the error list of LabPage
  toPreview,  \* lab:apply messages on their way, in order
  toParent,   \* lab:ready, lab:applied, lab:runtime-error on their way
  loaded,     \* the iframe's document listens
  installed,  \* what the iframe shows
  crashed,    \* the errors its boundaries have reported since
  replies,    \* setTimeout callbacks of applySources yet to run
  frozen,     \* "no", or what an endless loop interrupted
  wiped,      \* history: the list was reset and nothing was sent since
  acts        \* how much the student has done

page == <<edited, saved, safeMode, timer, ready, lastSent, errors>>
preview == <<loaded, installed, crashed, replies>>
vars == <<page, preview, flag, toPreview, toParent, frozen, wiped, acts>>

Ready == [type |-> "lab:ready"]
Applied(errs) == [type |-> "lab:applied", errors |-> errs]
RuntimeError(e) == [type |-> "lab:runtime-error", errors |-> {e}]
Message == {Ready} \cup {Applied(E) : E \in SUBSET Error} \cup {RuntimeError(e) : e \in Error}

TypeOK ==
  /\ edited \in Source /\ saved \in Source
  /\ flag \in BOOLEAN /\ safeMode \in BOOLEAN
  /\ timer \in BOOLEAN /\ ready \in BOOLEAN
  /\ lastSent \in Source \cup {Original, NeverSent}
  /\ errors \subseteq Error
  /\ toPreview \in Seq(Source \cup {Original})
  /\ toParent \in Seq(Message)
  /\ loaded \in BOOLEAN
  /\ installed \in Source \cup {Original}
  /\ crashed \subseteq Error
  /\ replies \in Seq(SUBSET Error)
  /\ frozen \in {"no", "applying", "browsing"}
  /\ wiped \in BOOLEAN
  /\ acts \in 0..MaxActs

\* A mutant: previewSources does not depend on safe mode.
AlwaysEdited == edited

Wanted == IF safeMode THEN Original ELSE edited

CrashesShown == IF installed \in Source THEN CrashesIn[installed] ELSE {}
ErrorsShown == IF installed \in Source THEN ErrorsIn[installed] ELSE {}

-----------------------------------------------------------------------------
(* The page opens, for the first time or again. *)

Init ==
  /\ edited = Base /\ saved = Base /\ acts = 0
  /\ safeMode = FALSE /\ flag = FALSE
  /\ timer = TRUE /\ ready = FALSE /\ lastSent = NeverSent /\ errors = {}
  /\ loaded = FALSE /\ installed = Original /\ crashed = {} /\ replies = <<>>
  /\ toPreview = <<>> /\ toParent = <<>> /\ frozen = "no" /\ wiped = FALSE

Running == frozen = "no"
Act == acts < MaxActs /\ acts' = acts + 1

\* A document of the iframe goes away with all it had under way.
LeaveFrame ==
  /\ loaded' = FALSE /\ installed' = Original /\ crashed' = {} /\ replies' = <<>>
  /\ toPreview' = <<>>

\* sessionStorage outlives a reload of the tab, not the tab itself; the saved
\* progress in localStorage outlives both.  LabPage reads the mark into safeMode;
\* then its effects clear the mark and start the debounce timer.
Reopen(how) ==
  /\ Act
  /\ safeMode' = (how = "reload" /\ flag)
  /\ flag' = FALSE
  /\ timer' = TRUE /\ ready' = FALSE /\ lastSent' = NeverSent /\ errors' = {}
  /\ toParent' = <<>> /\ frozen' = "no" /\ wiped' = FALSE
  /\ LeaveFrame
  /\ edited' = saved /\ UNCHANGED saved

-----------------------------------------------------------------------------
(* LabPage and PreviewFrame. *)

\* send(force): nothing before lab:ready, nothing twice unless forced.  What is
\* posted to a document that is still loading finds no listener there.
Send(force) ==
  IF ready /\ (force \/ Wanted # lastSent)
  THEN /\ lastSent' = Wanted
       /\ toPreview' = IF loaded THEN Append(toPreview, Wanted) ELSE toPreview
       /\ errors' = {} /\ wiped' = FALSE
  ELSE UNCHANGED <<lastSent, toPreview, errors, wiped>>

\* A mutant: the effect that starts the timer does not run for new sources.
EditWithoutTimer(s, progress) ==
  /\ Running /\ Act
  /\ edited' = s
  /\ saved' = IF progress THEN s ELSE saved
  /\ UNCHANGED <<flag, safeMode, timer, ready, lastSent, errors, toPreview, toParent,
                 preview, frozen, wiped>>

\* Free edits, completed steps, another mode are progress and saved; the value
\* of a blank is a draft.  Either gives new sources, and the debounce timer
\* starts again unless safe mode keeps the preview at null.
Edit(s, progress) ==
  /\ Running /\ Act
  /\ edited' = s
  /\ saved' = IF progress THEN s ELSE saved
  /\ timer' = (timer \/ ~safeMode)
  /\ UNCHANGED <<flag, safeMode, ready, lastSent, errors, toPreview, toParent,
                 preview, frozen, wiped>>

\* handleResetAll.
ResetAll ==
  /\ Running /\ Act
  /\ edited' = Base /\ saved' = Base
  /\ errors' = {} /\ wiped' = TRUE
  /\ timer' = (timer \/ ~safeMode)
  /\ UNCHANGED <<flag, safeMode, ready, lastSent, toPreview, toParent, preview, frozen>>

\* The button of the banner: leave safe mode.
TryAgain ==
  /\ Running /\ Act
  /\ safeMode
  /\ safeMode' = FALSE /\ timer' = TRUE
  /\ UNCHANGED <<edited, saved, flag, ready, lastSent, errors, toPreview, toParent, preview, frozen, wiped>>

\* The run button.
Run ==
  /\ Running /\ Act
  /\ Send(TRUE)
  /\ UNCHANGED <<edited, saved, flag, safeMode, timer, ready, toParent, preview, frozen>>

DebounceEnds ==
  /\ Running
  /\ timer /\ timer' = FALSE
  /\ Send(FALSE)
  /\ UNCHANGED <<edited, saved, flag, safeMode, ready, toParent, preview, frozen, acts>>

\* Mutants: lab:ready sends the last key, or sends without force; a reply
\* replaces the list.
HandleReadyResendingLast ==
  /\ ready' = TRUE
  /\ toPreview' = IF loaded THEN Append(toPreview, lastSent) ELSE toPreview
  /\ errors' = {} /\ wiped' = FALSE
  /\ UNCHANGED lastSent

HandleReadyUnforced ==
  /\ ready' = TRUE
  /\ lastSent' = Wanted
  /\ IF Wanted # lastSent
     THEN /\ toPreview' = IF loaded THEN Append(toPreview, Wanted) ELSE toPreview
          /\ errors' = {} /\ wiped' = FALSE
     ELSE UNCHANGED <<toPreview, errors, wiped>>

HandleErrorsReplacing(errs) ==
  /\ errors' = errs
  /\ UNCHANGED <<ready, lastSent, toPreview, wiped>>

\* handleMessage: lab:ready resends whatever was sent before; both kinds of
\* error messages go through addErrors, which keeps each error once.
HandleReady ==
  /\ ready' = TRUE
  /\ lastSent' = Wanted
  /\ toPreview' = IF loaded THEN Append(toPreview, Wanted) ELSE toPreview
  /\ errors' = {} /\ wiped' = FALSE

HandleErrors(errs) ==
  /\ errors' = errors \cup errs
  /\ UNCHANGED <<ready, lastSent, toPreview, wiped>>

HandleMessage ==
  /\ Running
  /\ toParent # <<>>
  /\ toParent' = Tail(toParent)
  /\ IF Head(toParent) = Ready THEN HandleReady ELSE HandleErrors(Head(toParent).errors)
  /\ UNCHANGED <<edited, saved, flag, safeMode, timer, preview, frozen, acts>>

-----------------------------------------------------------------------------
(* The iframe: main.tsx, previewBridge and the error boundaries. *)

\* startPreviewBridge.
Load ==
  /\ Running
  /\ ~loaded /\ loaded' = TRUE
  /\ toParent' = Append(toParent, Ready)
  /\ UNCHANGED <<page, flag, toPreview, installed, crashed, replies, frozen, wiped, acts>>

\* The student reloads the frame or the code navigates it away and back.
ReloadFrame ==
  /\ Running /\ Act
  /\ loaded
  /\ LeaveFrame
  /\ UNCHANGED <<page, flag, toParent, frozen, wiped>>

\* applySources(null): no mark, the reply is posted at once.
ApplyOriginal ==
  /\ Running
  /\ toPreview # <<>> /\ Head(toPreview) = Original
  /\ toPreview' = Tail(toPreview)
  /\ installed' = Original /\ crashed' = {}
  /\ toParent' = Append(toParent, Applied({}))
  /\ UNCHANGED <<page, flag, loaded, replies, frozen, wiped, acts>>

\* applySources: mark, compile, load, install; the site redraws before the
\* timeout that clears the mark and replies.
ApplyStudentCode ==
  /\ Running
  /\ toPreview # <<>> /\ Head(toPreview) \in Source \ HangsNow
  /\ toPreview' = Tail(toPreview)
  /\ flag' = TRUE
  /\ installed' = Head(toPreview) /\ crashed' = {}
  /\ replies' = Append(replies, ErrorsIn[Head(toPreview)])
  /\ UNCHANGED <<page, toParent, loaded, frozen, wiped, acts>>

\* A mutant: the mark is set once everything has compiled and rendered.
ApplyHangsUnmarked ==
  /\ Running
  /\ toPreview # <<>> /\ Head(toPreview) \in HangsNow
  /\ frozen' = "applying"
  /\ UNCHANGED <<page, flag, toPreview, toParent, preview, wiped, acts>>

ApplyHangs ==
  /\ Running
  /\ toPreview # <<>> /\ Head(toPreview) \in HangsNow
  /\ flag' = TRUE
  /\ frozen' = "applying"
  /\ UNCHANGED <<page, toPreview, toParent, preview, wiped, acts>>

\* The timeout at the end of applySources.
Reply ==
  /\ Running
  /\ replies # <<>>
  /\ replies' = Tail(replies)
  /\ flag' = FALSE
  /\ toParent' = Append(toParent, Applied(Head(replies)))
  /\ UNCHANGED <<page, toPreview, loaded, installed, crashed, frozen, wiped, acts>>

\* A student's component throws while it renders: its boundary shows the
\* built-in one and reports, once per version of the code.
Crash(e) ==
  /\ Running
  /\ e \in CrashesShown \ crashed
  /\ crashed' = crashed \cup {e}
  /\ toParent' = Append(toParent, RuntimeError(e))
  /\ UNCHANGED <<page, flag, toPreview, loaded, installed, replies, frozen, wiped, acts>>

\* The student opens a page of the preview whose component never stops.
HangWhileBrowsing ==
  /\ Running /\ Act
  /\ installed \in HangsLater
  /\ frozen' = "browsing"
  /\ UNCHANGED <<page, preview, flag, toPreview, toParent, wiped>>

Student == \/ \E s \in Source, progress \in BOOLEAN : Edit(s, progress)
           \/ \E how \in Opening : Reopen(how)
           \/ ResetAll \/ TryAgain \/ Run \/ ReloadFrame \/ HangWhileBrowsing

EventLoop == \/ DebounceEnds \/ HandleMessage \/ Load
             \/ ApplyOriginal \/ ApplyStudentCode \/ ApplyHangs \/ Reply
             \/ \E e \in Error : Crash(e)

Next == Student \/ EventLoop

\* The browser runs every task and timer sooner or later, unless one hangs.
Fairness == /\ WF_vars(DebounceEnds) /\ WF_vars(HandleMessage) /\ WF_vars(Load)
            /\ WF_vars(ApplyOriginal) /\ WF_vars(ApplyStudentCode) /\ WF_vars(ApplyHangs)
            /\ WF_vars(Reply)

Spec == Init /\ [][Next]_vars
FairSpec == Spec /\ Fairness

-----------------------------------------------------------------------------
(* Properties. *)

\* Nothing is under way: no message, no timer, the frame is loaded.
Settled ==
  /\ Running /\ loaded /\ ~timer
  /\ toPreview = <<>> /\ toParent = <<>> /\ replies = <<>>

\* When everything has settled the preview shows the student's latest sources,
\* whatever reload, debounce or lost message came between.
SettledPreviewIsCurrent == Settled => installed = Wanted

\* When everything has settled no error of the code on show is missing from
\* the list, although every send empties it; a student who resets the list and
\* restores the same code before the debounce ends is told again by Run only.
NoErrorIsLost == Settled /\ ~wiped => ErrorsShown \cup crashed \subseteq errors

\* In safe mode nothing the student wrote runs, whatever is still under way.
SafeModeRunsNoStudentCode ==
  safeMode => /\ installed = Original
              /\ replies = <<>>
              /\ \A i \in DOMAIN toPreview : toPreview[i] = Original

\* Reloading a tab that froze while it applied code starts in safe mode.
HangWhileApplyingIsRemembered ==
  [][Reopen("reload") /\ frozen = "applying" => safeMode']_vars

\* The preview catches up with sources the student leaves alone.
PreviewCatchesUp ==
  \A s \in Source : <>[](edited = s /\ ~safeMode) => <>[](~Running \/ installed = s)
=============================================================================
