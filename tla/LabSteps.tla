------------------------------- MODULE LabSteps -------------------------------
(***************************************************************************)
(* A student at work in the Lab: the steps of the lesson and free editing  *)
(* (LabPage, StepPanel, FreePanel), the progress and where it is kept, and *)
(* the code that is built of it (labState.ts).  Steps are numbered from 1. *)
(* The tab picked in free editing and the text written there, and a blank  *)
(* and the value entered there, are one action each.                       *)
(***************************************************************************)
EXTENDS StepText, Integers

CONSTANTS Lesson,       \* lessonSteps
          SourceOf,     \* builtinSources
          Typed,        \* what a student may enter in a text or color blank
          FreeSource,   \* what he may make of each file
          Old,          \* what localStorage may hold when the Lab is opened first
          CanStore      \* localStorage can be written

File == DOMAIN SourceOf
Steps == ToSet(Lesson)
StepIds == {step.id : step \in Steps}

\* CodeEdit, Blank and LessonStep of lessons/types.ts.
IsEdit(e) == e.find \in Text /\ e.replace \in Seq(Piece)
IsBlankOfStep(b) ==
  /\ b.escape \in {"jsx-text", "string", "none"}
  /\ b.kind = "choice" \/ b.default \in Text
  /\ \A option \in b.options : option \in Text

ASSUME LessonIsWellFormed ==
  /\ Lesson \in Seq(Steps) /\ Lesson # <<>>
  /\ \A step \in Steps :
       /\ step.file = NoFile \/ step.file \in File
       /\ step.edits \in Seq(ToSet(step.edits)) /\ \A e \in ToSet(step.edits) : IsEdit(e)
       /\ IsFiniteSet(step.blanks) /\ \A b \in step.blanks : IsBlankOfStep(b)

ASSUME SourcesAreTexts ==
  /\ SourceOf \in [File -> Text]
  /\ \A f \in File : \A source \in FreeSource[f] : source \in Text

\* What the inputs of StepPanel.tsx give.
ASSUME EntriesAreTexts ==
  \A step \in Steps : \A b \in step.blanks :
    b.kind # "choice" => \A value \in Typed[b.id] : value \in Text

VARIABLES
  progress,  \* mode, step, completed steps, their answers, free edits
  drafts,    \* the values in the blanks of each step
  status,    \* the verdict that is shown
  stored     \* localStorage: nothing, something else, or a progress

studentVars == <<progress, drafts, status, stored>>

\* { ...old, ...new }
Spread(old, new) ==
  [x \in DOMAIN old \cup DOMAIN new |-> IF x \in DOMAIN new THEN new[x] ELSE old[x]]

NothingStored == [is |-> "nothing"]
Unreadable == [is |-> "unreadable"]
Stored(p) == [is |-> "progress", progress |-> p]

\* Answers and free edits are strings wherever they were saved.
AreTexts(f) == \A x \in DOMAIN f : f[x] \in Text
ProgressOfTexts(p) ==
  /\ "stepIndex" \in DOMAIN p => p.stepIndex \in Int
  /\ "answers" \in DOMAIN p => \A id \in DOMAIN p.answers : AreTexts(p.answers[id])
  /\ "freeEdits" \in DOMAIN p => AreTexts(p.freeEdits)

ASSUME OldIsOfTexts ==
  \A item \in Old : item.is = "progress" => ProgressOfTexts(item.progress)

EmptyProgress ==
  [mode |-> "step", stepIndex |-> 1, completed |-> {}, answers |-> [id \in {} |-> {}],
   freeEdits |-> [f \in {} |-> <<>>]]

\* What is missing is as in an empty progress, and files that are not the
\* student's are dropped; steps the lesson no longer has are kept.
LoadProgress(item) ==
  IF item.is # "progress" THEN EmptyProgress
  ELSE LET saved == Spread(EmptyProgress, item.progress)
       IN [mode |-> IF saved.mode = "free" THEN "free" ELSE "step",
           stepIndex |-> saved.stepIndex, completed |-> saved.completed, answers |-> saved.answers,
           freeEdits |-> Restrict(saved.freeEdits, DOMAIN saved.freeEdits \cap File)]

SaveProgress(p) == stored' = IF CanStore THEN Stored(p) ELSE stored

\* A saved number may be one of another lesson.
StepIndex(p) ==
  IF p.stepIndex < 1 THEN 1
  ELSE IF p.stepIndex > Len(Lesson) THEN Len(Lesson) ELSE p.stepIndex

AnswersOf(answers, id) == IF id \in DOMAIN answers THEN answers[id] ELSE [b \in {} |-> <<>>]

\* Blanks that were not touched have their default.
Draft(step, answers) ==
  [id \in {b.id : b \in step.blanks} |->
     LET blank == CHOOSE b \in step.blanks : b.id = id
     IN ValueOf(blank, AnswersOf(answers, step.id))]

Drafts(answers) ==
  [id \in StepIds |-> Draft(CHOOSE step \in Steps : step.id = id, answers)]

-----------------------------------------------------------------------------
(* The code.  NoStep is a build without a draft. *)

NoStep == Len(Lesson) + 1

\* A step of the lesson in the code it finds: nothing unless it is one of the
\* first, and completed or the one of the draft.
AfterStep(p, before, draft, sources, k) ==
  LET entered == IF k = draft THEN drafts[Lesson[k].id] ELSE AnswersOf(p.answers, Lesson[k].id)
      edited == ApplyStepEdits(sources[Lesson[k].file], Lesson[k], entered)
  IN IF \/ k >= before \/ Lesson[k].file = NoFile
        \/ k # draft /\ Lesson[k].id \notin p.completed
        \/ edited.missing
     THEN sources
     ELSE [sources EXCEPT ![Lesson[k].file] = edited.text]

StepSources(p, before, draft) ==
  FoldLeft(LAMBDA sources, k : AfterStep(p, before, draft, sources, k),
           SourceOf, [k \in DOMAIN Lesson |-> k])

BuiltSources(p) == StepSources(p, NoStep, NoStep)

WithFreeEdits(p) == Spread(BuiltSources(p), p.freeEdits)

step == Lesson[StepIndex(progress)]
values == drafts[step.id]
AllFilled == \A b \in step.blanks : IsBlankFilled(b, values[b.id])

BaseSource ==
  IF step.file = NoFile THEN <<>>
  ELSE StepSources(progress, StepIndex(progress), NoStep)[step.file]

CodeView == BuildStepCodeView(BaseSource, step)
HasCode == step.file # NoFile /\ ~CodeView.missing

\* A chip of the code that is shown as wrong.
MarkedWrong(b) == status = "wrong" /\ ~IsBlankCorrect(b, values[b.id])

PreviewSources ==
  CASE progress.mode = "free" -> WithFreeEdits(progress)
    [] progress.mode = "step" /\ step.file # NoFile /\ AllFilled ->
         StepSources(progress, NoStep, StepIndex(progress))
    [] OTHER -> BuiltSources(progress)

-----------------------------------------------------------------------------

OpenLab(item) ==
  /\ progress = LoadProgress(item)
  /\ drafts = Drafts(progress.answers)
  /\ status = "idle"
  /\ stored = IF CanStore THEN Stored(progress) ELSE item

StudentInit == \E item \in Old \cup {NothingStored, Unreadable} : OpenLab(item)

\* The effect that follows every change of progress saves it.
Change(p) == progress' = p /\ SaveProgress(p)

\* Dots, back, next, and the button that skips a step whose place is gone.
GoToStep(k) ==
  /\ Change([progress EXCEPT !.mode = "step", !.stepIndex = k])
  /\ status' = "idle" /\ UNCHANGED drafts

\* A mutant: the verdict stays.
ChangeValueKeepingVerdict(b, value) ==
  /\ progress.mode = "step" /\ HasCode
  /\ drafts' = [drafts EXCEPT ![step.id][b.id] = value]
  /\ UNCHANGED <<progress, status, stored>>

\* What the input under the code offers for a blank.
Entries(b) == IF b.kind = "choice" THEN b.options ELSE Typed[b.id]

HandleChangeValue(b, value) ==
  /\ progress.mode = "step" /\ HasCode
  /\ drafts' = [drafts EXCEPT ![step.id][b.id] = value]
  /\ status' = "idle"
  /\ UNCHANGED <<progress, stored>>

\* The button that checks is there until the step is completed, and can be
\* pressed when every blank is filled.
OffersCheck ==
  /\ progress.mode = "step" /\ HasCode /\ AllFilled
  /\ status # "correct" /\ ~(step.id \in progress.completed /\ status = "idle")

HandleCheck ==
  /\ OffersCheck
  /\ IF \A b \in step.blanks : IsBlankCorrect(b, values[b.id])
     THEN /\ Change([progress EXCEPT !.answers = Spread(@, [id \in {step.id} |-> values]),
                                     !.completed = @ \cup {step.id}])
          /\ status' = "correct"
     ELSE status' = "wrong" /\ UNCHANGED <<progress, stored>>
  /\ UNCHANGED drafts

SetMode(mode) ==
  /\ Change([progress EXCEPT !.mode = mode])
  /\ status' = "idle" /\ UNCHANGED drafts

HandleResetAll ==
  /\ Change(EmptyProgress)
  /\ drafts' = Drafts(EmptyProgress.answers) /\ status' = "idle"

HandleChangeFreeSource(f, source) ==
  /\ progress.mode = "free"
  /\ Change([progress EXCEPT !.freeEdits = Spread(@, [g \in {f} |-> source])])
  /\ UNCHANGED <<drafts, status>>

HandleResetFreeFile(f) ==
  /\ progress.mode = "free"
  /\ Change([progress EXCEPT !.freeEdits = Restrict(@, DOMAIN @ \ {f})])
  /\ UNCHANGED <<drafts, status>>

\* The tab is loaded anew: what was not checked is gone.
Reload ==
  LET p == LoadProgress(stored)
  IN /\ Change(p)
     /\ drafts' = Drafts(p.answers) /\ status' = "idle"

StudentNext ==
  \/ \E k \in DOMAIN Lesson : GoToStep(k)
  \/ \E b \in step.blanks :
       \E value \in Entries(b) : HandleChangeValue(b, value)
  \/ HandleCheck \/ HandleResetAll \/ Reload
  \/ \E mode \in {"step", "free"} : SetMode(mode)
  \/ \E f \in File :
       \/ HandleResetFreeFile(f)
       \/ \E source \in FreeSource[f] : HandleChangeFreeSource(f, source)

StudentSpec == StudentInit /\ [][StudentNext]_studentVars

-----------------------------------------------------------------------------

\* LabPage.tsx, StepPanel.tsx: a step that is called correct is completed with
\* the values on show, and one that is called wrong has a blank marked as wrong,
\* whatever was changed, reset or left since it was checked.
VerdictIsAboutTheValuesShown ==
  /\ status = "correct" => /\ step.id \in progress.completed
                           /\ progress.answers[step.id] = values
  /\ status = "wrong" => \E b \in step.blanks : MarkedWrong(b)
=============================================================================
