------------------------------- MODULE LabCode -------------------------------
(***************************************************************************)
(* The Lab from what a student enters to the components on show: the code  *)
(* LabSteps builds is compiled and loaded by ModuleLoader.  What LabPreview *)
(* calls a source, and the errors it has, is what is computed here.        *)
(***************************************************************************)
EXTENDS LabSteps, ModuleLoader

ASSUME ModulesAreFiles == Module \subseteq File

Preview == ApplySources(PreviewSources)

\* labState.ts, lab/README.md: whatever is entered in the blanks of whichever
\* steps, completed or not, the code built of the steps alone runs without an
\* error and every component on show is built of it, unless an answer holds a
\* word that compileStudent.ts forbids.
StepsNeverBreakCode ==
  progress.mode = "step" =>
    LET sources == PreviewSources
        shown == ApplySources(sources).modules
    IN \A name \in Module : shown[name] = Exports \/ HasForbiddenWord(sources[name])

\* StepPanel.tsx shows the step's code line by line with the values in its
\* blanks; labState.ts applies the step by its other way.  The two agree in
\* every line and its number, and in whether the step has a place in the code.
ViewShowsWhatIsApplied ==
  step.file # NoFile =>
    LET view == CodeView
        applied == ApplyStepEdits(BaseSource, step, values)
        appliedLines == Lines(applied.text, NewLine)
    IN /\ view.missing = applied.missing
       /\ \A line \in view.lines :
            FillTemplate(line.segments, step.blanks, values) = appliedLines[line.number]

\* moduleLoader.ts, previewBridge.ts: a component is the built-in one just when
\* an error about its file is reported, and a file that was given something else
\* than what the table holds for a file it imports can be explained by an error
\* about that file.
FallbacksAreExplained ==
  LET preview == Preview
      reported == {e.file : e \in preview.errors}
  IN /\ \A name \in Module : preview.modules[name] = Builtin <=> name \in reported
     /\ \A h \in preview.held : h.box # preview.modules[h.of] => h.of \in reported
=============================================================================
