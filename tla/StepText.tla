------------------------------- MODULE StepText -------------------------------
(***************************************************************************)
(* The texts of the Lab's lessons (labState.ts): blanks, the escaping of   *)
(* what a student enters, the edits of a step, and the view of the code    *)
(* with its blanks.  A text is a sequence of tokens; what tells a value    *)
(* from code, quotes, braces and newlines, is a token of its own.          *)
(*                                                                         *)
(* A template is a sequence of pieces, tokens and blanks; a step has an    *)
(* id, a file (or NoFile), a sequence of edits and a set of blanks.        *)
(***************************************************************************)
EXTENDS Naturals, SequencesExt

CONSTANTS NoFile,        \* the file of the step that starts free editing
          NoAnswer,      \* a blank any answer of which is right
          Color,         \* texts of the form #rrggbb
          ContextLines   \* lines shown around the blanks

ASSUME ContextIsANumber == ContextLines \in Nat

Text == Seq(STRING)

NewLine == "\n"
Quote == "\""
Backslash == "\\"
Space == " "

\* What means something in JSX text, and what it becomes.
Wide == [c \in {"{", "}", "<", ">", "</span>"} |->
           CASE c = "{" -> "wide {" [] c = "}" -> "wide }"
             [] c = "<" -> "wide <" [] c = ">" -> "wide >" [] c = "</span>" -> "wide </span>"]

\* Every literal is a string; no more than that is assumed of one.
ASSUME LiteralsAreStrings ==
  /\ \A t \in {NewLine, Quote, Backslash, Space} : t \in STRING
  /\ \A c \in DOMAIN Wide : Wide[c] \in STRING

Token(t) == [is |-> "text", text |-> t]
BlankAt(id) == [is |-> "blank", id |-> id]
Piece == [is : {"text"}, text : STRING] \cup [is : {"blank"}, id : STRING]
IsBlank(piece) == piece.is = "blank"

JsxText(value) ==
  [i \in DOMAIN value |->
     IF value[i] \in DOMAIN Wide THEN Wide[value[i]]
     ELSE IF value[i] = NewLine THEN Space ELSE value[i]]

\* A mutant: the backslash is forgotten.
StringTextOfQuotes(value) ==
  FlattenSeq([i \in DOMAIN value |->
    IF value[i] = Quote THEN <<Backslash, Quote>>
    ELSE IF value[i] = NewLine THEN <<Space>> ELSE <<value[i]>>])

StringText(value) ==
  FlattenSeq([i \in DOMAIN value |->
    IF value[i] \in {Backslash, Quote} THEN <<Backslash, value[i]>>
    ELSE IF value[i] = NewLine THEN <<Space>> ELSE <<value[i]>>])

EscapeBlankValue(blank, value) ==
  CASE blank.escape = "jsx-text" -> JsxText(value)
    [] blank.escape = "string" -> StringText(value)
    [] blank.escape = "none" -> value

DefaultBlankValue(blank) == IF blank.kind = "choice" THEN <<>> ELSE blank.default

IsBlankFilled(blank, value) ==
  CASE blank.kind = "choice" -> value \in blank.options
    [] blank.kind = "color" -> value \in Color
    [] blank.kind = "text" -> Len(value) <= blank.maxLength

IsBlankCorrect(blank, value) ==
  IsBlankFilled(blank, value) /\ blank.answer \in {NoAnswer, value}

\* values may lack a blank that the lesson got since they were saved.
ValueOf(blank, values) ==
  IF blank.id \in DOMAIN values THEN values[blank.id] ELSE DefaultBlankValue(blank)

\* One piece of a template; a blank the step does not have is left out.
Fill(piece, blanks, values) ==
  IF ~IsBlank(piece) THEN <<piece.text>>
  ELSE FlattenSeq(SetToSeq({EscapeBlankValue(b, ValueOf(b, values)) :
                              b \in {c \in blanks : c.id = piece.id}}))

FillTemplate(template, blanks, values) ==
  FlattenSeq([i \in DOMAIN template |-> Fill(template[i], blanks, values)])

\* indexOf: 0 when the text does not hold it.
IndexOf(text, part) ==
  LET at == {i \in 1..(Len(text) + 1 - Len(part)) : SubSeq(text, i, i + Len(part) - 1) = part}
  IN IF at = {} THEN 0 ELSE CHOOSE i \in at : \A j \in at : i <= j

Missing == [missing |-> TRUE, text |-> <<>>]
Found(text) == [missing |-> FALSE, text |-> text]

\* The first place where find is found holds put instead.
AfterEdit(sofar, e) ==
  LET i == IndexOf(sofar.text, e.find)
  IN IF sofar.missing \/ i = 0 THEN Missing
     ELSE Found(SubSeq(sofar.text, 1, i - 1) \o e.put
                \o SubSeq(sofar.text, i + Len(e.find), Len(sofar.text)))

\* Edits one after the other, each applied to the result of those before.
AfterEdits(text, edits) == FoldLeft(AfterEdit, Found(text), edits)

ApplyStepEdits(text, step, values) ==
  LET filled(e) == [find |-> e.find, put |-> FillTemplate(e.replace, step.blanks, values)]
  IN AfterEdits(text, [i \in DOMAIN step.edits |-> filled(step.edits[i])])

Pieces(text) == [i \in DOMAIN text |-> Token(text[i])]

\* The code of a step, its blanks still in it.
Marked(text, step) ==
  LET marking(e) == [find |-> Pieces(e.find), put |-> e.replace]
  IN AfterEdits(Pieces(text), [i \in DOMAIN step.edits |-> marking(step.edits[i])])

\* split("\n")
Lines(text, newline) ==
  FoldLeft(LAMBDA lines, p : IF p = newline THEN Append(lines, <<>>)
                             ELSE [lines EXCEPT ![Len(lines)] = Append(@, p)],
           << <<>> >>, text)

\* The lines from ContextLines before the first blank to as many after the last.
View(lines, number) ==
  LET blankLines == {n \in DOMAIN lines : \E i \in DOMAIN lines[n] : IsBlank(lines[n][i])}
      near(n) == \/ \E b, c \in blankLines : b <= n + ContextLines /\ n <= c + ContextLines
                 \/ blankLines = {} /\ n <= 1 + ContextLines
  IN {[number |-> number[n], segments |-> lines[n]] : n \in {k \in DOMAIN lines : near(k)}}

\* A mutant: the numbers of the lines are those of an array.
BuildStepCodeViewFromZero(text, step) ==
  LET marked == Marked(text, step)
      lines == Lines(marked.text, Token(NewLine))
  IN [missing |-> marked.missing,
      lines |-> IF marked.missing THEN {} ELSE View(lines, [n \in DOMAIN lines |-> n - 1])]

\* The code of a step with its blanks, or that an edit does not find its place.
BuildStepCodeView(text, step) ==
  LET marked == Marked(text, step)
      lines == Lines(marked.text, Token(NewLine))
  IN [missing |-> marked.missing,
      lines |-> IF marked.missing THEN {} ELSE View(lines, [n \in DOMAIN lines |-> n])]
=============================================================================
