------------------------------ MODULE LabLesson ------------------------------
(***************************************************************************)
(* When the lesson is in order: what lab/lessons/steps.ts, which a teacher  *)
(* edits, has to keep to for the Lab to keep its promises.  Every condition *)
(* is on the constants, so TLC evaluates it once for an instance; LabProofs *)
(* takes them as the hypotheses of its theorems.                           *)
(***************************************************************************)
EXTENDS LabCode

-----------------------------------------------------------------------------
(* What is entered. *)

\* The blanks whose values go into the code as they are, by step and blank.
Unescaped == UNION {{<<s.id, b.id>> : b \in {c \in s.blanks : c.escape = "none"}} : s \in Steps}
Everywhere(S) == [p \in Unescaped |-> S]

\* The values of such a blank are of U, those of any other are of E.
Kind(E, U, id, x) == IF <<id, x>> \in Unescaped THEN U[<<id, x>>] ELSE E
AllOf(E, U, id, entered) == \A x \in DOMAIN entered : entered[x] \in Kind(E, U, id, x)
AnswersIn(E, U, answers) == \A id \in DOMAIN answers : AllOf(E, U, id, answers[id])

\* The lesson's defaults, what a student may enter and what was saved are so.
LessonEnters(E, U) ==
  /\ \A s \in Steps : \A b \in s.blanks :
       /\ DefaultBlankValue(b) \in Kind(E, U, s.id, b.id)
       /\ \A value \in Entries(b) : value \in Kind(E, U, s.id, b.id)
  /\ \A item \in Old : item.is = "progress" /\ "answers" \in DOMAIN item.progress
                        => AnswersIn(E, U, item.progress.answers)

\* What a blank offers, of those whose values go into the code as they are: the
\* values the lesson prepares (types.ts:20).
Offers ==
  [p \in Unescaped |->
     UNION {UNION {{DefaultBlankValue(b)} \cup Entries(b) : b \in {c \in s.blanks : <<s.id, c.id>> = p}} :
              s \in Steps}]

\* Texts of one line, as an input holds them.
Plain == STRING \ {NewLine}
OneLine == Seq(Plain)

\* What escaping puts in a value.
EscapesWith(S) ==
  /\ Backslash \in S /\ Quote \in S /\ Space \in S
  /\ \A c \in DOMAIN Wide : Wide[c] \in S

-----------------------------------------------------------------------------
(* Templates with their blanks still in them. *)

ScanMode == {"code", "string", "escaped", "jsx", "broken"}

\* The mode Sucrase is in after a text.
ScanFrom(mode, text) == FoldLeft(Scan, mode, text)

\* A blank may stand where its values leave Sucrase as it is: one escaped for a
\* text of the page in such a text, one escaped for a string in a string.
Stands(s, b, mode) ==
  \/ b.escape = "jsx-text" /\ mode = "jsx"
  \/ b.escape = "string" /\ mode = "string"
  \/ b.escape = "none" /\ \A value \in Offers[<<s.id, b.id>>] : ScanFrom(mode, value) = mode

ReadPiece(s, mode, piece) ==
  IF ~IsBlank(piece) THEN Scan(mode, piece.text)
  ELSE IF \A b \in s.blanks : b.id = piece.id => Stands(s, b, mode) THEN mode ELSE "broken"

ReadFrom(s, mode, template) ==
  FoldLeft(LAMBDA m, piece : ReadPiece(s, m, piece), mode, template)

-----------------------------------------------------------------------------
(* A lesson whose steps keep the code running. *)

\* What does not stop a file that runs: no throw, and no import but of what there is.
Harmless == {t \in STRING : t # "throw" /\ (IsImport(t) => ImportOf[t] \in Module \cup HostModules)}
Calm == Seq(Harmless)

\* Code that compiles unless it holds a forbidden word, and runs to its default export.
Runs == {text \in Calm : Parses(text) /\ HasDefault(text)}

\* Steps that edit a file that is compiled; a style sheet is not.
StepsOfCode == {s \in Steps : s.file \in Module}

\* Built-in code that runs, and values and templates that hold nothing that stops
\* a file: only the places of the edits still matter.
LessonIsSound ==
  /\ \A f \in Module : SourceOf[f] \in Runs
  /\ EscapesWith(Harmless)
  /\ LessonEnters(Calm, Offers)
  /\ \A p \in Unescaped : Offers[p] \subseteq Calm
  /\ \A s \in StepsOfCode : \A e \in ToSet(s.edits) :
       /\ ~HasDefault(e.find)
       /\ \A i \in DOMAIN e.replace : IsBlank(e.replace[i]) \/ e.replace[i].text \in Harmless

\* anchor: tokens that stand in the code in one mode only, a heading or a tag.
Anchored(anchor, mode, text) ==
  \A i \in DOMAIN text :
    text[i] \in DOMAIN anchor => ScanFrom(mode, SubSeq(text, 1, i - 1)) = anchor[text[i]]

MarksInPlace(anchor, s, mode, template) ==
  \A i \in DOMAIN template :
    ~IsBlank(template[i]) /\ template[i].text \in DOMAIN anchor =>
      ReadFrom(s, mode, SubSeq(template, 1, i - 1)) = anchor[template[i].text]

\* Nothing that is entered holds one of them, escaping makes none, the built-in
\* code has them in their modes, and whatever an edit looks for holds one: found
\* in that mode, its place is taken by a template that leaves Sucrase as what was
\* there does and has the tokens in their modes again.
Unmarked(anchor) == Harmless \ DOMAIN anchor

IsAnchored(anchor) ==
  /\ EscapesWith(Unmarked(anchor))
  /\ LessonEnters(Seq(Unmarked(anchor)), Offers)
  /\ \A p \in Unescaped : Offers[p] \subseteq Seq(Unmarked(anchor))
  /\ \A f \in Module : Anchored(anchor, "code", SourceOf[f])
  /\ \A s \in StepsOfCode : \A e \in ToSet(s.edits) :
       \E a \in DOMAIN e.find :
         /\ e.find[a] \in DOMAIN anchor
         /\ \A mode \in ScanMode :
              ScanFrom(mode, SubSeq(e.find, 1, a - 1)) = anchor[e.find[a]] =>
                /\ ReadFrom(s, mode, e.replace) = ScanFrom(mode, e.find)
                /\ MarksInPlace(anchor, s, mode, e.replace)
=============================================================================
