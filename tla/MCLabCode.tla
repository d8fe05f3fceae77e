------------------------------ MODULE MCLabCode ------------------------------
(* The steps "view-label" and "new-badge" of the lesson, one a teacher added   *)
(* that edits the place of "view-label", and free editing, over two files that *)
(* import each other; texts made to break the code, and programs that do not   *)
(* parse, fail, or import what they may not.                                   *)
EXTENDS LabLesson

VideoCardSource ==
  <<"import react", NewLine, "function formatViewCount {", NewLine, "return String(count)",
    NewLine, "}", NewLine, "export default", NewLine, "<span>", "{count}", "views",
    "</span>", NewLine, "}">>

CommentItemSource == <<"import VideoCard", NewLine, "export default">>

Sources == "VideoCard" :> VideoCardSource @@ "CommentItem" :> CommentItemSource

TextBlank(id, escape, default) ==
  [id |-> id, kind |-> "text", options |-> {}, answer |-> NoAnswer,
   default |-> default, escape |-> escape, maxLength |-> 2]

ChoiceBlank(id, options, answer) ==
  [id |-> id, kind |-> "choice", options |-> options, answer |-> answer,
   default |-> <<>>, escape |-> "none", maxLength |-> 2]

ViewLabel ==
  [id |-> "view-label", file |-> "VideoCard",
   edits |-> <<[find |-> <<"<span>", "{count}", "views", "</span>">>,
                replace |-> <<Token("<span>"), Token("{count}"), BlankAt("word"), Token("</span>")>>]>>,
   blanks |-> {TextBlank("word", "jsx-text", <<"views">>)}]

NewBadge ==
  [id |-> "new-badge", file |-> "VideoCard",
   edits |-> <<[find |-> <<"function formatViewCount {", NewLine>>,
                replace |-> <<Token("function formatViewCount {"), Token(NewLine),
                              Token("if (count"), BlankAt("op"), Token("100) return"),
                              Token(Quote), BlankAt("label"), Token(Quote), Token(NewLine)>>]>>,
   blanks |-> {ChoiceBlank("op", {<<"<">>, <<">=">>}, <<"<">>),
               TextBlank("label", "string", <<"NEW">>)}]

SamePlace ==
  [id |-> "same-place", file |-> "VideoCard",
   edits |-> <<[find |-> <<"views", "</span>">>,
                replace |-> <<Token("views"), Token("</span>"), Token(NewLine),
                              Token("<span>"), BlankAt("content"), Token("</span>")>>]>>,
   blanks |-> {ChoiceBlank("content", {<<"{likes}">>}, NoAnswer)}]

Free == [id |-> "free", file |-> NoFile, edits |-> <<>>, blanks |-> {}]

TheLesson == <<ViewLabel, NewBadge, SamePlace, Free>>

TypedTexts == "word" :> {<<"views">>, <<"<", "{">>}
           @@ "label" :> {<<"NEW">>, <<Quote, Backslash>>, <<"axios">>}

FreeTexts ==
  "VideoCard" :> {<<"export default", "<span>", "{">>,
                  <<"import CommentItem", "export default", "throw">>,
                  <<"import CommentItem">>}
  @@ "CommentItem" :> {<<"import VideoCard", "import lodash", "export default">>,
                       <<"import VideoCard", "export default", "throw">>}

ImportTokens == "import react" :> "react" @@ "import VideoCard" :> "VideoCard"
             @@ "import CommentItem" :> "CommentItem" @@ "import lodash" :> "lodash"

\* Saved with an earlier lesson: no mode, more steps, a file that is gone, a step
\* without the blank it has now.
OldProgress ==
  {Stored([stepIndex |-> 9, completed |-> {"view-label", "gone-step"},
           answers |-> "view-label" :> [b \in {} |-> <<>>],
           freeEdits |-> "Gone" :> <<"export default">>])}

FilesInOrder == <<"VideoCard", "CommentItem">>

\* Every value that is not escaped is of one line; the lesson is in order, and its
\* edits look for headings and tags that stand in one mode only.
ASSUME LinesAreEntered == LessonEnters(Text, Everywhere(OneLine))
ASSUME TheLessonIsSound == LessonIsSound
ASSUME TheLessonIsAnchored ==
  IsAnchored("<span>" :> "code" @@ "</span>" :> "jsx" @@ "function formatViewCount {" :> "code")
=============================================================================
