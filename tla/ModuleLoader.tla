----------------------------- MODULE ModuleLoader -----------------------------
(***************************************************************************)
(* How the Lab's preview makes components of the code of a student         *)
(* (compileStudent.ts, moduleLoader.ts): each file is compiled on its own, *)
(* then the files run in order, and a file that imports another runs that  *)
(* one first.  The exports of a file are in a cache before it runs, so     *)
(* that files may import each other; a file that fails is replaced by the  *)
(* built-in one, but who imported it meanwhile keeps what he was given.    *)
(*                                                                         *)
(* Parses and Imports stand for Sucrase and the JavaScript engine: they    *)
(* know the tokens that open and close strings and JSX, import, export and *)
(* throw, and take every other token for correct code.                     *)
(***************************************************************************)
EXTENDS Naturals, FiniteSets, SequencesExt

CONSTANTS StudentModules,  \* STUDENT_MODULE_NAMES, in order
          HostModules,     \* specifiers of modules that are lent
          ImportOf,        \* the specifier each import token asks for
          ForbiddenWord    \* tokens like fetch( and axios

Module == ToSet(StudentModules)

ASSUME HostsAreOthers == HostModules \cap Module = {}
ASSUME FilesAreListed == StudentModules \in Seq(STRING)

-----------------------------------------------------------------------------
(* compileStudentTsx. *)

\* Within JSX text only its closing tag may follow; within a string the quote
\* that ends it.
Scan(mode, t) ==
  CASE mode = "code" -> (CASE t = "\"" -> "string" [] t = "<span>" -> "jsx" [] OTHER -> "code")
    [] mode = "string" ->
         (CASE t = "\"" -> "code" [] t = "\\" -> "escaped" [] t = "\n" -> "broken" [] OTHER -> "string")
    [] mode = "escaped" -> "string"
    [] mode = "jsx" ->
         (CASE t = "</span>" -> "code" [] t \in {"{", "}", "<", ">"} -> "broken" [] OTHER -> "jsx")
    [] mode = "broken" -> "broken"

Parses(source) == FoldLeft(Scan, "code", source) = "code"

HasForbiddenWord(source) == \E i \in DOMAIN source : source[i] \in ForbiddenWord

\* A forbidden word is refused wherever it stands, in a text of the page as well.
Compiles(source) == ~HasForbiddenWord(source) /\ Parses(source)

\* Imports are hoisted, in order; one that may not be made throws, and so may
\* the code that follows them.
IsImport(token) == token \in DOMAIN ImportOf
Refused(source) ==
  {i \in DOMAIN source : IsImport(source[i]) /\ ImportOf[source[i]] \notin Module \cup HostModules}
Imports(source) ==
  SubSeq(source, 1, IF Refused(source) = {} THEN Len(source) ELSE Min(Refused(source)) - 1)
HasDefault(source) == Contains(source, "export default")
Throws(source) == Refused(source) # {} \/ Contains(source, "throw")

-----------------------------------------------------------------------------
(* loadStudentModules.  "held" is what each import was given. *)

NotCached == "not cached"
Exports == "exports"
Builtin == "builtin"
Box == {NotCached, Exports, Builtin}

Loader == [cache : [Module -> Box],
           errors : SUBSET [file : Module, why : {"run", "default"}],
           held : SUBSET [by : Module, of : Module, box : Box]]

Started == [cache |-> [name \in Module |-> NotCached], errors |-> {}, held |-> {}]
Cached(st, name, box) == [st EXCEPT !.cache[name] = box]
Report(st, name, why) == [st EXCEPT !.errors = @ \cup {[file |-> name, why |-> why]}]
Given(st, by, of) == [st EXCEPT !.held = @ \cup {[by |-> by, of |-> of, box |-> st.cache[of]]}]

\* A mutant: the box of the failed file stays in the cache.
FailsKeepingBox(st, name) == Report(st, name, "run")

Fails(st, name) == Cached(Report(st, name, "run"), name, Builtin)

\* One token of a file that runs; load is what require calls.
Require(load, name, st, token) ==
  IF IsImport(token) /\ ImportOf[token] \in Module
  THEN Given(load[ImportOf[token]][st], name, ImportOf[token])
  ELSE st

RunFile(load, name, source, st) ==
  LET ran == FoldLeft(LAMBDA sofar, token : Require(load, name, sofar, token), st, Imports(source))
  IN IF Throws(source) THEN Fails(ran, name) ELSE ran

\* load(name), with as many more calls inside of it as depth says.
LoadWithin(code, depth, load, name, st) ==
  IF st.cache[name] # NotCached THEN st
  ELSE IF name \notin DOMAIN code THEN Cached(st, name, Builtin)
  ELSE IF depth = 0 THEN st
  ELSE RunFile(load, name, code[name], Cached(st, name, Exports))

\* A file is in the cache before its code runs, so no more files can be running
\* than there are.
LoadFile(code) ==
  LET within[depth \in Nat] ==
        [name \in Module |-> [st \in Loader |->
           LoadWithin(code, depth, within[depth - 1], name, st)]]
  IN within[Cardinality(Module)]

\* The table of components: a file without a default export is not used, but
\* stays in the cache.
LoadNext(code, sofar, name) ==
  LET st == LoadFile(code)[name][sofar.loader]
      unusable == st.cache[name] = Exports /\ ~HasDefault(code[name])
  IN [loader |-> IF unusable THEN Report(st, name, "default") ELSE st,
      modules |-> [sofar.modules EXCEPT ![name] = IF unusable THEN Builtin ELSE st.cache[name]]]

LoadStudentModules(code) ==
  FoldLeft(LAMBDA sofar, name : LoadNext(code, sofar, name),
           [loader |-> Started, modules |-> Started.cache], StudentModules)

\* applySources: what is refused or does not parse is reported and not loaded.
ApplySources(sources) ==
  LET compiled == {name \in Module : Compiles(sources[name])}
      loaded == LoadStudentModules([name \in compiled |-> sources[name]])
  IN [modules |-> loaded.modules, held |-> loaded.loader.held,
      errors |-> loaded.loader.errors
                   \cup {[file |-> name, why |-> "compile"] : name \in Module \ compiled}]
=============================================================================
