# Formal models of the video sharing system

The program is a video site for a classroom: a Go server (`server/`) over
PostgreSQL and a video store (disk or Vercel Blob), a React front
(`front/`), and in it the *Lab*, where students edit the code of the very site
they are looking at. This directory holds TLA+ modules for the parts whose
correctness depends on the order in which things happen, TLC configurations
that check them on small instances, and TLAPS proofs of the results that matter
most, for every value of the constants.

Contents: [1 inventory](#1-inventory) · [2 modules](#2-modules-and-the-code-they-model)
· [3 runs](#3-runs-bounds-and-fairness) · [4 proofs](#4-proofs) ·
[5 disagreements with documents](#5-where-the-code-and-its-documents-disagree)
· [6 limits](#6-what-is-not-modelled) · [7 plan](#7-plan)

## 1 Inventory

### Server (`server/internal`)

| part | state it keeps | operations | made hard by | correct when |
|---|---|---|---|---|
| Engagement: `repository/like.go`, `comment.go`, `service/like.go`, `comment.go`, `video_read.go` | rows of `video_likes` and `comments`; `videos.like_count`, `comment_count` | put and remove a like; post and erase a comment; read them | each request is a transaction at READ COMMITTED, of two to four statements, after an access check outside of it; the video or the user may be deleted in between; counters are never recomputed | a counter is the number of its rows, a success is truthful, nobody waits for ever |
| Accounts: `service/auth.go`, `user.go`, `repository/session.go`, `user.go`, `middleware/auth.go` | `users`, `sessions` | register, log in, log out, create, patch and delete users, delete expired sessions | no transaction spans a user and his sessions; a login spends most of its time in bcrypt between reading the user and inserting the session; errors of the second statement are dropped | sessions older than a change of their user do not survive it unnoticed; nobody else's are ended; deleted users stay deleted |
| Video files: `service/video_mutations.go`, `storage/`, `service/stream.go`, `streaming/` | rows of `videos`; files, `.part` files, blobs | upload through the API, direct upload and registration, delete, stream | row and object are tied by no transaction; crashes, lost commits, storage errors | acknowledged videos play; only deleted videos lose their object |
| View counter: `service/stream.go` | a map in memory, `videos.view_count` | count a stream request, prune | concurrent Range requests, a bounded map that forgets, restarts, an UPDATE after the mutex | views of a viewer are apart; only repetitions are skipped |
| Rate limiter: `ratelimit/limiter.go` | a map of timestamps | `Allow` | the clock is read before the mutex is taken, so timestamps enter out of order | never more than the limit in a window; refusals are deserved |
| Listing and search: `service/video_list.go`, `repository/video.go` | none | pages of videos, comments, users with their totals | a page and its total are two statements; 32-bit offsets | (filters of videos in Pages, paging planned) |
| Upload tokens, middleware, handlers, validation, router | none | authenticate, decode, validate, answer | – | stateless |
| Start: `cmd/api/main.go`, `config`, `db` | `schema_migrations` | read configuration, apply migrations, start the session cleaner | servers that start together | (migrations planned) |

### Front (`front/src`)

| part | state it keeps | operations | made hard by | correct when |
|---|---|---|---|---|
| Like button: `hooks/useLike.ts`, `hooks/useVideoDetail.ts`, `services/api.ts` | what the page shows; the number it was given | load the state and the video, toggle, go to another video | requests and answers in any order, or lost; the address changes under the hook | a settled page shows what the server has |
| Upload dialogue: `components/internal/UploadModal.tsx`, `hooks/useVideoUpload.ts` | what the dialogue shows, where each submission is | choose, submit, close, open again, retry; direct upload, registration | closing aborts nothing; the answer of a registration may be lost or come to a dialogue opened since | success means a video of that submission; and see video files |
| Pages: `HomePage`, `ChannelPage`, `WatchPage`, `hooks/useComments.ts`, `useVideos.ts`, `useVideoDetail.ts`, `useVideoDelete.ts` | the list, the video, the comments, flags for what is under way | navigate, load, post a comment, delete a video | a page whose address changes is not mounted again: its hooks keep their state while answers for the address before are under way | what is shown belongs to the address; a settled page shows what the server has; nothing waits for ever |
| Session: `hooks/useAuth.ts`, `LoginPage`, `RegisterPage`, `LoginModal.tsx`, `Header.tsx`, `Layout.tsx` | the user, once in the layout and again on watch and channel pages; the forms; the cookie | `/auth/me`, register, log in, log out; open, close, leave, reload | a request carries the cookie of its sending, the cookie changes with the headers and the page with the body of an answer, and a form may be gone by then | a settled page shows the user of the browser's session; forms wait only for their own request; no session is left behind |
| Lab page and preview: `lab/LabPage.tsx`, `components/PreviewFrame.tsx`, `runtime/previewBridge.ts`, `labMessages.ts`, `StudentSlots.tsx` | progress, drafts, error list; timers and flags; what the iframe runs; a mark in `sessionStorage` | edit, run, reset, reload, navigate in the preview, try again | two windows talk by messages; student code may crash or loop for ever and freeze both | the preview catches up, shows its errors, and safe mode is safe |
| Lab loader: `runtime/compileStudent.ts`, `moduleLoader.ts`, `studentRegistry.ts` | the cache of exports | check for forbidden words, compile and load the files | imports in a circle, files that fail half-way and are replaced while others hold what they had | every component is the student's unless an error about it is shown |
| Lab progress and lessons: `labState.ts`, `lessons/steps.ts`, `components/StepPanel.tsx`, `FreePanel.tsx` | mode, step, answers, drafts, verdict, `localStorage` | enter a value, check, go to a step, edit freely, reset, save, load | two algorithms build what is shown and what is run; answers become code; saved data of an older lesson | answers never break the code; the view shows what is run; verdicts are about the values on show |

### Interactions

* Every request of the server starts in `middleware/auth.go`: the session is
  looked up once, and the user id and role are used until the request ends. In
  Engagement, Uploads and Accounts they are fixed when the request is received.
* `RequireAccessibleVideo` and `CanAccessVideo` decide for likes, comments and
  streams. Soft deletion of a video is one UPDATE with which likes, comments and
  streams race (Engagement, Uploads).
* The view counter runs at the start of every stream request, before the file
  is opened (ViewDedupe for the first part, Uploads for the second).
* The like button talks to the like handlers; LikeButton takes each like as one
  indivisible step, which is what Engagement is shown to implement.
* The pages call the list, detail, comment and delete handlers. Pages takes each
  as one indivisible step too, for the same reason.
* The forms of the front call the handlers of `/auth`; Session takes each handler
  as one indivisible step. What may come between their statements, and the
  expiry of sessions, is in Accounts.
* The upload dialogue drives the server's uploads: UploadModal extends Uploads
  with the tab, and is shown to take only its steps.
* LabPage builds sources from the answers (LabSteps), sends them to the preview
  (LabPreview), which compiles and loads them (ModuleLoader). LabCode composes
  the first and the last; what LabPreview takes as the constants of a source is
  what LabCode computes.
* Rate limiters stand before login and registration, uploads and comments. They
  only refuse, so the other models leave a client free to be refused at the door.

## 2 Modules and the code they model

An action is one statement of the database, one critical section, one task of
the browser's event loop, or one message delivered; what the code does between
two of them touches nothing shared. Operators keep the names of the functions.
Operators announced by "Mutated" or "A mutant" are plausible bugs, kept beside
the definition they would replace: each property is known to fail with one.

* **Engagement** models the transactions of likes and comments statement by
  statement. A *worker* is a request with its connection; `pc` is the next
  statement, `did` and `pending` its uncommitted row and counter. PostgreSQL is
  modelled from how the statements use it: row locks held to the end of the
  transaction, `ON CONFLICT DO NOTHING` that waits for an uncommitted row, a
  blocked DELETE that goes on when the other transaction rolls back or finds
  its row gone, and UPDATEs that look again at their WHERE clause. Status
  changes and deletions of the video, the deletion of users, aborts and
  rollbacks occur between any two statements.
  **EngagementAbstract** is the promise: a row and its counter change in one
  step. `PromiseKept` is the refinement, with the identity as its mapping: only
  committed tables are visible.
* **Accounts** models users, sessions, logins and PATCH/DELETE requests. A
  *version* of a user counts the changes of password, role and `is_active`; a
  login carries the version it read. Tokens and hashes are identities.
* **Uploads** models one stored object and its row per upload, for the three
  ways an upload takes (disk, blob through the API, blob directly from the
  browser; `way`, chosen once, since a server is configured for one), with
  deletions, streams and crashes.
  **UploadModal** adds one tab: the dialogue (`modal`), the submission it speaks
  of (`about`), and where the tab's own code is with each (`attempt`). A closed
  dialogue forgets its submission, which goes on; its answer then goes to
  nobody.
* **ViewDedupe** models `maybeBumpView`: the critical section with its pruning
  (`Skip`, `Try`), the UPDATE after it (`Increment`), restarts.
* **RateLimiter** models `Allow` in two steps: reading the clock (`ReadClock`),
  then the critical section (`Allow`, `Refuse`).
* **LikeButton** models `useLike` with the number `useVideoDetail` gives it
  (`initial`), `apiFetch` and the handlers, on a watch page that goes to another
  video without being mounted again. `excused` remembers requests that
  overlapped or were lost, `kept` a number that is shown on for another video.
* **Pages** models one tab with the home, channel and watch pages, their hooks and
  the handlers these call. `requests` holds every request from the moment it is
  made to the moment its answer arrives; `from` is the route of the rendering
  that made it, which is what its callback sees. `Navigate` to a page of the
  same kind leaves the state of the hooks and runs only their effects (`GoTo`);
  `IsCurrent` is the `cancelled` flag of an effect's cleanup, `IsMounted` what
  React ignores. useVideoDetail and useComments have the flag, useVideos does
  not. `excused` remembers whether requests of this visit overlapped in a way
  the code does not order, or failed: it separates what the code promises from
  what it leaves to chance. The user is logged in throughout and no video is
  hidden.
* **Session** models one tab and who it believes is logged in. `user` is the
  state of the layout's `useAuth`, `own` that of a watch or channel page.
  `requests` are under way from the `fetch` to the reading of the body; the
  header of an answer may set or clear the cookie before that
  (`CookieArrives`). `asker` is what the continuation of a request still finds:
  its page or its modal, one that is gone, the layout, or nothing after a reload.
  `excused`, `stale` and `left` remember what the code leaves to chance:
  overlapping requests of the layout, a login or logout the page's own hook does
  not hear of, and a login over a session.
* **StepText** has the pure functions of `labState.ts` (blanks, escapes, edits,
  the code view) over texts that are sequences of tokens, **LabSteps** the state
  machine of a student at work with them, **ModuleLoader** compiling and loading
  as functions from sources to modules, errors and what each file was given.
  Sucrase and the engine are external: which tokens open and close strings and
  JSX, import, export or throw. The loops of the code over edits, steps, lines
  and files are folds, and `load`, which calls itself through `require`, is a
  function by recursion on the number of files that may still be running
  (`LoadFile`): a file is in the cache before it runs. **LabCode** composes them.
* **LabLesson** says on the constants when a lesson is in order: what a teacher
  who edits `steps.ts` has to keep to. It is evaluated on the instance of
  `lab_code` and is a hypothesis of the proofs (section 4).
* **LabPreview** models LabPage, PreviewFrame and previewBridge. A whole set of
  student sources is one value; what compiling, loading and rendering it does
  (errors, crashes, endless loops) is given by constants. `toPreview` and
  `toParent` are the two queues of `postMessage`; `frozen` says an endless loop
  has stopped the event loop both windows share.

The modules `MC*` give the constants values for TLC; `*Proofs` hold the proofs.
Two proof modules are about two components each: **ServerMemoryProofs** about
RateLimiter and ViewDedupe, the two maps the server keeps in memory behind a
mutex, and **LabProofs** about LabPreview and LabCode with all it is made of. The definitions every
state machine has therefore have names of their own in RateLimiter (`LimiterInit`,
`LimiterNext`, `LimiterSpec`) and LabSteps (`StudentInit`, `StudentNext`,
`StudentSpec`).

## 3 Runs, bounds and fairness

| run | what it asks | bounds | why they are enough |
|---|---|---|---|
| `promise` | `LikeCountExact`, `CommentCountSound`, `DeletedVideoKeepsLikes`, `AnswerTruthful`, the refinement `PromiseKept`, `EveryRequestAnswered` | two workers at a time, any number one after the other; two users, one video, one comment; status changes, deletions | every pair of statements of two transactions interleaves, also with a deletion; more workers and videos are covered by the proofs |
| `accounts` | `OldSessionsRaced`, `OnlyOwnSessionsEnd`, `DeletedUsersStayDeleted`, `DeletedUsersLoseSessions` | a teacher and a user yet to be created, two logins, two requests | a session to authorise a request, a login that overlaps it, and a second request that overlaps the first |
| `uploads` | `AcknowledgedVideosPlay`, `PartsAreTemporary`, `OnlyDeletedObjectsAreRemoved`, `StreamsFindTheirObject`, `SuccessIsAVideo`, `ModalTypeOK` | two submissions of one tab, any of the three ways, two deletions, one viewer, one crash | a first submission goes on behind a dialogue that was reopened for a second; two deletions may be about the same video |
| `views` | `ViewsAreApart`, `SkipsAreDeserved` | three keys in a map of two, three requests of one key, one restart, clock to 4, intervals of 2 | the map overflows, entries become stale, and a third request sees what was forgotten |
| `rate_limiter` | `LimitHolds`, `RefusalsAreDeserved` | two keys, five calls, limit 2, window 4, longest wait 2, clock to 8 | a window fills, is left behind, and a late reader prunes less than an earlier one |
| `like_button` | `SettledPageShowsTheLike`, `SettledPageShowsTheNumber`, `TypeOK` | two videos, one like of others each; four clicks, navigations, losses and acts of others together | a click, a page left and come back to, and a loss; every exception the two properties make is needed within these bounds |
| `pages` | `WatchShowsItsVideo`, `NothingWaitsInVain`, `SettledListIsTheServers`, `SettledWatchIsTheServers` | two users with a video each, one of them logged in, a teacher or not; one comment; two navigations and failures in all; deletions | each page has a sibling it changes to without being mounted again and comes back from; a deletion adds a navigation of its own |
| `lab` | `SettledPreviewIsCurrent`, `NoErrorIsLost`, `SafeModeRunsNoStudentCode`, `HangWhileApplyingIsRemembered`, `PreviewCatchesUp` | sources that are unedited, fail to load, crash a slot, hang at once, hang later; four acts of the student | an edit, something that disturbs it, an edit on top, and a reopening |
| `session` | `SettledUsersAreTheSession`, `NoFormWaitsInVain`, `NoSessionIsLeftBehind` | two users, four turns (clicks and failures together), any number of answers | a form is sent, left or closed, opened again and sent again; a login follows a logout or another user's login |
| `lab_code` | `StepsNeverBreakCode`, `ViewShowsWhatIsApplied`, `VerdictIsAboutTheValuesShown`, `FallbacksAreExplained` | a lesson of three steps and free editing, two files that import each other, texts made of the characters that open and close code, one old progress; every sequence of acts | two steps of `steps.ts`, one more that edits the place of the first, and free texts that fail to parse, throw, or export nothing, in every combination of the two files |
| `like_removed`, `channel` | one sentence of a document each, see 5 | smaller than the above | a counterexample needs no more |

The type invariants of Engagement, Accounts, RateLimiter, ViewDedupe, Pages and
Session (in ViewDedupe with the bound of the map, in Engagement with counters
that never go below zero) and the strengthenings `TransactionInv`, `Forgotten` and
`MapKnowsTries` are proved (section 4) and not evaluated again by a run.
Of LabSteps the proof of its verdicts says what a progress is (`IsProgress`).

Deadlock is checked in Engagement, where requests keep coming. In the other
modules the bound (calls, requests, acts, the clock) is used up in the end and
the system rightly stops, so their configurations say so.

Three runs state fairness.

* `promise`: a statement that may run is run (weak fairness of `Proceed`), and
  a statement that waits for a row is not overtaken for ever (strong fairness
  of `Blocking`), because PostgreSQL queues waiters of a row. New requests,
  aborts and deletions of users are not assumed.
* `accounts`: a login that is verified inserts its session or fails (the handler
  runs to its end), expiry comes (time passes), and the session cleaner started
  by `main` succeeds sooner or later, since it runs again every ten minutes.
* `lab`: a debounce timer fires, messages are delivered, a document loads
  (`Fairness` of LabPreview). Nothing is assumed of the student.

## 4 Proofs

All proofs hold for any sets and numbers the named assumptions of the modules
allow: finite tables and calls, foreign keys that point into their table, and
natural numbers for intervals and limits. Of the Lab it is assumed what its
types say: the lesson is a sequence of steps whose edits and blanks are texts
(`LessonIsWellFormed`), what is entered, built in or saved are texts
(`SourcesAreTexts`, `EntriesAreTexts`, `OldIsOfTexts`), the files have names.

* **Engagement** (EngagementProofs). `TransactionInv` is the inductive
  invariant. The counters alone are not inductive: a worker that has written
  `likeCount + 1` into its transaction will publish it later. So the invariant
  says what each open transaction holds: `LocksExclusive`, no two changed the
  same row; `RowChangeOK`, its row change is still possible; `CountOK`, its
  counter still fits the committed one; `FreshComment`, `ProgressOK`, where it
  is. From it: `LikeCountsExact`, `CommentCountsSound`,
  `DeletedVideosKeepLikes`, `AnswersTruthful` (a request that goes on without a
  change of its own found what it asks for), and `EngagementImplementsPromise`, that a commit is
  one step of EngagementAbstract and every other step is a stutter of it.
* **RateLimiter** (ServerMemoryProofs). `LimitHolds` needs `Forgotten`: an allowed
  call that is no longer held is a window older than any clock reading to come,
  less the longest wait; then the calls in an interval that the next one joins
  are among those it has just counted.
* **ViewDedupe** (ServerMemoryProofs). `ViewsAreApart` needs `MapKnowsTries`: the
  entry of a key is its last try, or its tries are stale or evicted. It uses
  `MinInterval <= StaleAge`, which the constants of the code satisfy
  (12 s and 3 min): with a shorter stale age pruning would let views in early.
* **LikeButton** (LikeButtonProofs). What a settled page shows is decided by
  answers that came before, so the invariant `LInv` says what is under way while
  nothing of the visit overlapped or was lost (`Follows`). `Own`: requests of
  earlier visits are changes of other videos, made by a page that has been
  unmounted. `Visit`: at most one status is asked for, and no click comes before
  its answer; without it an answer to the status could undo a click.
  `LikeFollows` and `NumberFollows`: what is answered is what the server has, and
  a like or a number the page does not show yet is in an answer to PUT still to
  be read. A visit that took a like back keeps less of this, because the answer
  to DELETE tells the page nothing.
* **Pages** (PagesProofs). `WatchShowsItsVideo` is inductive only with what the
  requests are (`Fits`: an answer fits its question; `Placed`: a request of the
  current visit is from the current route). `NothingWaitsInVain` needs more than
  a request for each flag: `AwaitsCurrent` says that a loading watch page has one
  of *this* visit under way, which its cleanup will not drop. The settled pages
  (`SettledListIsTheServers`, `SettledWatchIsTheServers`) rest on `OnTrack`: while
  nothing overlapped, the requests under way are of this visit (`InTime`), one of
  each kind at most (`Single`), none of them lost (`Intact`), and they disable
  what could overlap them (`Busy`); so the list, the video and the comments are
  right, or will be once what is under way is answered (`ListIsRight`,
  `VideoIsRight`, `CommentsAreRight`).
* **Accounts** (AccountsProofs). `OldSessionsRaced` is inductive with the types:
  an update moves its request to where the sessions are deleted next, and that
  DELETE leaves only logins that have read the user before and will insert
  later. `DeletedUsersStayDeleted` and `OnlyOwnSessionsEnd` follow action by
  action, the second because only a change of password, role or `is_active` goes
  on to the sessions of its user (`OnlyPrivilegedGoOn`).
* **Uploads** and **UploadModal** (UploadsProofs). `OnlyDeletedObjectsAreRemoved`
  and `AcknowledgedVideosPlay` need what the place of each upload says of its
  object and its row (`UploadOK`), since the two are written apart and a commit
  may go unheard, and what a key read earlier still means for a deletion or a
  stream (`DeletionOK`, `StreamOK`). `ModalImplementsUploads` carries
  the results over to the dialogue; `SuccessIsAVideo` then needs only that a
  dialogue showing success is about a submission whose registration was
  acknowledged.
* **LabPreview** (LabProofs). Safe mode and `SettledPreviewIsCurrent` are
  inductive with what is under way: a frame that does not listen shows the site
  as it is and has no messages (`FrameOK`); one that has announced itself will
  show what was sent last, and that is what is wanted unless the timer runs
  (`SendingOK`). `NoErrorIsLost` follows an error from the boundary through the reply
  that clears the list.
* **LabSteps** (LabProofs). `VerdictIsAboutTheValuesShown` is inductive once it is
  known that whatever was stored is loaded as a progress with all its parts
  (`IsProgress`): then an edit of a file leaves the step and its values alone.
  Where localStorage can be written (`CanStore`) it holds the progress itself, and
  `NothingDoneIsLost` follows: no step
  but resetting everything takes a completed step or an answer back, reloads
  included.
* **What the folds compute** (LabProofs). The induction theorems of the library
  cannot be used here, so `Induction` is proved anew from the least
  counterexample, for sets of numbers instead of predicates, and
  `InductionOnSequences` from it. A fold is shown to be the value of a recursive
  function on numbers (`Fold`), which is shown to exist; so `Lines`,
  `FillTemplate`, `AfterEdits`, `StepSources`, `Parses` and the loader get their
  laws for one element more (`LinesGrow`, `TemplateGrows`, `EditsInTurn`,
  `StepsInTurn`, `ScanGrows`).
* **ModuleLoader** (LabProofs). `FallbacksAlwaysExplained`. A file that is
  given by an import may still be running, and may fail after that, so what is
  in the cache is not yet what will be on show. Inductive over depth and over
  the tokens of a file is that a file which is not running keeps its box, that
  a built-in box has its error, and that what was given is the box of now or of
  a file that is running or failed; at the end nothing is running. The depth is
  enough because each call inside another has one more file in the cache.
  No hypothesis but the types.
* **The view of a step** (LabProofs). `ViewShowsOneEdit`: lines and templates
  commute. Splitting the marked code and then filling its blanks gives the lines
  of the filled code, because no value has a line end: escaping removes them,
  and the blanks put in as they are hold values of one line
  (`LessonEnters(Text, Everywhere(OneLine))`, colours and options). The edit finds
  the same place in both, because at that point neither text holds a blank. It
  is stated for steps of at most one edit, and `steps.ts` has no others: a
  second edit may find its place in what was filled into the first.
* **Steps and the code around them** (LabProofs). `AnchoredLessonKeepsRunning` is
  that nothing a student fills in, saved and reloaded, breaks the code. It follows
  the mode Sucrase is in (`ScanFrom`). A value escaped for a string leaves a
  string a string (`StringGoesOn`), one escaped for JSX text leaves it that
  (`JsxTextGoesOn`), hence a filled template ends in the mode of the template
  (`TemplateReads`) and the code after the edit is read as before (`EditRuns`).
  This is true only where the edit finds its place in the mode its template is
  made for; text a student typed into a string of an earlier step can look like
  the place a later edit is looking for. `StepsKeepCodeRunning` has exactly that
  as its condition (`EditsInPlace`), and needs of the lesson only `LessonIsSound`:
  built-in code that runs, templates and offered values without a throw or an
  unknown import. `AnchoredLessonKeepsRunning` gets rid of the condition for a lesson
  that is anchored as well (`IsAnchored`): each place an edit looks for holds a
  token that occurs in one mode only and that no student can enter. Then the
  built sources keep their anchors in their modes (`Tidy`), step after step,
  and `EditsInPlace` is an invariant. The places in `steps.ts` are such: each
  begins with a tag or a heading, all of them longer than `maxLength` lets a
  student type. That a value not escaped is one the lesson
  offers is what `types.ts:20` asks for; `Offers` is it. Both conditions, and the
  one of the view, are evaluated by TLC on the lesson of `lab_code`
  (`TheLessonIsSound`, `TheLessonIsAnchored`, `LinesAreEntered` in MCLabCode).
  `EscapedTextsOpenNothing` is the escaping alone, character by character.
* **Session** (SessionProofs). `IInv` says who may wait for which kind of request
  (`AskersOf`) and that a form has one request under way (`Sound`). Without the
  second half a failed answer could enable a form whose other request is not
  answered. Leaving a page or closing a modal turns its requests into those of
  a form that is gone (`Left`, `Closed`), and no later page or modal takes them
  for its own. `SettledUsersAreTheSession` and `NoSessionIsLeftBehind` need
  `LInv`: while nothing overlapped, at most one login or logout is under way
  (`Single`), what its answer names is the user of the session the cookie will
  have (`UserOK`), and a live session that is not the cookie's is on its way
  there (`LeftOK`).

Only model-checked: liveness (`EveryRequestAnswered`, `DeletedUsersLoseSessions`,
`PreviewCatchesUp`), which needs ENABLED. The invariants of the runs are all
proved, those of LabCode under the conditions on the lesson named above.

## 5 Where the code and its documents disagree

Each is a run whose one property states the sentence, and whose counterexample
is a behaviour of the code.

* `like_removed`: `services/api.ts:238` says that removing a like returns the new
  state. The handler answers 204 without a body, `apiFetch` returns `undefined`,
  and `toggleLike` fails on reading it: the page goes on showing the like.
* `channel`: `back/BACKEND_API_GUIDE.md:519` says that `uploader_id` restricts the
  list to a user's videos. For a teacher `ListVideos` calls `ListForTeacher`,
  which has no such parameter (`service/video_list.go:22`): every channel page
  shows a teacher the videos of everybody, and on his own it offers to delete
  them.

Others were met while modelling and have no run, since the code disagrees on its
face or no document promises otherwise.

* `back/query-catalog.md:780` says that a failure to delete a video's file is
  logged; `DeleteVideo` drops the error, and the file stays (Uploads has the step).
* The comment at `service/user.go:178` says that sessions are invalidated when
  passwords or privileges change; the error of that DELETE is dropped, and a
  login that overlaps the change inserts its session afterwards.
  `OldSessionsRaced` states, and AccountsProofs proves, exactly when an older
  session survives.
* `back/BACKEND_API_GUIDE.md:769` says that starting a playback counts one view:
  a Range request 12 s after the last counted one counts again.
* Session: a login over a session leaves the earlier one live until it expires; a
  page's own hook does not hear of a login or logout elsewhere; the late success
  of a closed modal closes the one opened since, and that of a form takes the tab
  home from wherever it went. `excused`, `stale` and `left` mark these cases.
* The comment at `useLike.ts:27` says that the hook follows the number its parent
  gives it. Its effect runs when that number changes: a page that goes from one
  video to another with the same number keeps the number a click had led to
  (`kept` marks it).
* Lab: `types.ts:11` says a text blank must not be empty, while `isBlankFilled`
  accepts the empty text. A completed step never
  offers the check again, so an answer changed afterwards is previewed and never
  saved. `StepPanel.tsx:75` blames free edits for a step that has no place in
  the code, though the code of a step ignores free edits. A text that holds
  `axios` is refused although escapes make every text safe.
  `StepsNeverBreakCode` therefore excepts forbidden words.
* Uploads: a retry after a lost answer makes a second video; a file whose
  metadata never load leaves the dialogue uploading for ever.

## 6 What is not modelled

* Data: text, formatting, validation rules, titles and descriptions, hashes,
  tokens, HTTP headers, the bytes of a video. No property is about them.
* PostgreSQL beyond the statements used; connection pool limits; clocks that
  differ between servers (one server process is assumed by ViewDedupe and
  RateLimiter, whose state is in memory).
* `Touch` of a session: `last_seen_at` is written and never read.
* The rate limiter never removes a key from its map: the map grows with the
  addresses seen. The model bounds the keys; nothing in it limits the growth.
* `deleteComment` of `useComments`, which no component calls. The search page,
  which is the channel page with a text in place of the uploader.
* What the rendering of student code does to the page beyond errors, crashes and
  endless loops.

## 7 Plan

1. The refinement of a page whose visits do not overlap: an abstract page that
   asks and shows in one step.
2. The player when a watch page changes its video; hidden videos in Pages.
3. Migrations by servers that start together and crash.
4. Paging: pages and totals under concurrent changes; 32-bit offsets.

Modules are written for proofs: constants with named assumptions, one action per
operation, invariants as conjunctions of named parts, no RECURSIVE operator in a
module that is proved about.
