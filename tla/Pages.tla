-------------------------------- MODULE Pages --------------------------------
(***************************************************************************)
(* One tab of the front: the home, channel and watch pages, the hooks that *)
(* load and change what they show (useVideos, useVideoDetail, useComments, *)
(* useVideoDelete) and the handlers they talk to.  A page whose parameter  *)
(* changes is not mounted again: its hooks keep their state and only run   *)
(* their effects, while answers to its earlier requests are under way.     *)
(* useVideoDetail and useComments ignore those, useVideos does not.        *)
(***************************************************************************)
EXTENDS Naturals, Sequences, FiniteSets

CONSTANTS Video, User, Comment,
          UploaderOf,   \* the uploader of each video
          Me,           \* the user who is logged in
          Home,         \* the key of the list without uploader_id
          NoVideo,      \* null
          MaxTurns      \* bound on navigations and failures, taken together

ASSUME UploadersAreUsers == UploaderOf \in [Video -> User]
ASSUME MeIsAUser == Me \in User
ASSUME NullIsNoVideo == NoVideo \notin Video
ASSUME TurnsBound == MaxTurns \in Nat

VARIABLES
  route,     \* the page and its parameter
  visit,     \* number of the visit: the effects run once in each
  mounted,   \* the visit in which the page was mounted
  page,      \* the state of the page's hooks
  live,      \* server: videos that are not deleted
  stored,    \* server: the comments of each video, the newest first
  teacher,   \* server: role of Me
  requests,  \* requests not yet answered, and answers not yet arrived
  lost,      \* number of requests that failed
  excused    \* history: requests of this visit overlapped, or one failed

vars == <<route, visit, mounted, page, live, stored, teacher, requests, lost, excused>>
server == <<live, stored, teacher>>

HomePage == [page |-> "home", key |-> Home]
Channel(u) == [page |-> "channel", key |-> u]
Watch(v) == [page |-> "watch", key |-> v]
Route == {HomePage} \cup {Channel(u) : u \in User} \cup {Watch(v) : v \in Video}

\* The state of freshly mounted hooks; those of another page stay as they are.
Fresh == [videos |-> {}, listLoading |-> TRUE,
          video |-> NoVideo, loading |-> TRUE, error |-> FALSE,
          comments |-> <<>>, commentsLoading |-> TRUE,
          posting |-> FALSE, deleting |-> FALSE]

\* Answers: none yet, 404, another status that is not 2xx, a fetch that rejects,
\* 2xx without and with a body.
Pending == [is |-> "pending"]
NotFound == [is |-> "notFound"]
Refused == [is |-> "refused"]
Broken == [is |-> "broken"]
Done == [is |-> "ok"]
DoneWith(videos) == [is |-> "ok", videos |-> videos]
DoneWithComments(s) == [is |-> "ok", comments |-> s]
Succeeded(q) == q.answer.is = "ok"

\* "from" is the route whose rendering made the request: what its closure sees.
Ask(kind, r, what, n) ==
  [kind |-> kind, from |-> r, what |-> what, visit |-> n, answer |-> Pending]

\* What the effects of a page request.
Fetches(r, n) ==
  IF r.page = "watch"
  THEN {Ask("detail", r, NoVideo, n), Ask("comments", r, NoVideo, n)}
  ELSE {Ask("list", r, NoVideo, n)}

\* The page that asked is still mounted; its effect was not cleaned up.
IsMounted(q) == q.visit >= mounted
IsCurrent(q) == q.visit = visit

Change(q) == q.kind \in {"post", "delete"}

Init ==
  /\ route \in Route
  /\ visit = 0 /\ mounted = 0
  /\ page = Fresh
  /\ live = Video /\ stored = [v \in Video |-> <<>>] /\ teacher \in BOOLEAN
  /\ requests = Fetches(route, 0)
  /\ lost = 0 /\ excused = FALSE

-----------------------------------------------------------------------------
(* The user. *)

\* The state after the effects of a new route, "others" being the requests that
\* are under way.
GoTo(r, others) ==
  LET stays == r.page = route.page
  IN /\ route' = r
     /\ visit' = visit + 1
     /\ mounted' = IF stays THEN mounted ELSE visit + 1
     /\ page' = IF stays
                THEN [page EXCEPT !.listLoading = TRUE, !.loading = TRUE,
                                  !.error = FALSE, !.commentsLoading = TRUE]
                ELSE Fresh
     /\ requests' = others \cup Fetches(r, visit + 1)
     /\ excused' = \E q \in others :
          Change(q) \/ (stays /\ q.kind = "list" /\ IsMounted(q))

\* Links, the menu, and the history of the browser.
Navigate(r) ==
  /\ visit + lost < MaxTurns /\ r # route
  /\ GoTo(r, requests)
  /\ UNCHANGED <<server, lost>>

ShowsAVideo == route.page = "watch" /\ ~page.loading /\ ~page.error /\ page.video # NoVideo

\* The input is disabled while a comment is sent.
PostComment(c) ==
  /\ ShowsAVideo /\ ~page.posting
  /\ \A q \in requests : q.kind = "post" => q.what # c
  /\ \A v \in Video : \A i \in DOMAIN stored[v] : stored[v][i] # c
  /\ page' = [page EXCEPT !.posting = TRUE]
  /\ requests' = requests \cup {Ask("post", route, c, visit)}
  /\ excused' = (excused \/ \E q \in requests : q.kind = "comments" /\ IsCurrent(q))
  /\ UNCHANGED <<route, visit, mounted, server, lost>>

MayDelete(v) == teacher \/ UploaderOf[v] = Me

\* The button of the watch page, and the buttons of the user's own channel.
OffersDelete(v) ==
  \/ ShowsAVideo /\ v = page.video /\ MayDelete(v)
  \/ route = Channel(Me) /\ ~page.listLoading /\ v \in page.videos

DeleteVideo(v) ==
  /\ OffersDelete(v) /\ ~page.deleting
  /\ page' = [page EXCEPT !.deleting = TRUE]
  /\ requests' = requests \cup {Ask("delete", route, v, visit)}
  /\ UNCHANGED <<route, visit, mounted, server, lost, excused>>

-----------------------------------------------------------------------------
(* The server.  Its transactions are indivisible here. *)

\* All videos are published here.
ListPublished(key) == {v \in live : key = Home \/ UploaderOf[v] = key}
ListForTeacher == live

\* For a teacher ListVideos does not pass uploader_id on.
ListVideos(key) == IF teacher THEN ListForTeacher ELSE ListPublished(key)

Answer(q, body) ==
  requests' = (requests \ {q}) \cup {[q EXCEPT !.answer = body]}

Reads(q, kind) ==
  /\ q.kind = kind /\ q.answer = Pending
  /\ UNCHANGED <<route, visit, mounted, page, server, lost, excused>>

HandleVideosList(q) == Reads(q, "list") /\ Answer(q, DoneWith(ListVideos(q.from.key)))

HandleVideosGet(q) ==
  /\ Reads(q, "detail")
  /\ Answer(q, IF q.from.key \in live THEN Done ELSE NotFound)

HandleCommentsList(q) ==
  /\ Reads(q, "comments")
  /\ Answer(q, IF q.from.key \in live
               THEN DoneWithComments(stored[q.from.key]) ELSE NotFound)

HandleCommentsCreate(q) ==
  /\ q.kind = "post" /\ q.answer = Pending
  /\ IF q.from.key \in live
     THEN /\ stored' = [stored EXCEPT ![q.from.key] = <<q.what>> \o @]
          /\ Answer(q, Done)
     ELSE stored' = stored /\ Answer(q, NotFound)
  /\ UNCHANGED <<route, visit, mounted, page, live, teacher, lost, excused>>

HandleVideosDelete(q) ==
  /\ q.kind = "delete" /\ q.answer = Pending
  /\ IF q.what \in live /\ MayDelete(q.what)
     THEN live' = live \ {q.what} /\ Answer(q, Done)
     ELSE /\ live' = live
          /\ Answer(q, IF q.what \in live THEN Refused ELSE NotFound)
  /\ UNCHANGED <<route, visit, mounted, page, stored, teacher, lost, excused>>

\* A request that does not reach the server, an answer that does not reach the
\* page, or a status 5xx before or after the change was made.
Lose(q) ==
  /\ q.answer \notin {Refused, Broken} /\ visit + lost < MaxTurns
  /\ \E error \in {Refused, Broken} : Answer(q, error)
  /\ lost' = lost + 1 /\ excused' = TRUE
  /\ UNCHANGED <<route, visit, mounted, page, server>>

-----------------------------------------------------------------------------
(* Answers arrive at the tab. *)

Arrives(q, p) ==
  /\ q.answer # Pending
  /\ requests' = requests \ {q}
  /\ page' = p
  /\ UNCHANGED <<route, visit, mounted, server, lost, excused>>

\* useVideos: whichever answer comes last is shown.
ListArrives(q) ==
  /\ q.kind = "list"
  /\ Arrives(q, IF IsMounted(q)
                THEN [page EXCEPT !.listLoading = FALSE,
                                  !.videos = IF Succeeded(q) THEN q.answer.videos ELSE @]
                ELSE page)

\* A mutant: no cleanup, the answer for an earlier address is taken.
DetailArrivesUncancelled(q) ==
  /\ q.kind = "detail"
  /\ Arrives(q, IF IsMounted(q)
                THEN [page EXCEPT !.loading = FALSE,
                                  !.error = q.answer \in {Refused, Broken},
                                  !.video = IF Succeeded(q) THEN q.from.key ELSE NoVideo]
                ELSE page)

\* useVideoDetail: 404 is null, anything else an error.
DetailArrives(q) ==
  /\ q.kind = "detail"
  /\ Arrives(q, IF IsCurrent(q)
                THEN [page EXCEPT !.loading = FALSE,
                                  !.error = q.answer \in {Refused, Broken},
                                  !.video = CASE Succeeded(q) -> q.from.key
                                              [] q.answer = NotFound -> NoVideo
                                              [] OTHER -> @]
                ELSE page)

\* A mutant: no cleanup, the answer for an earlier address is taken.
CommentsArriveUncancelled(q) ==
  /\ q.kind = "comments"
  /\ Arrives(q, IF IsMounted(q)
                THEN [page EXCEPT !.commentsLoading = FALSE,
                                  !.comments = IF Succeeded(q) THEN q.answer.comments
                                               ELSE <<>>]
                ELSE page)

\* useComments: any status but 2xx is an empty list, a fetch that rejects leaves
\* the list as it is.
CommentsArrive(q) ==
  /\ q.kind = "comments"
  /\ Arrives(q, IF IsCurrent(q)
                THEN [page EXCEPT !.commentsLoading = FALSE,
                                  !.comments = CASE Succeeded(q) -> q.answer.comments
                                                 [] q.answer = Broken -> @
                                                 [] OTHER -> <<>>]
                ELSE page)

\* A mutant: the input is enabled again only when the comment was accepted.
PostArrivesOrWaits(q) ==
  /\ q.kind = "post"
  /\ Arrives(q, IF IsMounted(q) /\ Succeeded(q)
                THEN [page EXCEPT !.posting = FALSE, !.comments = <<q.what>> \o @]
                ELSE page)

\* postComment: the comment goes to the list that is shown by now.
PostArrives(q) ==
  /\ q.kind = "post"
  /\ Arrives(q, IF IsMounted(q)
                THEN [page EXCEPT !.posting = FALSE,
                                  !.comments = IF Succeeded(q) THEN <<q.what>> \o @ ELSE @]
                ELSE page)

\* deleteVideo fails, or there is no page any more that loads its list again.
DeletionEnds(q) ==
  /\ q.kind = "delete"
  /\ ~Succeeded(q) \/ (q.from.page = "channel" /\ ~IsMounted(q))
  /\ Arrives(q, [page EXCEPT !.deleting = @ /\ ~IsMounted(q)])

\* A mutant: the channel does not load its list again.
DeletionStays(q) ==
  /\ q.kind = "delete" /\ Succeeded(q)
  /\ q.from.page = "channel" /\ IsMounted(q)
  /\ Arrives(q, [page EXCEPT !.deleting = FALSE])

\* The channel loads its list again: that of the channel where the user clicked.
DeletionRefetches(q) ==
  /\ q.kind = "delete" /\ Succeeded(q)
  /\ q.from.page = "channel" /\ IsMounted(q)
  /\ page' = [page EXCEPT !.deleting = FALSE, !.listLoading = TRUE]
  /\ requests' = (requests \ {q}) \cup {Ask("list", q.from, q.what, visit)}
  /\ excused' = (excused \/ q.from # route)
  /\ UNCHANGED <<route, visit, mounted, server, lost>>

\* The watch page leaves for the channel or home, and so does a tab that has
\* left the watch page meanwhile.
DeletionLeaves(q) ==
  LET next == IF UploaderOf[q.what] = Me THEN Channel(Me) ELSE HomePage
  IN /\ q.kind = "delete" /\ Succeeded(q)
     /\ q.from.page = "watch"
     /\ IF next # route
        THEN GoTo(next, requests \ {q})
        ELSE /\ requests' = requests \ {q}
             /\ UNCHANGED <<route, visit, mounted, page, excused>>
     /\ UNCHANGED <<server, lost>>

AnswerArrives(q) ==
  \/ ListArrives(q) \/ DetailArrives(q) \/ CommentsArrive(q) \/ PostArrives(q)
  \/ DeletionEnds(q) \/ DeletionRefetches(q) \/ DeletionLeaves(q)

Next ==
  \/ \E r \in Route : Navigate(r)
  \/ \E c \in Comment : PostComment(c)
  \/ \E v \in Video : DeleteVideo(v)
  \/ \E q \in requests :
       \/ HandleVideosList(q) \/ HandleVideosGet(q) \/ HandleCommentsList(q)
       \/ HandleCommentsCreate(q) \/ HandleVideosDelete(q) \/ Lose(q)
  \/ \E q \in requests : AnswerArrives(q)

Spec == Init /\ [][Next]_vars

-----------------------------------------------------------------------------
(* Properties. *)

PageState ==
  [videos : SUBSET Video, listLoading : BOOLEAN,
   video : Video \cup {NoVideo}, loading : BOOLEAN, error : BOOLEAN,
   comments : Seq(Comment), commentsLoading : BOOLEAN,
   posting : BOOLEAN, deleting : BOOLEAN]

\* The state of the tab, its hooks and the server has its types.
TypeOK ==
  /\ route \in Route /\ visit \in Nat /\ mounted \in 0..visit
  /\ page \in PageState
  /\ live \subseteq Video /\ stored \in [Video -> Seq(Comment)]
  /\ teacher \in BOOLEAN /\ lost \in 0..MaxTurns /\ excused \in BOOLEAN

\* Whatever is under way, a watch page that shows a video shows that of its
\* address: the cleanup of useVideoDetail drops the answers for other addresses,
\* and the video kept from the address before is hidden until one comes.
WatchShowsItsVideo == ShowsAVideo => page.video = route.key

\* What the page shows as loading, being sent or being deleted is asked of the
\* server: no order of answers, failures and navigations leaves a page waiting,
\* or its input or buttons disabled, for nothing.
Awaits(kinds) == \E q \in requests : q.kind \in kinds /\ IsMounted(q)
NothingWaitsInVain ==
  /\ route.page # "watch" /\ page.listLoading => Awaits({"list"})
  /\ route.page = "watch" /\ page.loading => Awaits({"detail"})
  /\ route.page = "watch" /\ page.commentsLoading => Awaits({"comments"})
  /\ page.posting => Awaits({"post"})
  /\ page.deleting => Awaits({"delete"})

\* No request that may still change this page is under way.
Settled == \A q \in requests :
  IF q.kind \in {"detail", "comments"} THEN ~IsCurrent(q) ELSE ~IsMounted(q)

\* A list page that has settled shows what the server would list, also after
\* deletions on it, unless requests overlapped (a channel left for another while
\* it was loading, a deletion under way) or failed.
SettledListIsTheServers ==
  Settled /\ ~excused /\ route.page # "watch" => page.videos = ListVideos(route.key)

\* A watch page that has settled shows the video and its comments as the server
\* has them, each comment once and in the server's order, unless a comment was
\* posted while the list was loading or the user left while it was sent, or a
\* request failed.
SettledWatchIsTheServers ==
  Settled /\ ~excused /\ route.page = "watch" =>
    /\ ~page.error
    /\ page.video = IF route.key \in live THEN route.key ELSE NoVideo
    /\ page.comments = IF route.key \in live THEN stored[route.key] ELSE <<>>

\* What the API guide says of uploader_id: the list holds videos of that uploader.
\* The channel page relies on it.
ChannelShowsItsUploader ==
  Settled /\ ~excused /\ route.page = "channel" =>
    \A v \in page.videos : UploaderOf[v] = route.key
=============================================================================
