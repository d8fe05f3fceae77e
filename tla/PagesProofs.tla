---------------------------- MODULE PagesProofs ----------------------------
(* Proofs about Pages: its types, that a watch page shows no video but that *)
(* of its address, that no flag of a page waits for an answer that will not *)
(* come, and that a page with nothing under way shows what the server has.  *)
EXTENDS Pages, TLAPS

Kinds == {"list", "detail", "comments", "post", "delete"}

IsRequest(q) ==
  /\ q = [kind |-> q.kind, from |-> q.from, what |-> q.what,
          visit |-> q.visit, answer |-> q.answer]
  /\ q.kind \in Kinds /\ q.from \in Route /\ q.visit \in Nat

\* What a request is about, and what its success brings.
Fits(q) ==
  /\ q.kind \in {"detail", "comments"} => q.from.page = "watch" /\ q.from.key \in Video
  /\ q.kind = "post" => q.what \in Comment /\ q.from.page = "watch" /\ q.from.key \in Video
  /\ q.kind = "delete" => q.what \in Video
  /\ Succeeded(q) \/ q.answer \in {Pending, NotFound, Refused, Broken}
  /\ q.kind = "list" /\ Succeeded(q) => q.answer.videos \in SUBSET Video
  /\ q.kind = "comments" /\ Succeeded(q) => q.answer.comments \in Seq(Comment)

\* A request of the mounted page was made by it, and the current request for a
\* video by the current address.
Placed(q) ==
  /\ q.visit <= visit
  /\ IsMounted(q) => q.from.page = route.page
  /\ q.kind = "detail" /\ IsCurrent(q) => q.from = route

RequestsOK == \A q \in requests : IsRequest(q) /\ Fits(q) /\ Placed(q)

\* NothingWaitsInVain says too little of loading: an answer that useVideoDetail
\* drops must not be the one it waits for.
AwaitsCurrent(kind) == \E q \in requests : q.kind = kind /\ IsCurrent(q)
WaitsOK ==
  /\ route.page # "watch" /\ page.listLoading => Awaits({"list"})
  /\ route.page = "watch" /\ page.loading => AwaitsCurrent("detail")
  /\ route.page = "watch" /\ page.commentsLoading => AwaitsCurrent("comments")
  /\ page.posting => Awaits({"post"})
  /\ page.deleting => Awaits({"delete"})

Inv == TypeOK /\ RequestsOK /\ WatchShowsItsVideo /\ WaitsOK

-----------------------------------------------------------------------------
(* What the operators give. *)

\* A route is a page and a key; that of a watch page is a video.
LEMMA RouteFacts ==
  ASSUME NEW r \in Route
  PROVE  /\ r.page \in {"home", "channel", "watch"}
         /\ r.page = "watch" => r.key \in Video
BY DEF Route, HomePage, Channel, Watch

\* The pages a deletion leads to are routes, and not watch pages.
LEMMA ListRoutes ==
  /\ HomePage \in Route /\ HomePage.page # "watch"
  /\ Channel(Me) \in Route /\ Channel(Me).page = "channel"
BY MeIsAUser DEF Route, HomePage, Channel

\* The fields of a new request.
LEMMA AskFacts ==
  ASSUME NEW kind \in Kinds, NEW r \in Route, NEW what, NEW n \in Nat,
         NEW q, q = Ask(kind, r, what, n)
  PROVE  /\ IsRequest(q) /\ ~Succeeded(q)
         /\ q.kind = kind /\ q.from = r /\ q.what = what /\ q.visit = n
         /\ q.answer = Pending
BY DEF Ask, IsRequest, Succeeded, Pending

\* The requests of the effects of a page are well formed.
LEMMA FetchFacts ==
  ASSUME NEW r \in Route, NEW n \in Nat, NEW q \in Fetches(r, n)
  PROVE  IsRequest(q) /\ Fits(q) /\ q.from = r /\ q.visit = n
<1>1. PICK kind \in Kinds : /\ q = Ask(kind, r, NoVideo, n)
                            /\ kind \in {"list", "detail", "comments"}
                            /\ kind # "list" => r.page = "watch"
  BY DEF Fetches, Kinds
<1> QED  BY <1>1, AskFacts, RouteFacts DEF Fits, Ask

\* A watch page asks for its video and comments, another page for its list.
LEMMA Fetched ==
  ASSUME NEW r \in Route, NEW n \in Nat
  PROVE  /\ r.page # "watch" => \E q \in Fetches(r, n) : q.kind = "list" /\ q.visit = n
         /\ r.page = "watch" =>
              /\ \E q \in Fetches(r, n) : q.kind = "detail" /\ q.visit = n
              /\ \E q \in Fetches(r, n) : q.kind = "comments" /\ q.visit = n
BY DEF Fetches, Ask

\* Freshly mounted hooks have their types.
LEMMA FreshIsAState == Fresh \in PageState
BY DEF Fresh, PageState

-----------------------------------------------------------------------------
(* Steps of one shape. *)

\* A handler that only answers keeps the invariant if the answer fits.
LEMMA AnswerKeepsInv ==
  ASSUME RequestsOK, WatchShowsItsVideo, WaitsOK,
         NEW q \in requests, NEW body, Answer(q, body),
         UNCHANGED <<route, visit, mounted, page>>,
         body.is = "ok" \/ body \in {NotFound, Refused, Broken},
         q.kind = "list" /\ body.is = "ok" => body.videos \in SUBSET Video,
         q.kind = "comments" /\ body.is = "ok" => body.comments \in Seq(Comment)
  PROVE  RequestsOK' /\ WatchShowsItsVideo' /\ WaitsOK'
<1> DEFINE a == [q EXCEPT !.answer = body]
<1>1. IsRequest(q) /\ Fits(q) /\ Placed(q)
  BY DEF RequestsOK
<1>2. /\ a.kind = q.kind /\ a.from = q.from /\ a.what = q.what
      /\ a.visit = q.visit /\ a.answer = body
      /\ a = [kind |-> a.kind, from |-> a.from, what |-> a.what,
              visit |-> a.visit, answer |-> a.answer]
  BY <1>1 DEF IsRequest
<1>3. requests' = (requests \ {q}) \cup {a}
  BY DEF Answer
<1>4. RequestsOK'
  <2>1. IsRequest(a) /\ Fits(a) /\ Placed(a)'
    BY <1>1, <1>2 DEF IsRequest, Fits, Placed, Succeeded, IsMounted, IsCurrent
  <2>2. \A r \in requests : IsRequest(r) /\ Fits(r) /\ Placed(r)'
    BY DEF RequestsOK, Placed, IsMounted, IsCurrent
  <2>3. \A r : (IsRequest(r) /\ Fits(r) <=> IsRequest(r)' /\ Fits(r)')
    BY DEF IsRequest, Fits, Succeeded
  <2> QED  BY <1>3, <2>1, <2>2, <2>3 DEF RequestsOK
<1>5. WatchShowsItsVideo'
  BY DEF WatchShowsItsVideo, ShowsAVideo
<1>6. ASSUME NEW kinds, Awaits(kinds)  PROVE  Awaits(kinds)'
  BY <1>2, <1>3, <1>6 DEF Awaits, IsMounted
<1>7. ASSUME NEW kind, AwaitsCurrent(kind)  PROVE  AwaitsCurrent(kind)'
  BY <1>2, <1>3, <1>7 DEF AwaitsCurrent, IsCurrent
<1>8. WaitsOK'
  BY <1>6, <1>7 DEF WaitsOK
<1> QED  BY <1>4, <1>5, <1>8

\* Fewer requests of the same visit are as well formed.
LEMMA RemovalKeepsRequests ==
  ASSUME RequestsOK, requests' \subseteq requests,
         UNCHANGED <<route, visit, mounted>>
  PROVE  RequestsOK'
BY DEF RequestsOK, IsRequest, Fits, Placed, Succeeded, IsMounted, IsCurrent

\* A request made by the mounted page that is not for a video is well placed.
LEMMA AskKeepsRequests ==
  ASSUME TypeOK, RequestsOK, NEW rest, rest \subseteq requests,
         NEW q, requests' = rest \cup {q}, UNCHANGED <<route, visit, mounted>>,
         IsRequest(q), Fits(q), q.visit = visit, q.kind # "detail",
         q.from.page = route.page
  PROVE  RequestsOK'
<1>1. Placed(q)'
  BY DEF Placed, TypeOK
<1> QED  BY <1>1 DEF RequestsOK, IsRequest, Fits, Placed, Succeeded, IsMounted, IsCurrent

\* The arrival of an answer keeps what the page waits for besides it.
LEMMA ArrivalKeepsWaits ==
  ASSUME NEW q, requests' = requests \ {q}, UNCHANGED <<visit, mounted>>
  PROVE  /\ \A kinds : Awaits(kinds) /\ (q.kind \notin kinds \/ ~IsMounted(q)) => Awaits(kinds)'
         /\ \A kind : AwaitsCurrent(kind) /\ (q.kind # kind \/ ~IsCurrent(q))
                        => AwaitsCurrent(kind)'
BY DEF Awaits, AwaitsCurrent, IsMounted, IsCurrent

\* Navigation keeps the invariant when no request of a page that stays is
\* dropped.
LEMMA GoToKeepsInv ==
  ASSUME Inv, NEW r \in Route, NEW others, others \subseteq requests, GoTo(r, others),
         UNCHANGED <<server, lost>>,
         r.page = route.page => \A q \in requests : IsMounted(q) => q \in others
  PROVE  Inv'
<1> DEFINE stays == r.page = route.page
<1> USE DEF Inv
<1>1. /\ route' = r /\ visit' = visit + 1 /\ visit' \in Nat /\ visit \in Nat /\ mounted \in 0..visit
      /\ mounted' = IF stays THEN mounted ELSE visit + 1
      /\ requests' = others \cup Fetches(r, visit + 1)
      /\ mounted' \in 0..visit'
  BY DEF GoTo, TypeOK
<1>2. /\ page' \in PageState
      /\ page'.loading /\ page'.listLoading /\ page'.commentsLoading
      /\ stays => page'.posting = page.posting /\ page'.deleting = page.deleting
      /\ ~stays => ~page'.posting /\ ~page'.deleting
  <2>1. CASE stays
    <3>1. page' = [page EXCEPT !.listLoading = TRUE, !.loading = TRUE,
                               !.error = FALSE, !.commentsLoading = TRUE]
      BY <2>1 DEF GoTo
    <3> QED  BY <2>1, <3>1 DEF TypeOK, PageState
  <2>2. CASE ~stays
    BY <2>2, FreshIsAState DEF GoTo, Fresh
  <2> QED  BY <2>1, <2>2
<1>3. TypeOK'
  BY <1>1, <1>2 DEF TypeOK, server, GoTo
<1>4. RequestsOK'
  <2>1. ASSUME NEW q \in others  PROVE  (IsRequest(q) /\ Fits(q) /\ Placed(q))'
    <3>1. IsRequest(q) /\ Fits(q) /\ Placed(q)
      BY DEF RequestsOK
    <3>2. IsRequest(q)' /\ Fits(q)'
      BY <3>1 DEF IsRequest, Fits, Succeeded
    <3>3. q.visit \in Nat /\ q.visit <= visit
      BY <3>1 DEF IsRequest, Placed
    <3>4. Placed(q)'
      BY <1>1, <3>1, <3>3 DEF Placed, IsMounted, IsCurrent
    <3> QED  BY <3>2, <3>4
  <2>2. ASSUME NEW q \in Fetches(r, visit + 1)  PROVE  (IsRequest(q) /\ Fits(q) /\ Placed(q))'
    <3>1. IsRequest(q) /\ Fits(q) /\ q.from = r /\ q.visit = visit + 1
      BY <1>1, FetchFacts
    <3>2. IsRequest(q)' /\ Fits(q)'
      BY <3>1 DEF IsRequest, Fits, Succeeded
    <3>3. Placed(q)'
      BY <1>1, <3>1 DEF Placed
    <3> QED  BY <3>2, <3>3
  <2> QED  BY <1>1, <2>1, <2>2 DEF RequestsOK
<1>5. WatchShowsItsVideo'
  BY <1>2 DEF WatchShowsItsVideo, ShowsAVideo
<1>6. WaitsOK'
  <2>1. r.page # "watch" => Awaits({"list"})'
    BY <1>1, Fetched DEF Awaits, IsMounted
  <2>2. r.page = "watch" => AwaitsCurrent("detail")' /\ AwaitsCurrent("comments")'
    BY <1>1, Fetched DEF AwaitsCurrent, IsCurrent
  <2>3. ASSUME NEW kinds, stays, Awaits(kinds)  PROVE  Awaits(kinds)'
    BY <1>1, <2>3 DEF Awaits, IsMounted
  <2> QED  BY <1>1, <1>2, <2>1, <2>2, <2>3 DEF WaitsOK
<1> QED  BY <1>3, <1>4, <1>5, <1>6

-----------------------------------------------------------------------------
(* The steps of Next. *)

\* Inv is the inductive invariant.
LEMMA InitInv == Init => Inv
<1> SUFFICES ASSUME Init  PROVE Inv
  OBVIOUS
<1>1. TypeOK
  <2>1. stored \in [Video -> Seq(Comment)]
    <3>1. <<>> \in Seq(Comment)
      OBVIOUS
    <3> QED  BY <3>1 DEF Init
  <2>2. page \in PageState /\ live \subseteq Video
    BY FreshIsAState DEF Init
  <2>3. visit \in Nat /\ mounted \in 0..visit /\ lost \in 0..MaxTurns /\ excused \in BOOLEAN
    <3>1. visit = 0 /\ mounted = 0 /\ lost = 0
      BY DEF Init
    <3>2. visit \in Nat /\ mounted \in 0..visit /\ lost \in 0..MaxTurns
      BY <3>1, TurnsBound
    <3>3. excused \in BOOLEAN
      BY Zenon DEF Init
    <3> QED  BY <3>2, <3>3
  <2> QED  BY <2>1, <2>2, <2>3 DEF Init, TypeOK
<1>2. RequestsOK
  BY FetchFacts DEF Init, RequestsOK, Placed
<1>3. WatchShowsItsVideo
  BY DEF Init, WatchShowsItsVideo, ShowsAVideo, Fresh
<1>4. WaitsOK
  BY Fetched DEF Init, WaitsOK, Fresh, Awaits, AwaitsCurrent, IsMounted, IsCurrent
<1> QED  BY <1>1, <1>2, <1>3, <1>4 DEF Inv

LEMMA NavigateKeepsInv ==
  ASSUME Inv, NEW r \in Route, Navigate(r)
  PROVE  Inv'
BY GoToKeepsInv DEF Navigate

LEMMA PostCommentKeepsInv ==
  ASSUME Inv, NEW c \in Comment, PostComment(c)
  PROVE  Inv'
<1> DEFINE q == Ask("post", route, c, visit)
<1> USE DEF Inv
<1>1. /\ UNCHANGED <<route, visit, mounted, server, lost>>
      /\ requests' = requests \cup {q}
      /\ page' = [page EXCEPT !.posting = TRUE]
      /\ route.page = "watch" /\ excused' \in BOOLEAN
  BY DEF PostComment, ShowsAVideo, TypeOK
<1>2. /\ page' \in PageState /\ page'.loading = page.loading /\ page'.error = page.error
      /\ page'.video = page.video /\ page'.commentsLoading = page.commentsLoading
      /\ page'.deleting = page.deleting
  BY <1>1 DEF TypeOK, PageState
<1>3. TypeOK'
  BY <1>1, <1>2 DEF TypeOK, server
<1>4. /\ IsRequest(q) /\ Fits(q) /\ q.kind = "post" /\ q.visit = visit /\ q.from = route
  <2>1. /\ IsRequest(q) /\ ~Succeeded(q) /\ q.kind = "post" /\ q.from = route
        /\ q.what = c /\ q.visit = visit /\ q.answer = Pending
    BY AskFacts DEF TypeOK, Kinds
  <2>2. route.key \in Video
    BY <1>1, RouteFacts DEF TypeOK
  <2> QED  BY <1>1, <2>1, <2>2 DEF Fits
<1>5. RequestsOK'
  BY <1>1, <1>4, AskKeepsRequests
<1>6. WatchShowsItsVideo'
  BY <1>1, <1>2 DEF WatchShowsItsVideo, ShowsAVideo
<1>7. WaitsOK'
  <2>1. Awaits({"post"})'
    BY <1>1, <1>4 DEF Awaits, IsMounted, TypeOK
  <2>2. /\ Awaits({"delete"}) => Awaits({"delete"})'
        /\ \A kind : AwaitsCurrent(kind) => AwaitsCurrent(kind)'
    BY <1>1 DEF Awaits, AwaitsCurrent, IsMounted, IsCurrent
  <2> QED  BY <1>1, <1>2, <2>1, <2>2 DEF WaitsOK
<1> QED  BY <1>3, <1>5, <1>6, <1>7

LEMMA DeleteVideoKeepsInv ==
  ASSUME Inv, NEW v \in Video, DeleteVideo(v)
  PROVE  Inv'
<1> DEFINE q == Ask("delete", route, v, visit)
<1> USE DEF Inv
<1>1. /\ UNCHANGED <<route, visit, mounted, server, lost, excused>>
      /\ requests' = requests \cup {q}
      /\ page' = [page EXCEPT !.deleting = TRUE]
  BY DEF DeleteVideo
<1>2. /\ page' \in PageState /\ page'.loading = page.loading /\ page'.error = page.error
      /\ page'.video = page.video /\ page'.commentsLoading = page.commentsLoading
      /\ page'.posting = page.posting /\ page'.listLoading = page.listLoading
  BY <1>1 DEF TypeOK, PageState
<1>3. TypeOK'
  BY <1>1, <1>2 DEF TypeOK, server
<1>4. /\ IsRequest(q) /\ Fits(q) /\ q.kind = "delete" /\ q.visit = visit /\ q.from = route
  <2>1. /\ IsRequest(q) /\ ~Succeeded(q) /\ q.kind = "delete" /\ q.from = route
        /\ q.what = v /\ q.visit = visit /\ q.answer = Pending
    BY AskFacts DEF TypeOK, Kinds
  <2> QED  BY <2>1 DEF Fits
<1>5. RequestsOK'
  BY <1>1, <1>4, AskKeepsRequests
<1>6. WatchShowsItsVideo'
  BY <1>1, <1>2 DEF WatchShowsItsVideo, ShowsAVideo
<1>7. WaitsOK'
  <2>1. Awaits({"delete"})'
    BY <1>1, <1>4 DEF Awaits, IsMounted, TypeOK
  <2>2. /\ \A kinds : Awaits(kinds) => Awaits(kinds)'
        /\ \A kind : AwaitsCurrent(kind) => AwaitsCurrent(kind)'
    BY <1>1 DEF Awaits, AwaitsCurrent, IsMounted, IsCurrent
  <2> QED  BY <1>1, <1>2, <2>1, <2>2 DEF WaitsOK
<1> QED  BY <1>3, <1>5, <1>6, <1>7

\* The handlers and the network answer requests.
LEMMA ServerKeepsInv ==
  ASSUME Inv, NEW q \in requests,
         \/ HandleVideosList(q) \/ HandleVideosGet(q) \/ HandleCommentsList(q)
         \/ HandleCommentsCreate(q) \/ HandleVideosDelete(q) \/ Lose(q)
  PROVE  Inv'
<1> USE DEF Inv
<1>1. Fits(q)
  BY DEF RequestsOK
<1>2. CASE HandleVideosList(q)
  <2>1. ListVideos(q.from.key) \in SUBSET Video
    BY DEF ListVideos, ListForTeacher, ListPublished, TypeOK
  <2>2. RequestsOK' /\ WatchShowsItsVideo' /\ WaitsOK'
    BY <1>2, <2>1, AnswerKeepsInv DEF HandleVideosList, Reads, DoneWith
  <2> QED  BY <1>2, <2>2 DEF HandleVideosList, Reads, TypeOK, server
<1>3. CASE HandleVideosGet(q)
  <2>1. RequestsOK' /\ WatchShowsItsVideo' /\ WaitsOK'
    BY <1>3, AnswerKeepsInv DEF HandleVideosGet, Reads, Done, NotFound, Refused
  <2> QED  BY <1>3, <2>1 DEF HandleVideosGet, Reads, TypeOK, server
<1>4. CASE HandleCommentsList(q)
  <2>1. stored[q.from.key] \in Seq(Comment)
    BY <1>1, <1>4 DEF HandleCommentsList, Reads, Fits, TypeOK
  <2>2. RequestsOK' /\ WatchShowsItsVideo' /\ WaitsOK'
    BY <1>4, <2>1, AnswerKeepsInv DEF HandleCommentsList, Reads, DoneWithComments, NotFound
  <2> QED  BY <1>4, <2>2 DEF HandleCommentsList, Reads, TypeOK, server
<1>5. CASE HandleCommentsCreate(q)
  <2>1. RequestsOK' /\ WatchShowsItsVideo' /\ WaitsOK'
    BY <1>5, AnswerKeepsInv DEF HandleCommentsCreate, Done, NotFound
  <2>2. stored' \in [Video -> Seq(Comment)]
    <3>1. q.what \in Comment /\ q.from.key \in Video
      BY <1>1, <1>5 DEF HandleCommentsCreate, Fits
    <3>2. stored \in [Video -> Seq(Comment)] /\ stored[q.from.key] \in Seq(Comment)
      BY <3>1 DEF TypeOK
    <3>3. <<q.what>> \o stored[q.from.key] \in Seq(Comment)
      BY <3>1, <3>2
    <3> QED  BY <1>5, <3>2, <3>3 DEF HandleCommentsCreate
  <2> QED  BY <1>5, <2>1, <2>2 DEF HandleCommentsCreate, TypeOK
<1>6. CASE HandleVideosDelete(q)
  <2>1. RequestsOK' /\ WatchShowsItsVideo' /\ WaitsOK'
    BY <1>6, AnswerKeepsInv DEF HandleVideosDelete, Done, NotFound, Refused
  <2> QED  BY <1>6, <2>1 DEF HandleVideosDelete, TypeOK
<1>7. CASE Lose(q)
  <2>1. RequestsOK' /\ WatchShowsItsVideo' /\ WaitsOK'
    BY <1>7, AnswerKeepsInv DEF Lose, Refused, Broken
  <2> QED  BY <1>7, <2>1, TurnsBound DEF Lose, TypeOK, server
<1> QED  BY <1>2, <1>3, <1>4, <1>5, <1>6, <1>7

-----------------------------------------------------------------------------
(* Answers arrive. *)

\* An arrival that only sets fields of the page keeps the rest of the state.
LEMMA ArrivesKeepsTypes ==
  ASSUME Inv, NEW q \in requests, NEW p \in PageState, Arrives(q, p)
  PROVE  TypeOK' /\ RequestsOK'
<1>1. requests' \subseteq requests /\ UNCHANGED <<route, visit, mounted, server, lost, excused>>
  BY DEF Arrives
<1>2. RequestsOK'
  BY <1>1, RemovalKeepsRequests DEF Inv
<1> QED  BY <1>1, <1>2 DEF Inv, Arrives, TypeOK, server

LEMMA ListArrivesKeepsInv ==
  ASSUME Inv, NEW q \in requests, ListArrives(q)
  PROVE  Inv'
<1> USE DEF Inv
<1>1. /\ q.kind = "list" /\ requests' = requests \ {q}
      /\ UNCHANGED <<route, visit, mounted>>
  BY DEF ListArrives, Arrives
<1>2. Succeeded(q) => q.answer.videos \in SUBSET Video
  BY <1>1 DEF RequestsOK, Fits
<1>3. /\ page' \in PageState
      /\ page'.loading = page.loading /\ page'.error = page.error /\ page'.video = page.video
      /\ page'.commentsLoading = page.commentsLoading
      /\ page'.posting = page.posting /\ page'.deleting = page.deleting
      /\ IF IsMounted(q) THEN ~page'.listLoading ELSE page' = page
  BY <1>2 DEF ListArrives, Arrives, TypeOK, PageState
<1>4. TypeOK' /\ RequestsOK'
  BY <1>3, ArrivesKeepsTypes DEF ListArrives, Arrives
<1>5. WatchShowsItsVideo'
  BY <1>1, <1>3 DEF WatchShowsItsVideo, ShowsAVideo
<1>6. WaitsOK'
  BY <1>1, <1>3, ArrivalKeepsWaits DEF WaitsOK
<1> QED  BY <1>4, <1>5, <1>6

LEMMA DetailArrivesKeepsInv ==
  ASSUME Inv, NEW q \in requests, DetailArrives(q)
  PROVE  Inv'
<1> USE DEF Inv
<1>1. /\ q.kind = "detail" /\ q.answer # Pending /\ requests' = requests \ {q}
      /\ UNCHANGED <<route, visit, mounted>>
  BY DEF DetailArrives, Arrives
<1>2. /\ q.from.key \in Video /\ (IsCurrent(q) => q.from = route)
      /\ Succeeded(q) \/ q.answer \in {Pending, NotFound, Refused, Broken}
  BY <1>1 DEF RequestsOK, Fits, Placed
<1>3. CASE IsCurrent(q)
  <2> DEFINE video == CASE Succeeded(q) -> q.from.key
                        [] q.answer = NotFound -> NoVideo
                        [] OTHER -> page.video
             error == q.answer \in {Refused, Broken}
  <2>1. /\ error \in BOOLEAN /\ video \in Video \cup {NoVideo}
        /\ ~error => video \in {route.key, NoVideo}
    BY <1>1, <1>2, <1>3 DEF TypeOK, PageState
  <2>2. page' = [page EXCEPT !.loading = FALSE, !.error = error, !.video = video]
    BY <1>3 DEF DetailArrives, Arrives
  <2> HIDE DEF video, error
  <2>3. /\ page' \in PageState /\ ~page'.loading /\ page'.video = video
        /\ page'.error = error
        /\ page'.listLoading = page.listLoading
        /\ page'.commentsLoading = page.commentsLoading
        /\ page'.posting = page.posting /\ page'.deleting = page.deleting
    BY <2>1, <2>2 DEF TypeOK, PageState
  <2>4. TypeOK' /\ RequestsOK'
    BY <1>3, <2>3, ArrivesKeepsTypes DEF DetailArrives, Arrives
  <2>5. WatchShowsItsVideo'
    BY <1>1, <2>1, <2>3 DEF WatchShowsItsVideo, ShowsAVideo
  <2>6. WaitsOK'
    BY <1>1, <2>3, ArrivalKeepsWaits DEF WaitsOK
  <2> QED  BY <2>4, <2>5, <2>6
<1>4. CASE ~IsCurrent(q)
  <2>1. page' = page
    BY <1>4 DEF DetailArrives, Arrives
  <2>2. TypeOK' /\ RequestsOK'
    BY <1>4, ArrivesKeepsTypes DEF DetailArrives, TypeOK
  <2>3. WatchShowsItsVideo'
    BY <1>1, <2>1 DEF WatchShowsItsVideo, ShowsAVideo
  <2>4. WaitsOK'
    BY <1>1, <1>4, <2>1, ArrivalKeepsWaits DEF WaitsOK
  <2> QED  BY <2>2, <2>3, <2>4
<1> QED  BY <1>3, <1>4

LEMMA CommentsArriveKeepsInv ==
  ASSUME Inv, NEW q \in requests, CommentsArrive(q)
  PROVE  Inv'
<1> USE DEF Inv
<1>1. /\ q.kind = "comments" /\ requests' = requests \ {q}
      /\ UNCHANGED <<route, visit, mounted>>
  BY DEF CommentsArrive, Arrives
<1> DEFINE comments == CASE Succeeded(q) -> q.answer.comments
                         [] q.answer = Broken -> page.comments
                         [] OTHER -> <<>>
<1>2. comments \in Seq(Comment)
  <2>1. Succeeded(q) => q.answer.comments \in Seq(Comment)
    BY <1>1 DEF RequestsOK, Fits
  <2> QED  BY <2>1 DEF TypeOK, PageState
<1>3. page' = IF IsCurrent(q)
              THEN [page EXCEPT !.commentsLoading = FALSE, !.comments = comments]
              ELSE page
  BY DEF CommentsArrive, Arrives
<1> HIDE DEF comments
<1>4. /\ page' \in PageState
      /\ page'.loading = page.loading /\ page'.error = page.error /\ page'.video = page.video
      /\ page'.listLoading = page.listLoading
      /\ page'.posting = page.posting /\ page'.deleting = page.deleting
      /\ IF IsCurrent(q) THEN ~page'.commentsLoading ELSE page' = page
  BY <1>2, <1>3 DEF TypeOK, PageState
<1>5. TypeOK' /\ RequestsOK'
  BY <1>4, ArrivesKeepsTypes DEF CommentsArrive, Arrives
<1>6. WatchShowsItsVideo'
  BY <1>1, <1>4 DEF WatchShowsItsVideo, ShowsAVideo
<1>7. WaitsOK'
  BY <1>1, <1>4, ArrivalKeepsWaits DEF WaitsOK
<1> QED  BY <1>5, <1>6, <1>7

LEMMA PostArrivesKeepsInv ==
  ASSUME Inv, NEW q \in requests, PostArrives(q)
  PROVE  Inv'
<1> USE DEF Inv
<1>1. /\ q.kind = "post" /\ requests' = requests \ {q}
      /\ UNCHANGED <<route, visit, mounted>>
  BY DEF PostArrives, Arrives
<1> DEFINE comments == IF Succeeded(q) THEN <<q.what>> \o page.comments ELSE page.comments
<1>2. comments \in Seq(Comment)
  <2>1. q.what \in Comment /\ page.comments \in Seq(Comment)
    BY <1>1 DEF RequestsOK, Fits, TypeOK, PageState
  <2> QED  BY <2>1
<1>3. page' = IF IsMounted(q)
              THEN [page EXCEPT !.posting = FALSE, !.comments = comments]
              ELSE page
  BY DEF PostArrives, Arrives
<1> HIDE DEF comments
<1>4. /\ page' \in PageState
      /\ page'.loading = page.loading /\ page'.error = page.error /\ page'.video = page.video
      /\ page'.listLoading = page.listLoading /\ page'.commentsLoading = page.commentsLoading
      /\ page'.deleting = page.deleting
      /\ IF IsMounted(q) THEN ~page'.posting ELSE page' = page
  BY <1>2, <1>3 DEF TypeOK, PageState
<1>5. TypeOK' /\ RequestsOK'
  BY <1>4, ArrivesKeepsTypes DEF PostArrives, Arrives
<1>6. WatchShowsItsVideo'
  BY <1>1, <1>4 DEF WatchShowsItsVideo, ShowsAVideo
<1>7. WaitsOK'
  BY <1>1, <1>4, ArrivalKeepsWaits DEF WaitsOK
<1> QED  BY <1>5, <1>6, <1>7

LEMMA DeletionEndsKeepsInv ==
  ASSUME Inv, NEW q \in requests, DeletionEnds(q)
  PROVE  Inv'
<1> USE DEF Inv
<1>1. /\ q.kind = "delete" /\ requests' = requests \ {q}
      /\ UNCHANGED <<route, visit, mounted>>
      /\ page' = [page EXCEPT !.deleting = page.deleting /\ ~IsMounted(q)]
  BY DEF DeletionEnds, Arrives
<1>2. /\ page' \in PageState
      /\ page'.loading = page.loading /\ page'.error = page.error /\ page'.video = page.video
      /\ page'.listLoading = page.listLoading /\ page'.commentsLoading = page.commentsLoading
      /\ page'.posting = page.posting
      /\ page'.deleting = (page.deleting /\ ~IsMounted(q))
  BY <1>1 DEF TypeOK, PageState
<1>3. TypeOK' /\ RequestsOK'
  BY <1>2, ArrivesKeepsTypes DEF DeletionEnds, Arrives
<1>4. WatchShowsItsVideo'
  BY <1>1, <1>2 DEF WatchShowsItsVideo, ShowsAVideo
<1>5. WaitsOK'
  BY <1>1, <1>2, ArrivalKeepsWaits DEF WaitsOK
<1> QED  BY <1>3, <1>4, <1>5

LEMMA DeletionRefetchesKeepsInv ==
  ASSUME Inv, NEW q \in requests, DeletionRefetches(q)
  PROVE  Inv'
<1> DEFINE a == Ask("list", q.from, q.what, visit)
           rest == requests \ {q}
<1> USE DEF Inv
<1>1. /\ q.kind = "delete" /\ q.from.page = "channel" /\ IsMounted(q)
      /\ requests' = rest \cup {a}
      /\ UNCHANGED <<route, visit, mounted, server, lost>> /\ excused' \in BOOLEAN
      /\ page' = [page EXCEPT !.deleting = FALSE, !.listLoading = TRUE]
  BY DEF DeletionRefetches, TypeOK
<1>2. q.from \in Route /\ q.from.page = route.page /\ route.page = "channel"
  BY <1>1 DEF RequestsOK, IsRequest, Placed
<1>3. /\ page' \in PageState
      /\ page'.loading = page.loading /\ page'.error = page.error /\ page'.video = page.video
      /\ page'.commentsLoading = page.commentsLoading
      /\ page'.posting = page.posting /\ ~page'.deleting
  BY <1>1 DEF TypeOK, PageState
<1>4. TypeOK'
  BY <1>1, <1>3 DEF TypeOK, server
<1>5. /\ IsRequest(a) /\ Fits(a) /\ a.kind = "list" /\ a.visit = visit
      /\ a.from = q.from
  <2>1. /\ IsRequest(a) /\ ~Succeeded(a) /\ a.kind = "list" /\ a.from = q.from
        /\ a.visit = visit /\ a.answer = Pending
    BY <1>2, AskFacts DEF TypeOK, Kinds
  <2> QED  BY <2>1 DEF Fits
<1>6. RequestsOK'
  BY <1>1, <1>2, <1>5, AskKeepsRequests
<1>7. WatchShowsItsVideo'
  BY <1>1, <1>2 DEF WatchShowsItsVideo, ShowsAVideo
<1>8. WaitsOK'
  <2>1. Awaits({"list"})'
    BY <1>1, <1>5 DEF Awaits, IsMounted, TypeOK
  <2>2. Awaits({"post"}) => Awaits({"post"})'
    BY <1>1 DEF Awaits, IsMounted
  <2> QED  BY <1>1, <1>2, <1>3, <2>1, <2>2 DEF WaitsOK
<1> QED  BY <1>4, <1>6, <1>7, <1>8

\* The page that asked for the deletion is not one the tab stays on.
LEMMA DeletionLeavesKeepsInv ==
  ASSUME Inv, NEW q \in requests, DeletionLeaves(q)
  PROVE  Inv'
<1> DEFINE next == IF UploaderOf[q.what] = Me THEN Channel(Me) ELSE HomePage
<1> USE DEF Inv
<1>1. /\ q.kind = "delete" /\ q.from.page = "watch" /\ UNCHANGED <<server, lost>>
      /\ IsMounted(q) => route.page = "watch"
  BY DEF DeletionLeaves, RequestsOK, Placed
<1>2. next \in Route /\ next.page # "watch"
  BY ListRoutes
<1>3. CASE next # route
  <2>1. GoTo(next, requests \ {q})
    BY <1>3 DEF DeletionLeaves
  <2>2. next.page = route.page => \A r \in requests : IsMounted(r) => r \in requests \ {q}
    BY <1>1, <1>2
  <2> HIDE DEF next
  <2> QED  BY <1>1, <1>2, <2>1, <2>2, GoToKeepsInv
<1>4. CASE next = route
  <2>1. requests' = requests \ {q} /\ UNCHANGED <<route, visit, mounted, page, excused>>
    BY <1>4 DEF DeletionLeaves
  <2>2. ~IsMounted(q)
    BY <1>1, <1>2, <1>4
  <2>3. TypeOK'
    BY <1>1, <2>1 DEF TypeOK, server
  <2>4. RequestsOK'
    BY <2>1, RemovalKeepsRequests
  <2>5. WatchShowsItsVideo'
    BY <2>1 DEF WatchShowsItsVideo, ShowsAVideo
  <2>6. WaitsOK'
    BY <1>1, <2>1, <2>2, ArrivalKeepsWaits DEF WaitsOK
  <2> QED  BY <2>3, <2>4, <2>5, <2>6
<1> QED  BY <1>3, <1>4

-----------------------------------------------------------------------------
(* Settled pages.  While nothing overlapped and nothing failed, the requests *)
(* of a visit come one of a kind, and together with what the page shows they *)
(* make up what the server has.                                              *)

\* The changes and lists under way belong to this visit, and whatever belongs to
\* it was asked for its address.
InTime ==
  \A q \in requests :
    /\ Change(q) \/ (q.kind = "list" /\ IsMounted(q)) => IsCurrent(q)
    /\ IsCurrent(q) => q.from = route

\* At most one request of each kind.
Single ==
  \A p, q \in requests : IsCurrent(p) /\ IsCurrent(q) /\ p.kind = q.kind => p = q

\* None of them was lost: only a deletion is refused, by the server.
Intact ==
  \A q \in requests : IsCurrent(q) =>
    /\ q.answer # Broken
    /\ q.answer = Refused => q.kind = "delete"
    /\ q.answer = NotFound => q.kind # "list"

\* The converse of WaitsOK: what is under way disables what could overlap it.
Busy ==
  /\ AwaitsCurrent("list") => page.listLoading
  /\ AwaitsCurrent("post") => page.posting /\ ~AwaitsCurrent("comments")
  /\ AwaitsCurrent("delete") =>
       page.deleting /\ (route.page # "watch" => ~AwaitsCurrent("list"))

\* A change that was made and not yet answered at the tab.
Changed(kind) == \E q \in requests : q.kind = kind /\ IsCurrent(q) /\ Succeeded(q)
Here == route.key \in live

\* The list on its way is the server's; when none is on its way, and none will
\* be asked for, the one on the page is.
ListIsRight ==
  route.page # "watch" =>
    /\ \A q \in requests : q.kind = "list" /\ IsCurrent(q) /\ Succeeded(q) =>
         q.answer.videos = ListVideos(route.key)
    /\ ~AwaitsCurrent("list") /\ ~Changed("delete") => page.videos = ListVideos(route.key)

\* The same of the video, until a deletion makes the tab leave.
VideoIsRight ==
  route.page = "watch" /\ ~Changed("delete") =>
    /\ \A q \in requests : q.kind = "detail" /\ IsCurrent(q) =>
         (Succeeded(q) => Here) /\ (q.answer = NotFound => ~Here)
    /\ ~AwaitsCurrent("detail") =>
         ~page.error /\ page.video = IF Here THEN route.key ELSE NoVideo

\* The same of its comments; one that was accepted and not yet answered is all
\* that the page lacks.
CommentsAreRight ==
  route.page = "watch" /\ ~Changed("delete") =>
    /\ \A q \in requests : q.kind = "comments" /\ IsCurrent(q) =>
         /\ Succeeded(q) => Here /\ q.answer.comments = stored[route.key]
         /\ q.answer = NotFound => ~Here
    /\ ~AwaitsCurrent("comments") /\ ~Changed("post") =>
         page.comments = IF Here THEN stored[route.key] ELSE <<>>
    /\ \A q \in requests : q.kind = "post" /\ Succeeded(q) =>
         Here /\ stored[route.key] = <<q.what>> \o page.comments

Asked == InTime /\ Single /\ Intact /\ Busy
Right == ListIsRight /\ VideoIsRight /\ CommentsAreRight
OnTrack == ~excused => Asked /\ Right

\* A visit begins with its own requests, none of them answered.
LEMMA GoToStarts ==
  ASSUME Inv, NEW r \in Route, NEW others, others \subseteq requests, GoTo(r, others),
         ~excused'
  PROVE  Asked' /\ Right'
<1> DEFINE new == Fetches(r, visit + 1)
<1>1. /\ route' = r /\ visit' = visit + 1 /\ visit \in Nat
      /\ requests' = others \cup new
      /\ page'.listLoading
  <2>1. r.page = route.page =>
          page' = [page EXCEPT !.listLoading = TRUE, !.loading = TRUE,
                               !.error = FALSE, !.commentsLoading = TRUE]
    BY DEF GoTo
  <2>2. page'.listLoading
    BY <2>1 DEF GoTo, Fresh, Inv, TypeOK, PageState
  <2> QED  BY <2>2 DEF GoTo, Inv, TypeOK
<1>2. ASSUME NEW q \in others
      PROVE  ~IsCurrent(q)' /\ ~Change(q) /\ (q.kind = "list" => ~IsMounted(q)')
  <2>1. q.visit \in Nat /\ q.visit <= visit
    BY DEF Inv, RequestsOK, IsRequest, Placed
  <2>2. ~IsCurrent(q)'
    BY <1>1, <2>1 DEF IsCurrent
  <2>3. ~Change(q) /\ (r.page = route.page /\ q.kind = "list" => ~IsMounted(q))
    BY DEF GoTo
  <2> QED  BY <1>1, <2>1, <2>2, <2>3 DEF GoTo, IsMounted
<1>3. ASSUME NEW q \in new
      PROVE  /\ q.from = r /\ q.visit = visit + 1 /\ q.answer = Pending
             /\ q.kind \in {"list", "detail", "comments"}
             /\ q.kind = "list" <=> r.page # "watch"
  BY DEF Fetches, Ask
<1>4. \A p, q \in new : p.kind = q.kind => p = q
  BY DEF Fetches, Ask
<1>5. \A q \in requests' : IsCurrent(q)' <=> q \in new
  BY <1>1, <1>2, <1>3 DEF IsCurrent
<1> HIDE DEF new
<1>6. InTime' /\ Single' /\ Intact'
  <2>1. InTime'
    BY <1>1, <1>2, <1>3, <1>5 DEF InTime, Change
  <2>2. Single'
    BY <1>4, <1>5 DEF Single
  <2>3. Intact'
    BY <1>3, <1>5 DEF Intact, Pending, Broken, Refused, NotFound
  <2> QED  BY <2>1, <2>2, <2>3
<1>7. /\ ~AwaitsCurrent("post")' /\ ~AwaitsCurrent("delete")'
      /\ r.page # "watch" => AwaitsCurrent("list")'
      /\ r.page = "watch" => AwaitsCurrent("detail")' /\ AwaitsCurrent("comments")'
  BY <1>1, <1>3, <1>5, Fetched DEF AwaitsCurrent, IsCurrent, new
<1>8. \A q \in requests' : /\ IsCurrent(q)' => q.answer = Pending
                           /\ Change(q) => FALSE
  BY <1>1, <1>2, <1>3, <1>5 DEF Change
<1>9. Busy'
  BY <1>1, <1>7 DEF Busy
<1>10. Right'
  BY <1>1, <1>7, <1>8 DEF Right, ListIsRight, VideoIsRight, CommentsAreRight, Change,
     Succeeded, Pending, NotFound
<1> QED  BY <1>6, <1>9, <1>10 DEF Asked

\* The first visit begins the same way.
LEMMA InitOnTrack == Init => OnTrack
<1> SUFFICES ASSUME Init  PROVE Asked /\ Right
  BY DEF OnTrack
<1>1. \A q \in requests : /\ q.from = route /\ q.visit = 0 /\ q.answer = Pending
                          /\ q.kind \in {"list", "detail", "comments"}
                          /\ q.kind = "list" <=> route.page # "watch"
  BY DEF Init, Fetches, Ask
<1>2. Single
  BY DEF Init, Fetches, Ask, Single
<1>3. InTime /\ Intact /\ visit = 0
  BY <1>1 DEF Init, InTime, Intact, IsCurrent, Pending, Broken, Refused, NotFound
<1>4. /\ ~AwaitsCurrent("post") /\ ~AwaitsCurrent("delete")
      /\ route.page # "watch" => AwaitsCurrent("list")
      /\ route.page = "watch" => AwaitsCurrent("detail") /\ AwaitsCurrent("comments")
  BY <1>1, <1>3, Fetched DEF Init, AwaitsCurrent, IsCurrent
<1>5. Busy
  BY <1>4 DEF Init, Busy, Fresh
<1>6. Right
  BY <1>1, <1>4 DEF Right, ListIsRight, VideoIsRight, CommentsAreRight, Succeeded, Pending, NotFound
<1> QED  BY <1>2, <1>3, <1>5, <1>6 DEF Asked

\* What belongs to this visit belongs to the mounted page.
LEMMA CurrentIsMounted ==
  ASSUME Inv, NEW q, IsCurrent(q)
  PROVE  IsMounted(q)
BY DEF Inv, TypeOK, IsCurrent, IsMounted

\* An answer says nothing of the other requests, and lets none end or begin.
LEMMA AnswerKeepsAsked ==
  ASSUME Inv, Asked, NEW q \in requests, NEW body, Answer(q, body),
         UNCHANGED <<route, visit, mounted, page>>,
         body # Broken, body = Refused => q.kind = "delete", body = NotFound => q.kind # "list"
  PROVE  /\ Asked'
         /\ \E a : /\ requests' = (requests \ {q}) \cup {a}
                   /\ a.kind = q.kind /\ a.from = q.from /\ a.what = q.what
                   /\ a.visit = q.visit /\ a.answer = body
         /\ \A kind : AwaitsCurrent(kind)' <=> AwaitsCurrent(kind)
         /\ \A kind : kind # q.kind => (Changed(kind)' <=> Changed(kind))
<1> DEFINE a == [q EXCEPT !.answer = body]
<1>1. /\ a.kind = q.kind /\ a.from = q.from /\ a.what = q.what
      /\ a.visit = q.visit /\ a.answer = body
  BY DEF Inv, RequestsOK, IsRequest
<1>2. requests' = (requests \ {q}) \cup {a}
  BY DEF Answer
<1> HIDE DEF a
<1> USE DEF IsCurrent
<1>3. InTime' /\ Single' /\ Intact'
  <2>1. InTime'
    BY <1>1, <1>2 DEF Asked, InTime, Change, IsMounted
  <2>2. Single'
    BY <1>1, <1>2 DEF Asked, Single
  <2>3. Intact'
    BY <1>1, <1>2 DEF Asked, Intact
  <2> QED  BY <2>1, <2>2, <2>3
<1>4. \A kind : AwaitsCurrent(kind)' <=> AwaitsCurrent(kind)
  BY <1>1, <1>2 DEF AwaitsCurrent
<1>5. \A kind : kind # q.kind => (Changed(kind)' <=> Changed(kind))
  BY <1>1, <1>2 DEF Changed, Succeeded
<1>6. Busy'
  BY <1>4 DEF Asked, Busy
<1> QED  BY <1>1, <1>2, <1>3, <1>4, <1>5, <1>6 DEF Asked

\* One request fewer.
LEMMA RemovalKeepsAsked ==
  ASSUME Inv, Asked, NEW q \in requests, requests' = requests \ {q},
         UNCHANGED <<route, visit, mounted>>
  PROVE  /\ InTime' /\ Single' /\ Intact'
         /\ \A kind : AwaitsCurrent(kind)' <=>
              AwaitsCurrent(kind) /\ ~(IsCurrent(q) /\ kind = q.kind)
         /\ \A kind : Changed(kind)' <=>
              Changed(kind) /\ ~(IsCurrent(q) /\ kind = q.kind)
<1>1. InTime' /\ Single' /\ Intact'
  BY DEF Asked, InTime, Single, Intact, Change, IsCurrent, IsMounted
<1>2. \A kind : AwaitsCurrent(kind)' <=>
        AwaitsCurrent(kind) /\ ~(IsCurrent(q) /\ kind = q.kind)
  BY DEF Asked, Single, AwaitsCurrent, IsCurrent
<1>3. \A kind : Changed(kind)' <=>
        Changed(kind) /\ ~(IsCurrent(q) /\ kind = q.kind)
  BY DEF Asked, Single, Changed, IsCurrent, Succeeded
<1> QED  BY <1>1, <1>2, <1>3

\* One request more, of a kind of which there was none.
LEMMA AskKeepsAsked ==
  ASSUME Inv, Asked, NEW rest, rest \subseteq requests,
         NEW a, requests' = rest \cup {a}, UNCHANGED <<route, visit, mounted>>,
         a.visit = visit, a.from = route, a.answer = Pending,
         \A r \in rest : r.kind = a.kind => ~IsCurrent(r)
  PROVE  /\ InTime' /\ Single' /\ Intact'
         /\ \A kind : AwaitsCurrent(kind)' <=>
              kind = a.kind \/ \E r \in rest : r.kind = kind /\ IsCurrent(r)
         /\ \A kind : Changed(kind)' <=>
              \E r \in rest : r.kind = kind /\ IsCurrent(r) /\ Succeeded(r)
<1> USE DEF IsCurrent
<1>1. InTime'
  BY DEF Asked, InTime, Change, IsMounted
<1>2. Single'
  BY DEF Asked, Single
<1>3. Intact'
  BY DEF Asked, Intact, Pending, Broken, Refused, NotFound
<1>4. \A kind : AwaitsCurrent(kind)' <=>
        kind = a.kind \/ \E r \in rest : r.kind = kind /\ IsCurrent(r)
  BY DEF AwaitsCurrent
<1>5. \A kind : Changed(kind)' <=>
        \E r \in rest : r.kind = kind /\ IsCurrent(r) /\ Succeeded(r)
  BY DEF Changed, Succeeded, Pending
<1> QED  BY <1>1, <1>2, <1>3, <1>4, <1>5

-----------------------------------------------------------------------------
(* The steps of the user and the server keep a page on track. *)

LEMMA PostCommentOnTrack ==
  ASSUME Inv, OnTrack, NEW c \in Comment, PostComment(c)
  PROVE  OnTrack'
<1> SUFFICES ASSUME ~excused'  PROVE Asked' /\ Right'
  BY DEF OnTrack
<1> DEFINE a == Ask("post", route, c, visit)
<1>1. /\ Asked /\ Right /\ ~page.posting /\ route.page = "watch"
      /\ UNCHANGED <<route, visit, mounted, live, stored, teacher>>
      /\ requests' = requests \cup {a}
      /\ ~AwaitsCurrent("comments") /\ ~AwaitsCurrent("post")
  BY DEF OnTrack, Asked, Busy, PostComment, ShowsAVideo, server, AwaitsCurrent
<1>2. /\ page'.videos = page.videos /\ page'.video = page.video /\ page'.error = page.error
      /\ page'.comments = page.comments /\ page'.listLoading = page.listLoading
      /\ page'.deleting = page.deleting /\ page'.posting
  BY DEF PostComment, Inv, TypeOK, PageState
<1>3. a.kind = "post" /\ a.visit = visit /\ a.from = route /\ a.answer = Pending
  BY DEF Ask
<1> HIDE DEF a
<1>4. /\ InTime' /\ Single' /\ Intact'
      /\ \A kind : AwaitsCurrent(kind)' <=> kind = "post" \/ AwaitsCurrent(kind)
      /\ \A kind : Changed(kind)' <=> Changed(kind)
  <2>1. \A r \in requests : r.kind = a.kind => ~IsCurrent(r)
    BY <1>1, <1>3 DEF AwaitsCurrent
  <2>2. /\ InTime' /\ Single' /\ Intact'
        /\ \A kind : AwaitsCurrent(kind)' <=>
             kind = a.kind \/ \E r \in requests : r.kind = kind /\ IsCurrent(r)
        /\ \A kind : Changed(kind)' <=>
             \E r \in requests : r.kind = kind /\ IsCurrent(r) /\ Succeeded(r)
    BY <1>1, <1>3, <2>1, AskKeepsAsked
  <2> QED  BY <1>3, <2>2 DEF AwaitsCurrent, Changed
<1>5. Busy'
  BY <1>1, <1>2, <1>4 DEF Busy, Asked
<1>6. Right'
  BY <1>1, <1>2, <1>3, <1>4 DEF Right, ListIsRight, VideoIsRight, CommentsAreRight, Here,
     IsCurrent, Succeeded, Pending
<1> QED  BY <1>4, <1>5, <1>6 DEF Asked

LEMMA DeleteVideoOnTrack ==
  ASSUME Inv, OnTrack, NEW v \in Video, DeleteVideo(v)
  PROVE  OnTrack'
<1> SUFFICES ASSUME ~excused'  PROVE Asked' /\ Right'
  BY DEF OnTrack
<1> DEFINE a == Ask("delete", route, v, visit)
<1>1. /\ Asked /\ Right /\ ~page.deleting
      /\ UNCHANGED <<route, visit, mounted, live, stored, teacher>>
      /\ requests' = requests \cup {a}
      /\ route.page # "watch" => ~AwaitsCurrent("list")
      /\ ~AwaitsCurrent("delete")
  BY DEF OnTrack, Asked, Busy, DeleteVideo, OffersDelete, ShowsAVideo, server
<1>2. /\ page'.videos = page.videos /\ page'.video = page.video /\ page'.error = page.error
      /\ page'.comments = page.comments /\ page'.listLoading = page.listLoading
      /\ page'.deleting /\ page'.posting = page.posting
  BY DEF DeleteVideo, Inv, TypeOK, PageState
<1>3. a.kind = "delete" /\ a.visit = visit /\ a.from = route /\ a.answer = Pending
  BY DEF Ask
<1> HIDE DEF a
<1>4. /\ InTime' /\ Single' /\ Intact'
      /\ \A kind : AwaitsCurrent(kind)' <=> kind = "delete" \/ AwaitsCurrent(kind)
      /\ \A kind : Changed(kind)' <=> Changed(kind)
  <2>1. \A r \in requests : r.kind = a.kind => ~IsCurrent(r)
    BY <1>1, <1>3 DEF AwaitsCurrent
  <2>2. /\ InTime' /\ Single' /\ Intact'
        /\ \A kind : AwaitsCurrent(kind)' <=>
             kind = a.kind \/ \E r \in requests : r.kind = kind /\ IsCurrent(r)
        /\ \A kind : Changed(kind)' <=>
             \E r \in requests : r.kind = kind /\ IsCurrent(r) /\ Succeeded(r)
    BY <1>1, <1>3, <2>1, AskKeepsAsked
  <2> QED  BY <1>3, <2>2 DEF AwaitsCurrent, Changed
<1>5. Busy'
  BY <1>1, <1>2, <1>4 DEF Busy, Asked
<1>6. Right'
  <2>1. ListVideos(route.key)' = ListVideos(route.key)
    BY <1>1 DEF ListVideos, ListPublished, ListForTeacher
  <2> QED
    BY <1>1, <1>2, <1>3, <1>4, <2>1 DEF Right, ListIsRight, VideoIsRight, CommentsAreRight,
       Here, IsCurrent, Succeeded, Pending
<1> QED  BY <1>4, <1>5, <1>6 DEF Asked

\* An answer that changes nothing on the server: what it says is what it has.
LEMMA ReadOnTrack ==
  ASSUME Inv, OnTrack, NEW q \in requests,
         HandleVideosList(q) \/ HandleVideosGet(q) \/ HandleCommentsList(q)
  PROVE  OnTrack'
<1> SUFFICES ASSUME ~excused'  PROVE Asked' /\ Right'
  BY DEF OnTrack
<1>1. PICK body :
        /\ Answer(q, body) /\ body # Broken /\ body # Refused
        /\ body = NotFound => q.kind # "list"
        /\ q.kind \in {"list", "detail", "comments"}
        /\ q.kind = "list" => body = DoneWith(ListVideos(q.from.key))
        /\ q.kind = "detail" => body = IF q.from.key \in live THEN Done ELSE NotFound
        /\ q.kind = "comments" =>
             body = IF q.from.key \in live THEN DoneWithComments(stored[q.from.key])
                    ELSE NotFound
  <2>1. ASSUME HandleVideosList(q)
        PROVE  q.kind = "list" /\ Answer(q, DoneWith(ListVideos(q.from.key)))
    BY <2>1 DEF HandleVideosList, Reads
  <2>2. ASSUME HandleVideosGet(q)
        PROVE  q.kind = "detail" /\ Answer(q, IF q.from.key \in live THEN Done ELSE NotFound)
    BY <2>2 DEF HandleVideosGet, Reads
  <2>3. ASSUME HandleCommentsList(q)
        PROVE  /\ q.kind = "comments"
               /\ Answer(q, IF q.from.key \in live
                            THEN DoneWithComments(stored[q.from.key]) ELSE NotFound)
    BY <2>3 DEF HandleCommentsList, Reads
  <2>4. \A videos, s : /\ DoneWith(videos).is = "ok" /\ DoneWithComments(s).is = "ok"
                       /\ Done.is = "ok" /\ NotFound.is = "notFound"
                       /\ Broken.is = "broken" /\ Refused.is = "refused"
    BY DEF DoneWith, DoneWithComments, Done, NotFound, Broken, Refused
  <2> QED  BY <2>1, <2>2, <2>3, <2>4
<1>2. /\ Asked /\ Right
      /\ UNCHANGED <<route, visit, mounted, page, live, stored, teacher>>
  BY DEF OnTrack, HandleVideosList, HandleVideosGet, HandleCommentsList, Reads, server
<1>3. /\ Asked'
      /\ \A kind : AwaitsCurrent(kind)' <=> AwaitsCurrent(kind)
      /\ Changed("delete")' <=> Changed("delete")
      /\ Changed("post")' <=> Changed("post")
  BY <1>1, <1>2, AnswerKeepsAsked
<1>4. PICK a : /\ requests' = (requests \ {q}) \cup {a}
               /\ a.kind = q.kind /\ a.from = q.from /\ a.visit = q.visit /\ a.answer = body
  BY <1>1, <1>2, AnswerKeepsAsked
<1>5. IsCurrent(q) => q.from = route
  BY <1>2 DEF Asked, InTime
<1>6. /\ ListVideos(route.key)' = ListVideos(route.key)
      /\ q.kind = "list" => a.answer.videos = ListVideos(q.from.key)
  BY <1>1, <1>2, <1>4 DEF ListVideos, ListPublished, ListForTeacher, DoneWith
<1>7. /\ q.kind = "comments" /\ Succeeded(a) =>
           q.from.key \in live /\ a.answer.comments = stored[q.from.key]
      /\ q.kind = "detail" /\ Succeeded(a) => q.from.key \in live
      /\ q.kind \in {"detail", "comments"} /\ a.answer = NotFound => q.from.key \notin live
  BY <1>1, <1>4 DEF DoneWithComments, Done, NotFound, Succeeded
<1>8. \A r \in requests' : r = a \/ r \in requests
  BY <1>4
<1>9. ListIsRight'
  BY <1>2, <1>3, <1>4, <1>5, <1>6, <1>8 DEF Right, ListIsRight, IsCurrent, Succeeded
<1>10. VideoIsRight'
  BY <1>2, <1>3, <1>4, <1>5, <1>7, <1>8 DEF Right, VideoIsRight, IsCurrent, Succeeded, Here
<1>11. CommentsAreRight'
  BY <1>1, <1>2, <1>3, <1>4, <1>5, <1>7, <1>8
  DEF Right, CommentsAreRight, IsCurrent, Succeeded, Here
<1> QED  BY <1>3, <1>9, <1>10, <1>11 DEF Right

\* The comment that is stored is what the page still lacks.
LEMMA CommentsCreateOnTrack ==
  ASSUME Inv, OnTrack, NEW q \in requests, HandleCommentsCreate(q)
  PROVE  OnTrack'
<1> SUFFICES ASSUME ~excused'  PROVE Asked' /\ Right'
  BY DEF OnTrack
<1>1. /\ Asked /\ Right /\ q.kind = "post" /\ ~Succeeded(q)
      /\ UNCHANGED <<route, visit, mounted, page, live, teacher>>
  BY DEF OnTrack, HandleCommentsCreate, Succeeded, Pending
<1>2. /\ IsCurrent(q) /\ q.from = route /\ route.page = "watch" /\ route.key \in Video
      /\ ~AwaitsCurrent("comments")
  <2>1. IsCurrent(q) /\ q.from = route
    BY <1>1 DEF Asked, InTime, Change
  <2>2. q.from.page = "watch" /\ q.from.key \in Video
    BY <1>1 DEF Inv, RequestsOK, Fits
  <2> QED  BY <1>1, <2>1, <2>2 DEF Asked, Busy, AwaitsCurrent
<1>3. PICK body : /\ Answer(q, body) /\ body # Broken /\ body # Refused
                  /\ body = IF Here THEN Done ELSE NotFound
  <2>1. Done # Broken /\ Done # Refused /\ NotFound # Broken /\ NotFound # Refused
    BY DEF Done, NotFound, Broken, Refused
  <2> QED  BY <1>2, <2>1 DEF HandleCommentsCreate, Here
<1>4. /\ Asked'
      /\ \A kind : AwaitsCurrent(kind)' <=> AwaitsCurrent(kind)
      /\ Changed("delete")' <=> Changed("delete")
  BY <1>1, <1>3, AnswerKeepsAsked
<1>5. PICK a : /\ requests' = (requests \ {q}) \cup {a}
               /\ a.kind = "post" /\ a.what = q.what /\ a.visit = q.visit /\ a.answer = body
  BY <1>1, <1>3, AnswerKeepsAsked
<1>6. ~Changed("post")
  BY <1>1, <1>2 DEF Asked, Single, Changed
<1>7. \A r \in requests' : r = a \/ r \in requests
  BY <1>5
<1>8. ListIsRight' /\ VideoIsRight'
  BY <1>1, <1>2, <1>4, <1>5, <1>7
  DEF Right, ListIsRight, VideoIsRight, IsCurrent, Succeeded, Here
<1>9. CommentsAreRight'
  <2> SUFFICES ASSUME ~Changed("delete")  PROVE CommentsAreRight'
    BY <1>4 DEF CommentsAreRight
  <2>1. page.comments = IF Here THEN stored[route.key] ELSE <<>>
    BY <1>1, <1>2, <1>6 DEF Right, CommentsAreRight
  <2>2. \A r \in requests' : r.kind = "post" /\ Succeeded(r)' => r = a
    BY <1>1, <1>2, <1>7 DEF Asked, InTime, Single, Change, Succeeded
  <2>3. CASE Here
    <3>1. /\ Changed("post")' /\ Here'
          /\ stored' = [stored EXCEPT ![route.key] = <<q.what>> \o stored[route.key]]
      <4>1. IsCurrent(a)' /\ Succeeded(a)'
        BY <1>1, <1>2, <1>3, <1>5, <2>3 DEF IsCurrent, Succeeded, Done
      <4>2. Changed("post")'
        BY <1>5, <4>1 DEF Changed
      <4> QED  BY <1>1, <1>2, <2>3, <4>2 DEF Here, HandleCommentsCreate
    <3>2. stored'[route.key] = <<a.what>> \o page.comments
      BY <1>2, <1>5, <2>1, <2>3, <3>1 DEF Inv, TypeOK
    <3> QED
      BY <1>1, <1>2, <1>4, <2>2, <3>1, <3>2 DEF CommentsAreRight, AwaitsCurrent
  <2>4. CASE ~Here
    <3>1. stored' = stored /\ ~Succeeded(a)' /\ ~Here'
      BY <1>1, <1>2, <1>3, <1>5, <2>4 DEF HandleCommentsCreate, Succeeded, NotFound, Here
    <3> QED
      BY <1>1, <1>2, <1>4, <2>1, <2>2, <2>4, <3>1 DEF CommentsAreRight, AwaitsCurrent
  <2> QED  BY <2>3, <2>4
<1> QED  BY <1>4, <1>8, <1>9 DEF Right

\* After a deletion that was made nothing is right until its answer arrives, and
\* nothing needs to be: the page will load again or be left.
LEMMA VideosDeleteOnTrack ==
  ASSUME Inv, OnTrack, NEW q \in requests, HandleVideosDelete(q)
  PROVE  OnTrack'
<1> SUFFICES ASSUME ~excused'  PROVE Asked' /\ Right'
  BY DEF OnTrack
<1>1. /\ Asked /\ Right /\ q.kind = "delete" /\ ~Succeeded(q)
      /\ UNCHANGED <<route, visit, mounted, page, stored, teacher>>
  BY DEF OnTrack, HandleVideosDelete, Succeeded, Pending
<1>2. /\ IsCurrent(q)
      /\ route.page # "watch" => ~AwaitsCurrent("list")
  <2>1. IsCurrent(q)
    BY <1>1 DEF Asked, InTime, Change
  <2> QED  BY <1>1, <2>1 DEF Asked, Busy, AwaitsCurrent
<1>3. PICK body : /\ Answer(q, body) /\ body \in {Done, Refused, NotFound}
                  /\ body # Done => live' = live
  BY DEF HandleVideosDelete
<1>4. body # Broken
  BY <1>3 DEF Done, Refused, NotFound, Broken
<1>5. /\ Asked'
      /\ \A kind : AwaitsCurrent(kind)' <=> AwaitsCurrent(kind)
      /\ Changed("post")' <=> Changed("post")
  BY <1>1, <1>3, <1>4, AnswerKeepsAsked
<1>6. PICK a : /\ requests' = (requests \ {q}) \cup {a}
               /\ a.kind = "delete" /\ a.visit = q.visit /\ a.answer = body
  BY <1>1, <1>3, <1>4, AnswerKeepsAsked
<1>7. \A r \in requests' : r = a \/ r \in requests
  BY <1>6
<1>8. CASE body = Done
  <2>1. IsCurrent(a)' /\ Succeeded(a)'
    BY <1>1, <1>2, <1>6, <1>8 DEF IsCurrent, Succeeded, Done
  <2>2. Changed("delete")'
    BY <1>6, <2>1 DEF Changed
  <2> QED
    BY <1>1, <1>2, <1>5, <2>2 DEF Right, ListIsRight, VideoIsRight, CommentsAreRight, AwaitsCurrent
<1>9. CASE body # Done
  <2>1. ~Succeeded(a)
    BY <1>3, <1>6, <1>9 DEF Succeeded, Refused, NotFound
  <2>2. Changed("delete")' <=> Changed("delete")
    BY <1>1, <1>6, <2>1 DEF Changed, Succeeded, IsCurrent
  <2>3. ListVideos(route.key)' = ListVideos(route.key) /\ Here' = Here
    BY <1>1, <1>3, <1>9 DEF ListVideos, ListPublished, ListForTeacher, Here
  <2>4. ListIsRight' /\ VideoIsRight'
    BY <1>1, <1>5, <1>6, <1>7, <2>2, <2>3
    DEF Right, ListIsRight, VideoIsRight, IsCurrent, Succeeded
  <2>5. CommentsAreRight'
    BY <1>1, <1>5, <1>6, <1>7, <2>2, <2>3 DEF Right, CommentsAreRight, IsCurrent, Succeeded
  <2> QED  BY <1>5, <2>4, <2>5 DEF Right
<1> QED  BY <1>8, <1>9

-----------------------------------------------------------------------------
(* The arrival of an answer keeps a page on track. *)

LEMMA ListArrivesOnTrack ==
  ASSUME Inv, OnTrack, NEW q \in requests, ListArrives(q)
  PROVE  OnTrack'
<1> SUFFICES ASSUME ~excused'  PROVE Asked' /\ Right'
  BY DEF OnTrack
<1>1. /\ Asked /\ Right /\ q.kind = "list" /\ q.answer # Pending /\ requests' = requests \ {q}
      /\ UNCHANGED <<route, visit, mounted, live, stored, teacher>>
  BY DEF OnTrack, ListArrives, Arrives, server
<1>2. IsMounted(q) <=> IsCurrent(q)
  BY <1>1, CurrentIsMounted DEF Asked, InTime
<1>3. IsCurrent(q) => Succeeded(q)
  BY <1>1 DEF Inv, RequestsOK, Fits, Asked, Intact
<1>4. /\ page'.video = page.video /\ page'.error = page.error
      /\ page'.comments = page.comments
      /\ page'.posting = page.posting /\ page'.deleting = page.deleting
      /\ IF IsCurrent(q) THEN page'.videos = q.answer.videos ELSE page' = page
  BY <1>2, <1>3 DEF ListArrives, Arrives, Inv, TypeOK, PageState
<1>5. /\ InTime' /\ Single' /\ Intact'
      /\ AwaitsCurrent("list")' <=> AwaitsCurrent("list") /\ ~IsCurrent(q)
      /\ \A kind : kind # "list" => (AwaitsCurrent(kind)' <=> AwaitsCurrent(kind))
      /\ \A kind : kind # "list" => (Changed(kind)' <=> Changed(kind))
  BY <1>1, RemovalKeepsAsked
<1>6. Busy'
  BY <1>1, <1>4, <1>5 DEF Asked, Busy
<1>7. ListVideos(route.key)' = ListVideos(route.key)
  BY <1>1 DEF ListVideos, ListPublished, ListForTeacher
<1>8. ListIsRight'
  BY <1>1, <1>3, <1>4, <1>5, <1>7 DEF Right, ListIsRight, IsCurrent, Succeeded
<1>9. VideoIsRight' /\ CommentsAreRight'
  BY <1>1, <1>4, <1>5 DEF Right, VideoIsRight, CommentsAreRight, IsCurrent, Succeeded, Here
<1> QED  BY <1>5, <1>6, <1>8, <1>9 DEF Asked, Right

LEMMA DetailArrivesOnTrack ==
  ASSUME Inv, OnTrack, NEW q \in requests, DetailArrives(q)
  PROVE  OnTrack'
<1> SUFFICES ASSUME ~excused'  PROVE Asked' /\ Right'
  BY DEF OnTrack
<1>1. /\ Asked /\ Right /\ q.kind = "detail" /\ q.answer # Pending /\ requests' = requests \ {q}
      /\ UNCHANGED <<route, visit, mounted, live, stored, teacher>>
  BY DEF OnTrack, DetailArrives, Arrives, server
<1>2. IsCurrent(q) => /\ q.from = route /\ q.answer \notin {Refused, Broken}
                      /\ Succeeded(q) \/ q.answer = NotFound
  BY <1>1 DEF Inv, RequestsOK, Fits, Asked, InTime, Intact
<1>3. /\ page'.videos = page.videos /\ page'.comments = page.comments
      /\ page'.listLoading = page.listLoading
      /\ page'.posting = page.posting /\ page'.deleting = page.deleting
      /\ IF IsCurrent(q)
         THEN ~page'.error /\ page'.video = IF Succeeded(q) THEN route.key ELSE NoVideo
         ELSE page' = page
  <2>1. CASE IsCurrent(q)
    <3> DEFINE video == CASE Succeeded(q) -> q.from.key
                          [] q.answer = NotFound -> NoVideo
                          [] OTHER -> page.video
               error == q.answer \in {Refused, Broken}
    <3>1. ~error /\ video = IF Succeeded(q) THEN route.key ELSE NoVideo
      BY <1>2, <2>1 DEF Succeeded, NotFound
    <3>2. page' = [page EXCEPT !.loading = FALSE, !.error = error, !.video = video]
      BY <2>1 DEF DetailArrives, Arrives
    <3> HIDE DEF video, error
    <3> QED  BY <2>1, <3>1, <3>2 DEF Inv, TypeOK, PageState
  <2>2. CASE ~IsCurrent(q)
    BY <2>2 DEF DetailArrives, Arrives
  <2> QED  BY <2>1, <2>2
<1>4. /\ InTime' /\ Single' /\ Intact'
      /\ AwaitsCurrent("detail")' <=> AwaitsCurrent("detail") /\ ~IsCurrent(q)
      /\ \A kind : kind # "detail" => (AwaitsCurrent(kind)' <=> AwaitsCurrent(kind))
      /\ \A kind : kind # "detail" => (Changed(kind)' <=> Changed(kind))
  BY <1>1, RemovalKeepsAsked
<1>5. Busy'
  BY <1>1, <1>3, <1>4 DEF Asked, Busy
<1>6. ListVideos(route.key)' = ListVideos(route.key)
  BY <1>1 DEF ListVideos, ListPublished, ListForTeacher
<1>7. ListIsRight' /\ CommentsAreRight'
  BY <1>1, <1>3, <1>4, <1>6 DEF Right, ListIsRight, CommentsAreRight, IsCurrent, Succeeded, Here
<1>8. VideoIsRight'
  BY <1>1, <1>2, <1>3, <1>4 DEF Right, VideoIsRight, IsCurrent, Succeeded, Here
<1> QED  BY <1>4, <1>5, <1>7, <1>8 DEF Asked, Right

LEMMA CommentsArriveOnTrack ==
  ASSUME Inv, OnTrack, NEW q \in requests, CommentsArrive(q)
  PROVE  OnTrack'
<1> SUFFICES ASSUME ~excused'  PROVE Asked' /\ Right'
  BY DEF OnTrack
<1>1. /\ Asked /\ Right /\ q.kind = "comments" /\ q.answer # Pending
      /\ requests' = requests \ {q}
      /\ UNCHANGED <<route, visit, mounted, live, stored, teacher>>
  BY DEF OnTrack, CommentsArrive, Arrives, server
<1>2. IsCurrent(q) => /\ q.from = route /\ q.answer # Broken
                      /\ Succeeded(q) \/ q.answer = NotFound
                      /\ ~AwaitsCurrent("post")
  <2>1. ASSUME IsCurrent(q)  PROVE AwaitsCurrent("comments")
    BY <1>1, <2>1 DEF AwaitsCurrent
  <2> QED  BY <1>1, <2>1 DEF Inv, RequestsOK, Fits, Asked, InTime, Intact, Busy
<1>3. /\ page'.videos = page.videos /\ page'.video = page.video /\ page'.error = page.error
      /\ page'.listLoading = page.listLoading
      /\ page'.posting = page.posting /\ page'.deleting = page.deleting
      /\ IF IsCurrent(q)
         THEN page'.comments = IF Succeeded(q) THEN q.answer.comments ELSE <<>>
         ELSE page' = page
  <2>1. CASE IsCurrent(q)
    <3>1. page' = [page EXCEPT !.commentsLoading = FALSE,
                               !.comments = IF Succeeded(q) THEN q.answer.comments ELSE <<>>]
      BY <1>2, <2>1 DEF CommentsArrive, Arrives
    <3> QED  BY <2>1, <3>1 DEF Inv, TypeOK, PageState
  <2>2. CASE ~IsCurrent(q)
    BY <2>2 DEF CommentsArrive, Arrives
  <2> QED  BY <2>1, <2>2
<1>4. /\ InTime' /\ Single' /\ Intact'
      /\ AwaitsCurrent("comments")' <=> AwaitsCurrent("comments") /\ ~IsCurrent(q)
      /\ \A kind : kind # "comments" => (AwaitsCurrent(kind)' <=> AwaitsCurrent(kind))
      /\ \A kind : kind # "comments" => (Changed(kind)' <=> Changed(kind))
  BY <1>1, RemovalKeepsAsked
<1>5. Busy'
  BY <1>1, <1>3, <1>4 DEF Asked, Busy
<1>6. ListVideos(route.key)' = ListVideos(route.key)
  BY <1>1 DEF ListVideos, ListPublished, ListForTeacher
<1>7. ListIsRight' /\ VideoIsRight'
  BY <1>1, <1>3, <1>4, <1>6 DEF Right, ListIsRight, VideoIsRight, IsCurrent, Succeeded, Here
<1>8. CommentsAreRight'
  <2>1. CASE IsCurrent(q)
    <3>1. \A r \in requests : r.kind # "post"
      BY <1>1, <1>2, <2>1 DEF AwaitsCurrent, Asked, InTime, Change
    <3>2. ~Changed("delete") /\ route.page = "watch" =>
            page'.comments = IF Here THEN stored[route.key] ELSE <<>>
      BY <1>1, <1>2, <1>3, <2>1 DEF Right, CommentsAreRight
    <3>3. \A r \in requests' : r.kind # "comments" \/ ~IsCurrent(r)'
      BY <1>1, <2>1 DEF Asked, Single, IsCurrent
    <3> QED
      BY <1>1, <1>4, <3>1, <3>2, <3>3 DEF CommentsAreRight, Here
  <2>2. CASE ~IsCurrent(q)
    BY <1>1, <1>3, <1>4, <2>2 DEF Right, CommentsAreRight, IsCurrent, Succeeded, Here
  <2> QED  BY <2>1, <2>2
<1> QED  BY <1>4, <1>5, <1>7, <1>8 DEF Asked, Right

LEMMA PostArrivesOnTrack ==
  ASSUME Inv, OnTrack, NEW q \in requests, PostArrives(q)
  PROVE  OnTrack'
<1> SUFFICES ASSUME ~excused'  PROVE Asked' /\ Right'
  BY DEF OnTrack
<1>1. /\ Asked /\ Right /\ q.kind = "post" /\ requests' = requests \ {q}
      /\ UNCHANGED <<route, visit, mounted, live, stored, teacher>>
  BY DEF OnTrack, PostArrives, Arrives, server
<1>2. IsCurrent(q) /\ IsMounted(q) /\ ~AwaitsCurrent("comments")
  <2>1. IsCurrent(q)
    BY <1>1 DEF Asked, InTime, Change
  <2> QED  BY <1>1, <2>1, CurrentIsMounted DEF Asked, Busy, AwaitsCurrent
<1>3. /\ page'.videos = page.videos /\ page'.video = page.video /\ page'.error = page.error
      /\ page'.listLoading = page.listLoading /\ page'.deleting = page.deleting
      /\ page'.comments = IF Succeeded(q) THEN <<q.what>> \o page.comments ELSE page.comments
  BY <1>2 DEF PostArrives, Arrives, Inv, TypeOK, PageState
<1>4. /\ InTime' /\ Single' /\ Intact'
      /\ ~AwaitsCurrent("post")'
      /\ \A kind : kind # "post" => (AwaitsCurrent(kind)' <=> AwaitsCurrent(kind))
      /\ \A kind : kind # "post" => (Changed(kind)' <=> Changed(kind))
  BY <1>1, <1>2, RemovalKeepsAsked
<1>5. Busy'
  BY <1>1, <1>3, <1>4 DEF Asked, Busy
<1>6. ListVideos(route.key)' = ListVideos(route.key)
  BY <1>1 DEF ListVideos, ListPublished, ListForTeacher
<1>7. ListIsRight' /\ VideoIsRight'
  BY <1>1, <1>3, <1>4, <1>6 DEF Right, ListIsRight, VideoIsRight, IsCurrent, Succeeded, Here
<1>8. CommentsAreRight'
  <2>1. \A r \in requests' : r.kind # "post"
    BY <1>1, <1>2 DEF Asked, InTime, Single, Change
  <2>2. Changed("post") <=> Succeeded(q)
    BY <1>1, <1>2 DEF Asked, Single, Changed
  <2>3. ~Changed("delete") /\ route.page = "watch" =>
          page'.comments = IF Here THEN stored[route.key] ELSE <<>>
    BY <1>1, <1>2, <1>3, <2>2 DEF Right, CommentsAreRight
  <2>4. \A r \in requests' : r.kind # "comments" \/ ~IsCurrent(r)'
    BY <1>1, <1>2 DEF AwaitsCurrent, IsCurrent
  <2> QED
    BY <1>1, <1>4, <2>1, <2>3, <2>4 DEF CommentsAreRight, Here
<1> QED  BY <1>4, <1>5, <1>7, <1>8 DEF Asked, Right

LEMMA DeletionEndsOnTrack ==
  ASSUME Inv, OnTrack, NEW q \in requests, DeletionEnds(q)
  PROVE  OnTrack'
<1> SUFFICES ASSUME ~excused'  PROVE Asked' /\ Right'
  BY DEF OnTrack
<1>1. /\ Asked /\ Right /\ q.kind = "delete" /\ requests' = requests \ {q}
      /\ UNCHANGED <<route, visit, mounted, live, stored, teacher>>
  BY DEF OnTrack, DeletionEnds, Arrives, server
<1>2. IsCurrent(q) /\ ~Succeeded(q)
  <2>1. IsCurrent(q)
    BY <1>1 DEF Asked, InTime, Change
  <2> QED  BY <2>1, CurrentIsMounted DEF DeletionEnds
<1>3. /\ page'.videos = page.videos /\ page'.video = page.video /\ page'.error = page.error
      /\ page'.listLoading = page.listLoading /\ page'.posting = page.posting
      /\ page'.comments = page.comments
  BY DEF DeletionEnds, Arrives, Inv, TypeOK, PageState
<1>4. /\ InTime' /\ Single' /\ Intact'
      /\ ~AwaitsCurrent("delete")'
      /\ \A kind : kind # "delete" => (AwaitsCurrent(kind)' <=> AwaitsCurrent(kind))
      /\ \A kind : kind # "delete" => (Changed(kind)' <=> Changed(kind))
  BY <1>1, <1>2, RemovalKeepsAsked
<1>5. ~Changed("delete")
  BY <1>1, <1>2 DEF Asked, Single, Changed
<1>6. Busy'
  BY <1>1, <1>3, <1>4 DEF Asked, Busy
<1>7. ListVideos(route.key)' = ListVideos(route.key)
  BY <1>1 DEF ListVideos, ListPublished, ListForTeacher
<1>8. ListIsRight' /\ VideoIsRight'
  BY <1>1, <1>3, <1>4, <1>5, <1>7 DEF Right, ListIsRight, VideoIsRight, IsCurrent, Succeeded, Here
<1>9. CommentsAreRight'
  BY <1>1, <1>3, <1>4, <1>5 DEF Right, CommentsAreRight, IsCurrent, Succeeded, Here
<1> QED  BY <1>4, <1>6, <1>8, <1>9 DEF Asked, Right

\* The list is asked for again before anything is shown as right.
LEMMA DeletionRefetchesOnTrack ==
  ASSUME Inv, OnTrack, NEW q \in requests, DeletionRefetches(q)
  PROVE  OnTrack'
<1> SUFFICES ASSUME ~excused'  PROVE Asked' /\ Right'
  BY DEF OnTrack
<1> DEFINE a == Ask("list", q.from, q.what, visit)
           rest == requests \ {q}
<1>1. /\ Asked /\ Right /\ q.kind = "delete" /\ requests' = rest \cup {a}
      /\ UNCHANGED <<route, visit, mounted, live, stored, teacher>>
      /\ q.from = route /\ route.page = "channel"
  BY DEF OnTrack, DeletionRefetches, server
<1>2. IsCurrent(q) /\ ~AwaitsCurrent("list")
  <2>1. IsCurrent(q)
    BY <1>1 DEF Asked, InTime, Change
  <2> QED  BY <1>1, <2>1 DEF Asked, Busy, AwaitsCurrent
<1>3. page'.listLoading /\ page'.posting = page.posting
  BY DEF DeletionRefetches, Inv, TypeOK, PageState
<1>4. a.kind = "list" /\ a.visit = visit /\ a.from = route /\ a.answer = Pending
  BY <1>1 DEF Ask
<1> HIDE DEF a
<1>5. \A r \in rest : r.kind \in {"list", "delete"} => ~IsCurrent(r)
  BY <1>1, <1>2 DEF AwaitsCurrent, Asked, Single
<1>6. /\ InTime' /\ Single' /\ Intact'
      /\ \A kind : AwaitsCurrent(kind)' <=>
           kind = a.kind \/ \E r \in rest : r.kind = kind /\ IsCurrent(r)
  <2>1. rest \subseteq requests /\ \A r \in rest : r.kind = a.kind => ~IsCurrent(r)
    BY <1>4, <1>5
  <2> HIDE DEF rest
  <2> QED  BY <1>1, <1>4, <2>1, AskKeepsAsked
<1>7. /\ AwaitsCurrent("list")' /\ ~AwaitsCurrent("delete")'
      /\ AwaitsCurrent("post")' => AwaitsCurrent("post")
      /\ AwaitsCurrent("comments")' => AwaitsCurrent("comments")
  BY <1>4, <1>5, <1>6 DEF AwaitsCurrent
<1>8. Busy'
  BY <1>1, <1>3, <1>7 DEF Asked, Busy
<1>9. Right'
  BY <1>1, <1>4, <1>5, <1>7 DEF Right, ListIsRight, VideoIsRight, CommentsAreRight,
     IsCurrent, Succeeded, Pending
<1> QED  BY <1>6, <1>8, <1>9 DEF Asked

\* A tab that is on track leaves for another page.
LEMMA DeletionLeavesOnTrack ==
  ASSUME Inv, OnTrack, NEW q \in requests, DeletionLeaves(q)
  PROVE  OnTrack'
<1> DEFINE next == IF UploaderOf[q.what] = Me THEN Channel(Me) ELSE HomePage
<1> SUFFICES ASSUME ~excused'  PROVE Asked' /\ Right'
  BY DEF OnTrack
<1>1. next \in Route /\ next.page # "watch"
  BY ListRoutes
<1>2. CASE next # route
  <2>1. GoTo(next, requests \ {q})
    BY <1>2 DEF DeletionLeaves
  <2> HIDE DEF next
  <2> QED  BY <1>1, <2>1, GoToStarts
<1>3. CASE next = route
  <2>1. ~excused /\ q.kind = "delete" /\ q.from.page = "watch"
    BY <1>3 DEF DeletionLeaves
  <2>2. q.from = route
    BY <2>1 DEF OnTrack, Asked, InTime, Change
  <2> QED  BY <1>1, <1>3, <2>1, <2>2
<1> QED  BY <1>2, <1>3

-----------------------------------------------------------------------------
(* Theorems. *)

LEMMA InvIsInvariant == Spec => []Inv
<1>1. Inv /\ [Next]_vars => Inv'
  <2> SUFFICES ASSUME Inv, [Next]_vars  PROVE Inv'
    OBVIOUS
  <2>1. ASSUME NEW r \in Route, Navigate(r)  PROVE Inv'
    BY <2>1, NavigateKeepsInv
  <2>2. ASSUME NEW c \in Comment, PostComment(c)  PROVE Inv'
    BY <2>2, PostCommentKeepsInv
  <2>3. ASSUME NEW v \in Video, DeleteVideo(v)  PROVE Inv'
    BY <2>3, DeleteVideoKeepsInv
  <2>4. ASSUME NEW q \in requests,
               \/ HandleVideosList(q) \/ HandleVideosGet(q) \/ HandleCommentsList(q)
               \/ HandleCommentsCreate(q) \/ HandleVideosDelete(q) \/ Lose(q)
        PROVE  Inv'
    BY <2>4, ServerKeepsInv
  <2>5. ASSUME NEW q \in requests, AnswerArrives(q)  PROVE Inv'
    BY <2>5, ListArrivesKeepsInv, DetailArrivesKeepsInv, CommentsArriveKeepsInv,
       PostArrivesKeepsInv, DeletionEndsKeepsInv, DeletionRefetchesKeepsInv,
       DeletionLeavesKeepsInv DEF AnswerArrives
  <2>6. CASE UNCHANGED vars
    BY <2>6 DEF vars, Inv, TypeOK, RequestsOK, IsRequest, Fits, Placed, Succeeded,
       IsMounted, IsCurrent, WatchShowsItsVideo, ShowsAVideo, WaitsOK, Awaits, AwaitsCurrent
  <2> QED  BY <2>1, <2>2, <2>3, <2>4, <2>5, <2>6 DEF Next
<1> QED  BY <1>1, InitInv, PTL DEF Spec

\* Whatever videos, users, comments and navigations there are, the state of the
\* hooks and the server keeps its types.
THEOREM TypeCorrect == Spec => []TypeOK
BY InvIsInvariant, PTL DEF Inv

\* A watch page never shows a video but that of its address.
THEOREM WatchPagesShowTheirVideo == Spec => []WatchShowsItsVideo
BY InvIsInvariant, PTL DEF Inv

\* No flag of a page waits for an answer that will not come.
THEOREM NoPageWaitsInVain == Spec => []NothingWaitsInVain
<1>1. Inv => NothingWaitsInVain
  BY DEF Inv, RequestsOK, IsRequest, WaitsOK, NothingWaitsInVain, Awaits, AwaitsCurrent,
     IsMounted, IsCurrent, TypeOK
<1> QED  BY <1>1, InvIsInvariant, PTL

\* Every step keeps a page on track.
LEMMA OnTrackIsInvariant == Spec => []OnTrack
<1>1. Inv /\ OnTrack /\ [Next]_vars => OnTrack'
  <2> SUFFICES ASSUME Inv, OnTrack, [Next]_vars  PROVE OnTrack'
    OBVIOUS
  <2>1. ASSUME NEW r \in Route, Navigate(r)  PROVE OnTrack'
    BY <2>1, GoToStarts DEF Navigate, OnTrack
  <2>2. ASSUME NEW c \in Comment, PostComment(c)  PROVE OnTrack'
    BY <2>2, PostCommentOnTrack
  <2>3. ASSUME NEW v \in Video, DeleteVideo(v)  PROVE OnTrack'
    BY <2>3, DeleteVideoOnTrack
  <2>4. ASSUME NEW q \in requests,
               HandleVideosList(q) \/ HandleVideosGet(q) \/ HandleCommentsList(q)
        PROVE  OnTrack'
    BY <2>4, ReadOnTrack
  <2>5. ASSUME NEW q \in requests, HandleCommentsCreate(q)  PROVE OnTrack'
    BY <2>5, CommentsCreateOnTrack
  <2>6. ASSUME NEW q \in requests, HandleVideosDelete(q)  PROVE OnTrack'
    BY <2>6, VideosDeleteOnTrack
  <2>7. ASSUME NEW q \in requests, Lose(q)  PROVE OnTrack'
    BY <2>7 DEF Lose, OnTrack
  <2>8. ASSUME NEW q \in requests, AnswerArrives(q)  PROVE OnTrack'
    BY <2>8, ListArrivesOnTrack, DetailArrivesOnTrack, CommentsArriveOnTrack,
       PostArrivesOnTrack, DeletionEndsOnTrack, DeletionRefetchesOnTrack,
       DeletionLeavesOnTrack DEF AnswerArrives
  <2>9. CASE UNCHANGED vars
    <3>1. Asked' <=> Asked
      BY <2>9 DEF vars, Asked, InTime, Single, Intact, Busy, AwaitsCurrent, IsCurrent,
         IsMounted, Change
    <3>2. ListVideos(route.key)' = ListVideos(route.key)
      BY <2>9 DEF vars, ListVideos, ListPublished, ListForTeacher
    <3>3. Right' <=> Right
      BY <2>9, <3>2 DEF vars, Right, ListIsRight, VideoIsRight, CommentsAreRight, Changed,
         AwaitsCurrent, IsCurrent, Succeeded, Here
    <3> QED  BY <2>9, <3>1, <3>3 DEF vars, OnTrack
  <2> QED  BY <2>1, <2>2, <2>3, <2>4, <2>5, <2>6, <2>7, <2>8, <2>9 DEF Next
<1> QED  BY <1>1, InvIsInvariant, InitOnTrack, PTL DEF Spec

\* A list page with nothing under way shows what the server would list now,
\* however many deletions, answers out of order and navigations came before,
\* unless requests of this visit overlapped or failed.
THEOREM SettledListsAreRight == Spec => []SettledListIsTheServers
<1>1. Inv /\ OnTrack => SettledListIsTheServers
  <2> SUFFICES ASSUME Inv, OnTrack, Settled, ~excused, route.page # "watch"
               PROVE  page.videos = ListVideos(route.key)
    BY DEF SettledListIsTheServers
  <2>1. ~AwaitsCurrent("list") /\ ~Changed("delete")
    BY CurrentIsMounted DEF Settled, AwaitsCurrent, Changed
  <2> QED  BY <2>1 DEF OnTrack, Right, ListIsRight
<1> QED  BY <1>1, InvIsInvariant, OnTrackIsInvariant, PTL

\* A watch page with nothing under way shows its video and the comments in the
\* server's order, each once, under the same condition.
THEOREM SettledWatchPagesAreRight == Spec => []SettledWatchIsTheServers
<1>1. Inv /\ OnTrack => SettledWatchIsTheServers
  <2> SUFFICES ASSUME Inv, OnTrack, Settled, ~excused, route.page = "watch"
               PROVE  /\ ~page.error
                      /\ page.video = IF route.key \in live THEN route.key ELSE NoVideo
                      /\ page.comments = IF route.key \in live THEN stored[route.key] ELSE <<>>
    BY DEF SettledWatchIsTheServers
  <2>1. /\ ~AwaitsCurrent("detail") /\ ~AwaitsCurrent("comments")
        /\ ~Changed("delete") /\ ~Changed("post")
    BY CurrentIsMounted DEF Settled, AwaitsCurrent, Changed
  <2> QED  BY <2>1 DEF OnTrack, Right, VideoIsRight, CommentsAreRight, Here
<1> QED  BY <1>1, InvIsInvariant, OnTrackIsInvariant, PTL

=============================================================================
