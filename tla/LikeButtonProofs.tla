-------------------------- MODULE LikeButtonProofs --------------------------
(***************************************************************************)
(* The like button of a watch page, for any videos, turns and likes of     *)
(* other users: its types, and that a settled page shows the like and the  *)
(* number of likes of its video.                                           *)
(*                                                                         *)
(* While nothing of a visit overlapped and nothing of it was lost, its     *)
(* status is asked and answered before the user can click, so it tells     *)
(* what the server has; after it only answers to PUT change the page, and  *)
(* all of them say the same (Visit, LikeFollows, NumberFollows).           *)
(***************************************************************************)
EXTENDS LikeButton, TLAPS

USE NoneIsNoVideo, Bounds

Kinds == {"detail", "status", "PUT", "DELETE"}

IsRequest(q) ==
  /\ q = [kind |-> q.kind, video |-> q.video, visit |-> q.visit, no |-> q.no, reply |-> q.reply]
  /\ q.reply \in {Pending, Failure, NoContent} \/ HasBody(q)
  /\ q.reply = NoContent => q.kind = "DELETE"

\* Details are those of the address: the others are dropped when it changes.
RequestsOK ==
  /\ \A q \in requests : /\ IsRequest(q)
                         /\ q.kind = "detail" => q.visit = visit /\ q.video = address
  /\ address = None => page = "elsewhere"

IInv == TypeOK /\ RequestsOK

-----------------------------------------------------------------------------
(* While nothing overlapped. *)

Current(q) == q.visit = visit
Awaits(kind) == \E q \in requests : q.kind = kind /\ Current(q)
Liked == address \in stored

\* What is left of earlier visits are changes of other videos, whose answers the
\* page no longer reads; none of this visit was lost.
Own ==
  \A q \in requests :
    IF Current(q) THEN q.video = address /\ q.reply # Failure
    ELSE Changes(q) /\ ~IsMounted(q) /\ q.video # address

\* The page is asked for, then its status is known, then the user clicks.
Visit ==
  /\ \A p, q \in requests :
       Current(p) /\ Current(q) /\ p.kind = q.kind /\ ~Changes(q) => p = q
  /\ Awaits("detail") => page = "loading"
  /\ Awaits("PUT") \/ Awaits("DELETE") => page = "shown" /\ ~Awaits("status")
  /\ ~removed => ~Awaits("DELETE")

\* An answered status is right, an answered PUT has stored its row unless the
\* like was taken back, and a like the page does not show yet is on its way.
LikeFollows ==
  /\ \A q \in requests : Current(q) /\ HasBody(q) =>
       /\ q.kind = "status" => q.reply.liked = Liked
       /\ q.kind = "PUT" => q.reply.liked /\ (~removed => Liked)
       /\ q.kind # "DELETE"
  /\ ~Awaits("status") =>
       /\ liked /\ ~removed => Liked
       /\ Liked /\ ~liked =>
            \E q \in requests : q.kind = "PUT" /\ Current(q) /\ HasBody(q)

\* What is answered is the number there is, and the page shows it or is about to.
NumberFollows ==
  ~removed /\ ~moved =>
    /\ \A q \in requests :
         Current(q) /\ HasBody(q) /\ q.kind \in {"detail", "PUT"} =>
           q.reply.count = LikeCount(address)
    /\ page = "shown" /\ ~kept =>
         \/ likeCount = LikeCount(address)
         \/ \E q \in requests : q.kind = "PUT" /\ Current(q) /\ HasBody(q)

Follows == Own /\ Visit /\ LikeFollows /\ NumberFollows
LInv == ~excused => Follows

-----------------------------------------------------------------------------
(* Types. *)

\* The types of a request, as TypeOK states them.
Typed(q) ==
  /\ q.kind \in Kinds /\ q.video \in Video
  /\ q.visit \in 0..visit /\ q.no \in 0..turns
  /\ HasBody(q) => q.reply.liked \in BOOLEAN /\ q.reply.count \in 0..MaxOthers + 1

LEMMA Naturals == MaxTurns \in Nat /\ MaxOthers \in Nat
OBVIOUS

\* The four replies differ.
LEMMA Replies ==
  ASSUME NEW l, NEW n
  PROVE  /\ Body(l, n).is = "body" /\ Body(l, n).liked = l /\ Body(l, n).count = n
         /\ Pending.is = "pending" /\ Failure.is = "failure" /\ NoContent.is = "noContent"
BY DEF Body, Pending, Failure, NoContent

LEMMA CountIsInRange ==
  ASSUME NEW v \in Video, others \in [Video -> 0..MaxOthers]
  PROVE  LikeCount(v) \in 0..MaxOthers + 1
BY Naturals DEF LikeCount

\* A new request is well formed.
LEMMA RequestFacts ==
  ASSUME NEW kind \in Kinds, NEW v, NEW n, NEW no, NEW q, q = Request(kind, v, n, no)
  PROVE  /\ IsRequest(q) /\ ~HasBody(q) /\ q.kind = kind /\ q.video = v /\ q.visit = n
         /\ q.no = no /\ q.reply = Pending
BY DEF Request, IsRequest, HasBody, Pending, NoContent, Failure

\* The flags are BOOLEAN whatever they become.
LEMMA FlagsAreTyped ==
  ASSUME NEW a, NEW b, NEW c, NEW d,
         a \in BOOLEAN, b \in BOOLEAN, c \in BOOLEAN, d \in BOOLEAN
  PROVE  {a, b, c, d} \subseteq BOOLEAN
BY Zenon

LEMMA Initially == Init => IInv
<1> SUFFICES ASSUME Init  PROVE IInv
  OBVIOUS
<1>1. \A q \in requests : /\ IsRequest(q) /\ ~HasBody(q) /\ q.video = address /\ q.visit = 0
                          /\ q.no = 0 /\ q.kind \in {"detail", "status"}
  BY RequestFacts DEF Init, Asked, Kinds
<1>2. RequestsOK
  BY <1>1 DEF Init, RequestsOK
<1>3. excused \in BOOLEAN /\ removed \in BOOLEAN /\ moved \in BOOLEAN /\ kept \in BOOLEAN
  BY Zenon DEF Init
<1>4. {excused, removed, moved, kept} \subseteq BOOLEAN
  BY <1>3, FlagsAreTyped
<1>5. /\ visit \in 0..turns /\ mounted \in 0..visit /\ turns \in 0..MaxTurns
      /\ {initial, likeCount} \subseteq 0..MaxOthers + 1
  BY Naturals DEF Init
<1>6. liked \in BOOLEAN
  BY Zenon DEF Init
<1> QED
  BY <1>1, <1>2, <1>4, <1>5, <1>6 DEF Init, IInv, TypeOK

\* What the answer to one request leaves of the types of all.
LEMMA AnswerIsTyped ==
  ASSUME IInv, NEW q \in requests, NEW body, Answer(q, body),
         UNCHANGED <<visit, address, page>>, turns' \in Nat, turns <= turns',
         \/ body = Failure \/ (body = NoContent /\ q.kind = "DELETE")
         \/ /\ body.is = "body" /\ body.liked \in BOOLEAN
            /\ body.count \in 0..MaxOthers + 1
  PROVE  RequestsOK' /\ \A r \in requests' : Typed(r)'
<1> DEFINE a == [q EXCEPT !.reply = body]
<1>1. /\ a.kind = q.kind /\ a.video = q.video /\ a.visit = q.visit /\ a.no = q.no
      /\ a.reply = body
      /\ a = [kind |-> a.kind, video |-> a.video, visit |-> a.visit, no |-> a.no,
              reply |-> a.reply]
  BY DEF IInv, RequestsOK, IsRequest
<1>2. requests' = (requests \ {q}) \cup {a}
  BY DEF Answer
<1> HIDE DEF a
<1>3. \A r \in requests : Typed(r)
  BY DEF IInv, TypeOK, Typed, Kinds
<1>4. \A r \in requests : Typed(r)'
  BY <1>3 DEF Typed, HasBody, IInv, TypeOK
<1>5. IsRequest(a) /\ Typed(a)'
  <2>1. IsRequest(a)
    BY <1>1, Replies DEF IsRequest, HasBody
  <2>2. q.kind \in Kinds /\ q.video \in Video /\ q.visit \in 0..visit' /\ q.no \in 0..turns'
    BY <1>4 DEF Typed
  <2>3. HasBody(a) => a.reply.liked \in BOOLEAN /\ a.reply.count \in 0..MaxOthers + 1
    BY <1>1, Replies DEF HasBody
  <2> QED  BY <1>1, <2>1, <2>2, <2>3 DEF Typed, HasBody
<1>6. RequestsOK'
  BY <1>1, <1>2, <1>5 DEF IInv, RequestsOK, IsRequest, HasBody
<1> QED  BY <1>2, <1>4, <1>5, <1>6

\* The numbers and flags of TypeOK, as conjuncts.
Fields ==
  /\ stored \subseteq Video /\ others \in [Video -> 0..MaxOthers]
  /\ address \in Video \cup {None}
  /\ visit \in 0..turns /\ mounted \in 0..visit
  /\ page \in {"elsewhere", "loading", "shown", "error"}
  /\ initial \in 0..MaxOthers + 1 /\ likeCount \in 0..MaxOthers + 1
  /\ liked \in BOOLEAN /\ turns \in 0..MaxTurns

Booleans ==
  excused \in BOOLEAN /\ removed \in BOOLEAN /\ moved \in BOOLEAN /\ kept \in BOOLEAN

LEMMA TypesSplit ==
  /\ TypeOK <=> Fields /\ Booleans /\ \A q \in requests : Typed(q)
  /\ TypeOK' <=> Fields' /\ Booleans' /\ \A q \in requests' : Typed(q)'
<1>1. ASSUME NEW a, NEW b, NEW S  PROVE {a, b} \subseteq S <=> a \in S /\ b \in S
  OBVIOUS
<1>2. ASSUME NEW a, NEW b, NEW c, NEW d, NEW S
      PROVE  {a, b, c, d} \subseteq S <=> a \in S /\ b \in S /\ c \in S /\ d \in S
  BY Zenon
<1>3. TypeOK <=> Fields /\ Booleans /\ \A q \in requests : Typed(q)
  <2>1. {excused, removed, moved, kept} \subseteq BOOLEAN <=> Booleans
    BY <1>2, Zenon DEF Booleans
  <2> QED  BY <1>1, <2>1 DEF TypeOK, Fields, Typed, Kinds
<1>4. TypeOK' <=> Fields' /\ Booleans' /\ \A q \in requests' : Typed(q)'
  <2>1. ({excused, removed, moved, kept} \subseteq BOOLEAN)' <=> Booleans'
    BY <1>2, Zenon DEF Booleans
  <2> QED  BY <1>1, <2>1 DEF TypeOK, Fields, Typed, Kinds
<1> QED  BY <1>3, <1>4

LEMMA NavigateIsTyped ==
  ASSUME IInv, NEW v \in Video \cup {None}, Navigate(v)
  PROVE  IInv'
<1> DEFINE new == IF v = None THEN {} ELSE Asked(v, visit')
<1>1. Fields /\ Booleans /\ \A q \in requests : Typed(q) /\ IsRequest(q)
  BY TypesSplit DEF IInv, RequestsOK
<1>2. /\ visit' = turns' /\ turns' = turns + 1 /\ turns' \in 0..MaxTurns
      /\ visit \in 0..turns /\ mounted \in 0..visit /\ turns \in Nat
      /\ address' = v /\ requests' = Left \cup new
      /\ page' = IF v = None THEN "elsewhere" ELSE "loading"
      /\ stored' = stored /\ others' = others
  BY <1>1, Naturals DEF Navigate, Turn, Fields, server
<1>3. /\ mounted' \in 0..visit' /\ initial' \in 0..MaxOthers + 1
      /\ likeCount' \in 0..MaxOthers + 1 /\ liked' \in BOOLEAN
  <2>1. CASE address # None /\ v # None
    <3>1. UNCHANGED <<mounted, initial, liked, likeCount>>
      BY <2>1 DEF Navigate, hook
    <3> QED  BY <1>1, <1>2, <3>1 DEF Fields
  <2>2. CASE ~(address # None /\ v # None)
    <3>1. mounted' = visit' /\ initial' = 0 /\ liked' = FALSE /\ likeCount' = 0
      BY <2>2 DEF Navigate
    <3>2. liked' \in BOOLEAN
      BY <3>1, Zenon
    <3>3. mounted' \in 0..visit' /\ initial' \in 0..MaxOthers + 1 /\ likeCount' \in 0..MaxOthers + 1
      BY <1>2, <3>1, Naturals
    <3> QED  BY <3>2, <3>3
  <2> QED  BY <2>1, <2>2
<1>4. Fields'
  BY <1>1, <1>2, <1>3 DEF Fields
<1>5. Booleans'
  BY Zenon DEF Navigate, Booleans
<1>6. ASSUME NEW q \in Left  PROVE Typed(q)' /\ IsRequest(q)' /\ q.kind # "detail"
  BY <1>1, <1>2 DEF Left, Typed, IsRequest, HasBody, Changes
<1>7. ASSUME NEW q \in new
      PROVE  Typed(q)' /\ IsRequest(q)' /\ q.visit = visit' /\ q.video = v
  <2>1. v \in Video
    OBVIOUS
  <2>2. PICK kind \in {"detail", "status"} : q = Request(kind, v, visit', 0)
    BY <2>1 DEF Asked
  <2> QED  BY <1>2, <2>1, <2>2, RequestFacts DEF Typed, Kinds, IsRequest, HasBody
<1>8. RequestsOK' /\ \A q \in requests' : Typed(q)'
  BY <1>2, <1>6, <1>7 DEF RequestsOK
<1> QED  BY <1>4, <1>5, <1>8, TypesSplit DEF IInv

LEMMA ToggleIsTyped ==
  ASSUME IInv, Toggle
  PROVE  IInv'
<1>0. PICK a : a = Request(IF liked THEN "DELETE" ELSE "PUT", address, visit, turns')
  OBVIOUS
<1>1. Fields /\ Booleans /\ \A q \in requests : Typed(q) /\ IsRequest(q)
  BY TypesSplit DEF IInv, RequestsOK
<1>2. /\ turns' = turns + 1 /\ turns' \in 0..MaxTurns /\ turns \in Nat
      /\ requests' = requests \cup {a} /\ address \in Video
      /\ UNCHANGED <<stored, others, initial, liked, likeCount, address, visit, mounted, page>>
  BY <1>0, <1>1, Naturals DEF Toggle, Turn, Fields, server, hook, tab, IInv, RequestsOK
<1>3. Fields'
  BY <1>1, <1>2 DEF Fields
<1>4. Booleans'
  BY <1>1, Zenon DEF Toggle, Booleans, history
<1>5. /\ IsRequest(a) /\ ~HasBody(a) /\ a.kind \in {"PUT", "DELETE"}
      /\ a.video = address /\ a.visit = visit /\ a.no = turns'
  BY <1>0, RequestFacts DEF Kinds
<1>6. Typed(a)' /\ IsRequest(a)' /\ a.kind # "detail"
  <2>1. a.kind \in Kinds /\ a.kind # "detail" /\ a.visit \in 0..visit' /\ a.no \in 0..turns'
    BY <1>1, <1>2, <1>5 DEF Fields, Kinds
  <2>2. Typed(a)'
    BY <1>2, <1>5, <2>1 DEF Typed, HasBody
  <2>3. IsRequest(a)'
    BY <1>5 DEF IsRequest, HasBody
  <2> QED  BY <2>1, <2>2, <2>3
<1>7. \A q \in requests : Typed(q)' /\ IsRequest(q)'
  BY <1>1, <1>2 DEF Typed, Fields, IsRequest, HasBody
<1>8. RequestsOK' /\ \A q \in requests' : Typed(q)'
  BY <1>2, <1>6, <1>7 DEF RequestsOK, IInv
<1> QED  BY <1>3, <1>4, <1>8, TypesSplit DEF IInv

\* The handlers and the network answer requests.
LEMMA ServerIsTyped ==
  ASSUME IInv, NEW q \in requests,
         HandleGet(q) \/ HandlePut(q) \/ HandleDelete(q) \/ Lose(q)
  PROVE  IInv'
<1>1. Fields /\ Booleans /\ Typed(q)
  BY TypesSplit DEF IInv
<1>2. /\ turns' \in 0..MaxTurns /\ turns <= turns' /\ turns' \in Nat
      /\ UNCHANGED <<others, initial, liked, likeCount, address, visit, mounted, page>>
      /\ stored' = stored \/ stored' = stored \cup {q.video} \/ stored' = stored \ {q.video}
  <2>1. turns' = turns \/ (turns < MaxTurns /\ turns' = turns + 1)
    BY DEF HandleGet, HandlePut, HandleDelete, Lose, Turn
  <2>2. turns' \in 0..MaxTurns /\ turns <= turns' /\ turns' \in Nat
    BY <1>1, <2>1, Naturals DEF Fields
  <2> QED  BY <2>2 DEF HandleGet, HandlePut, HandleDelete, Lose, server, hook, tab
<1>3. Fields'
  BY <1>1, <1>2 DEF Fields, Typed
<1>4. Booleans'
  BY <1>1, Zenon DEF HandleGet, HandlePut, HandleDelete, Lose, Booleans, history
<1>5. /\ LikeCount(q.video) \in 0..MaxOthers + 1
      /\ LikeCount(q.video)' \in 0..MaxOthers + 1
  <2>1. q.video \in Video /\ others \in [Video -> 0..MaxOthers]
    BY <1>1 DEF Typed, Fields
  <2> QED  BY <1>2, <2>1, Naturals DEF LikeCount
<1>6. RequestsOK' /\ \A r \in requests' : Typed(r)'
  <2>1. CASE HandleGet(q)
    <3>0. PICK body : body = Body(q.video \in stored, LikeCount(q.video))
      OBVIOUS
    <3>1. body.liked \in BOOLEAN
      <4>1. (q.video \in stored) = TRUE \/ (q.video \in stored) = FALSE
        OBVIOUS
      <4>2. body = Body(TRUE, LikeCount(q.video)) \/ body = Body(FALSE, LikeCount(q.video))
        BY <3>0, <4>1
      <4>3. body.liked = TRUE \/ body.liked = FALSE
        BY <4>2, Replies
      <4> QED  BY <4>3, Zenon
    <3>2. body.is = "body" /\ body.count \in 0..MaxOthers + 1
      BY <1>5, <3>0 DEF Body
    <3>3. Answer(q, body)
      BY <2>1, <3>0 DEF HandleGet
    <3> QED  BY <1>2, <3>1, <3>2, <3>3, AnswerIsTyped
  <2>2. CASE HandlePut(q)
    <3>0. PICK body : body = Body(TRUE, LikeCount(q.video)')
      OBVIOUS
    <3>1. body.is = "body" /\ body.liked \in BOOLEAN /\ body.count \in 0..MaxOthers + 1
      BY <1>5, <3>0 DEF Body
    <3>2. Answer(q, body)
      BY <2>2, <3>0 DEF HandlePut
    <3> QED  BY <1>2, <3>1, <3>2, AnswerIsTyped
  <2>3. CASE HandleDelete(q)
    BY <1>2, <2>3, AnswerIsTyped DEF HandleDelete
  <2>4. CASE Lose(q)
    BY <1>2, <2>4, AnswerIsTyped DEF Lose
  <2> QED  BY <2>1, <2>2, <2>3, <2>4
<1> QED  BY <1>3, <1>4, <1>6, TypesSplit DEF IInv

LEMMA OtherUsersAreTyped ==
  ASSUME IInv, NEW v \in Video, OtherUsers(v)
  PROVE  IInv'
<1>1. Fields /\ Booleans /\ \A q \in requests : Typed(q)
  BY TypesSplit DEF IInv
<1>2. /\ turns' \in 0..MaxTurns /\ turns \in Nat /\ turns' = turns + 1
      /\ others' \in [Video -> 0..MaxOthers]
      /\ UNCHANGED <<stored, initial, liked, likeCount, address, visit, mounted, page, requests>>
  BY <1>1, Naturals DEF Fields, OtherUsers, Turn, hook, tab
<1>3. Fields'
  BY <1>1, <1>2 DEF Fields
<1>4. Booleans'
  BY <1>1, Zenon DEF OtherUsers, Booleans
<1>5. RequestsOK' /\ \A q \in requests' : Typed(q)'
  BY <1>1, <1>2 DEF IInv, RequestsOK, IsRequest, Typed, HasBody, Fields
<1> QED  BY <1>3, <1>4, <1>5, TypesSplit DEF IInv

LEMMA ArrivalIsTyped ==
  ASSUME IInv, NEW q \in requests,
         DetailArrives(q) \/ StatusArrives(q) \/ AnswerArrives(q)
  PROVE  IInv'
<1>1. Fields /\ Booleans /\ \A r \in requests : Typed(r)
  BY TypesSplit DEF IInv
<1>2. /\ requests' = requests \ {q}
      /\ UNCHANGED <<stored, others, turns, address, visit, mounted>>
  BY DEF DetailArrives, StatusArrives, AnswerArrives, Read, server
<1>3. /\ initial' \in 0..MaxOthers + 1 /\ likeCount' \in 0..MaxOthers + 1
      /\ page' \in {"elsewhere", "loading", "shown", "error"}
  BY <1>1 DEF Fields, Typed, DetailArrives, StatusArrives, AnswerArrives
<1>4. liked' \in BOOLEAN
  <2>1. liked \in BOOLEAN /\ (HasBody(q) => q.reply.liked \in BOOLEAN)
    BY <1>1 DEF Fields, Typed
  <2>2. CASE liked' = liked
    BY <2>1, <2>2
  <2>3. CASE HasBody(q) /\ liked' = q.reply.liked
    BY <2>1, <2>3
  <2>4. CASE liked' = (HasBody(q) /\ q.reply.liked)
    BY <2>4, Zenon
  <2> QED
    BY <2>2, <2>3, <2>4, Zenon DEF DetailArrives, StatusArrives, AnswerArrives
<1>5. Fields'
  BY <1>1, <1>2, <1>3, <1>4 DEF Fields
<1>6. Booleans'
  BY <1>1, Zenon DEF DetailArrives, StatusArrives, AnswerArrives, Read, Booleans
<1>7. \A r \in requests' : Typed(r)'
  BY <1>1, <1>2 DEF Typed, HasBody
<1>8. RequestsOK'
  <2>1. address = None => q.kind # "detail"
    BY <1>1 DEF Typed, IInv, RequestsOK
  <2>2. address = None => page' = "elsewhere"
    BY <2>1 DEF IInv, RequestsOK, DetailArrives, StatusArrives, AnswerArrives
  <2> QED  BY <1>2, <2>2 DEF IInv, RequestsOK, IsRequest, HasBody
<1> QED  BY <1>5, <1>6, <1>7, <1>8, TypesSplit DEF IInv

LEMMA StepsAreTyped == IInv /\ [Next]_vars => IInv'
<1> SUFFICES ASSUME IInv, [Next]_vars  PROVE IInv'
  OBVIOUS
<1>1. CASE UNCHANGED vars
  BY <1>1 DEF vars, server, hook, tab, history, IInv, TypeOK, RequestsOK, IsRequest, HasBody
<1>2. CASE Next
  BY <1>2, NavigateIsTyped, ToggleIsTyped, ServerIsTyped, OtherUsersAreTyped, ArrivalIsTyped
  DEF Next
<1> QED  BY <1>1, <1>2

\* Whatever videos, turns and likes of others there are, the state of the page,
\* of useLike and of the likes keeps its types; a change always names a video.
THEOREM TypeCorrect == Spec => []TypeOK
<1>1. IInv => TypeOK
  BY DEF IInv
<1> QED  BY <1>1, Initially, StepsAreTyped, PTL DEF Spec

-----------------------------------------------------------------------------
(* While nothing overlapped, the page follows. *)

\* What is known of each request.
LEMMA RequestsAreTyped ==
  ASSUME IInv, NEW q \in requests
  PROVE  /\ q.kind \in Kinds /\ q.video \in Video /\ q.visit \in Int /\ q.visit <= visit
         /\ q.reply \in {Pending, Failure, NoContent} \/ HasBody(q)
         /\ q.reply = NoContent => q.kind = "DELETE"
         /\ HasBody(q) => q.reply \notin {Pending, Failure, NoContent}
         /\ visit \in Nat /\ turns \in Nat /\ visit <= turns
         /\ mounted \in Nat /\ mounted <= visit
<1>1. Typed(q) /\ Fields /\ IsRequest(q)
  BY TypesSplit DEF IInv, RequestsOK
<1>2. HasBody(q) => q.reply \notin {Pending, Failure, NoContent}
  BY Replies DEF HasBody
<1> QED  BY <1>1, <1>2 DEF Typed, Fields, IsRequest

LEMMA InitFollows == Init => LInv
<1> SUFFICES ASSUME Init  PROVE Follows
  BY DEF LInv
<1>1. \A q \in requests : q = Request(q.kind, address, 0, 0) /\ q.kind \in {"detail", "status"}
  BY DEF Init, Asked, Request
<1>2. \A q \in requests : Current(q) /\ ~HasBody(q) /\ q.video = address /\ q.reply # Failure
  BY <1>1, Replies DEF Init, Request, HasBody, Current
<1>3. Awaits("status")
  <2>1. Request("status", address, 0, 0) \in requests
    BY DEF Init, Asked
  <2> QED  BY <2>1 DEF Awaits, Request, Current, Init
<1>4. Own
  BY <1>2 DEF Own
<1>5. Visit
  BY <1>1 DEF Visit, Awaits, Init
<1>6. LikeFollows
  BY <1>2, <1>3 DEF LikeFollows
<1>7. NumberFollows
  BY <1>2 DEF NumberFollows, Init
<1> QED  BY <1>4, <1>5, <1>6, <1>7 DEF Follows

\* What is left of the visits before is changes of other videos, unless the new
\* visit overlaps with them; the rest is asked for now.
LEMMA NavigateFollows ==
  ASSUME IInv, NEW v \in Video \cup {None}, Navigate(v), ~excused'
  PROVE  Follows'
<1> DEFINE new == IF v = None THEN {} ELSE Asked(v, visit')
<1>1. /\ requests' = Left \cup new /\ address' = v /\ stored' = stored
      /\ page' = IF v = None THEN "elsewhere" ELSE "loading"
      /\ visit' = turns + 1
  BY DEF Navigate, Turn, server
<1>2. visit \in Nat /\ turns \in Nat /\ visit <= turns /\ mounted \in Nat /\ mounted <= visit
  BY TypesSplit DEF IInv, Fields
<1>3. ASSUME NEW q \in Left
      PROVE  ~Current(q)' /\ Changes(q) /\ ~IsMounted(q)' /\ q.video # v
  <2>1. q \in requests /\ ~(q.visit >= mounted' \/ q.video = v)
    BY DEF Navigate, Left
  <2>2. q.visit \in Int /\ q.visit <= visit
    BY <2>1, RequestsAreTyped
  <2>3. q.visit # visit'
    BY <1>1, <1>2, <2>2
  <2> QED  BY <2>1, <2>3 DEF Left, Current, IsMounted
<1>4. ASSUME NEW q \in new
      PROVE  /\ q = Request(q.kind, v, visit', 0) /\ q.kind \in {"detail", "status"}
             /\ Current(q)' /\ ~HasBody(q) /\ q.video = v /\ q.reply # Failure /\ v # None
  <2>1. v # None /\ q = Request(q.kind, v, visit', 0) /\ q.kind \in {"detail", "status"}
    BY DEF Asked, Request
  <2>2. q.visit = visit' /\ q.video = v /\ q.reply = Pending
    BY <2>1 DEF Request
  <2> QED  BY <2>1, <2>2, Replies DEF Current, HasBody
<1>5. v # None => Awaits("status")'
  <2> SUFFICES ASSUME v # None  PROVE Awaits("status")'
    OBVIOUS
  <2>1. PICK s : s = Request("status", v, visit', 0)
    OBVIOUS
  <2>2. s \in new /\ s.kind = "status" /\ s.visit = visit'
    BY <2>1 DEF Asked, Request
  <2> QED  BY <1>1, <2>2 DEF Awaits, Current
<1> HIDE DEF new
<1>6. Own'
  BY <1>1, <1>3, <1>4 DEF Own
<1>7. Visit'
  <2>1. ASSUME NEW q \in requests', Current(q)'  PROVE q \in new
    BY <1>1, <1>3, <2>1 DEF Current
  <2>2. ~Awaits("PUT")' /\ ~Awaits("DELETE")'
    BY <1>4, <2>1 DEF Awaits
  <2>3. Awaits("detail")' => page' = "loading"
    BY <1>1, <1>4, <2>1 DEF Awaits
  <2>4. \A p, q \in requests' :
          Current(p)' /\ Current(q)' /\ p.kind = q.kind /\ ~Changes(q) => p = q
    BY <1>4, <2>1
  <2> QED  BY <2>2, <2>3, <2>4 DEF Visit, Changes
<1>8. LikeFollows'
  <2>1. \A q \in requests' : ~(Current(q)' /\ HasBody(q))
    BY <1>1, <1>3, <1>4
  <2>2. v = None => liked' = FALSE /\ ~Liked'
    BY <1>1, NoneIsNoVideo, TypesSplit DEF Navigate, IInv, Fields, Liked
  <2> QED  BY <1>5, <2>1, <2>2 DEF LikeFollows, HasBody
<1>9. NumberFollows'
  <2>1. \A q \in requests' : ~(Current(q)' /\ HasBody(q))
    BY <1>1, <1>3, <1>4
  <2> QED  BY <1>1, <2>1 DEF NumberFollows, HasBody
<1> QED  BY <1>6, <1>7, <1>8, <1>9 DEF Follows

\* The user can click only once the page is shown; when its status is still under
\* way, the click overlaps with it.
LEMMA ToggleFollows ==
  ASSUME IInv, Follows, Toggle, ~excused'
  PROVE  Follows'
<1>1. PICK a : a = Request(IF liked THEN "DELETE" ELSE "PUT", address, visit, turns')
  OBVIOUS
<1>2. /\ requests' = requests \cup {a} /\ page = "shown"
      /\ removed' = (removed \/ liked) /\ ~\E q \in requests : q.kind = "status"
      /\ UNCHANGED <<stored, others, liked, likeCount, address, visit, mounted, page, moved, kept>>
  BY <1>1 DEF Toggle, server, hook, tab
<1>3. /\ a.kind = IF liked THEN "DELETE" ELSE "PUT"
      /\ a.video = address /\ a.visit = visit /\ ~HasBody(a) /\ a.reply # Failure
  BY <1>1, Replies DEF Request, HasBody
<1>4. Own'
  BY <1>2, <1>3 DEF Follows, Own, Current, IsMounted, Changes
<1>5. Visit'
  <2>1. a.kind \in {"PUT", "DELETE"} /\ ~Awaits("detail") /\ ~Awaits("status")
    BY <1>2, <1>3 DEF Follows, Visit, Awaits
  <2>2. ~Awaits("detail")' /\ ~Awaits("status")'
    BY <1>2, <2>1 DEF Awaits, Current
  <2>3. ~removed' => ~Awaits("DELETE")'
    BY <1>2, <1>3 DEF Follows, Visit, Awaits, Current
  <2>4. \A p, q \in requests' :
          Current(p)' /\ Current(q)' /\ p.kind = q.kind /\ ~Changes(q) => p = q
    BY <1>2, <2>1 DEF Follows, Visit, Current, Changes
  <2> QED  BY <1>2, <2>2, <2>3, <2>4 DEF Visit, Changes
<1>6. LikeFollows'
  BY <1>2, <1>3 DEF Follows, LikeFollows, Liked, Current, Awaits, HasBody
<1>7. NumberFollows'
  BY <1>2, <1>3 DEF Follows, NumberFollows, LikeCount, Current, HasBody
<1> QED  BY <1>4, <1>5, <1>6, <1>7 DEF Follows

\* A request that is answered stays what it was, but for its answer.
LEMMA AnswerKeeps ==
  ASSUME IInv, NEW q \in requests, NEW body, Answer(q, body),
         UNCHANGED <<visit, mounted>>
  PROVE  \E a : /\ requests' = (requests \ {q}) \cup {a}
                /\ a.kind = q.kind /\ a.video = q.video /\ a.visit = q.visit
                /\ a.reply = body
                /\ Current(a)' = Current(q) /\ Current(a) = Current(q)
                /\ IsMounted(a)' = IsMounted(q) /\ Changes(a) = Changes(q)
<1>1. PICK a : a = [q EXCEPT !.reply = body]
  OBVIOUS
<1>2. /\ a.kind = q.kind /\ a.video = q.video /\ a.visit = q.visit /\ a.reply = body
  BY <1>1 DEF IInv, RequestsOK, IsRequest
<1>3. requests' = (requests \ {q}) \cup {a}
  BY <1>1 DEF Answer
<1>4. /\ Current(a)' = Current(q) /\ Current(a) = Current(q)
      /\ IsMounted(a)' = IsMounted(q) /\ Changes(a) = Changes(q)
  BY <1>2 DEF Current, IsMounted, Changes
<1> QED  BY <1>2, <1>3, <1>4

\* An answer leaves the order of the visit alone, if it says nothing of a failure.
LEMMA AnswerKeepsTheVisit ==
  ASSUME IInv, Own, Visit, NEW q \in requests, NEW body, Answer(q, body),
         body # Failure \/ ~Current(q),
         UNCHANGED <<address, visit, mounted, page, removed>>
  PROVE  Own' /\ Visit' /\ \A kind : Awaits(kind)' <=> Awaits(kind)
<1>1. PICK a : /\ requests' = (requests \ {q}) \cup {a}
               /\ a.kind = q.kind /\ a.video = q.video /\ a.visit = q.visit
               /\ a.reply = body
               /\ Current(a)' = Current(q) /\ Current(a) = Current(q)
               /\ IsMounted(a)' = IsMounted(q) /\ Changes(a) = Changes(q)
  BY AnswerKeeps
<1>2. \A kind : Awaits(kind)' <=> Awaits(kind)
  BY <1>1 DEF Awaits, Current
<1>3. Own'
  <2>1. ASSUME NEW r \in requests'
        PROVE  IF Current(r)' THEN r.video = address' /\ r.reply # Failure
               ELSE Changes(r) /\ ~IsMounted(r)' /\ r.video # address'
    <3>1. CASE r = a
      BY <1>1, <3>1 DEF Own
    <3>2. CASE r \in requests
      BY <3>2 DEF Own, Current, IsMounted
    <3> QED  BY <1>1, <3>1, <3>2
  <2> QED  BY <2>1 DEF Own, Changes
<1>4. Visit'
  <2>1. ASSUME NEW p \in requests', NEW r \in requests',
               Current(p)', Current(r)', p.kind = r.kind, ~Changes(r)
        PROVE  p = r
    <3>1. ASSUME NEW s \in requests, Current(s), s.kind = a.kind, ~Changes(s), Current(a)
          PROVE  s = q
      BY <1>1, <3>1 DEF Visit
    <3>2. CASE p = a /\ r = a
      BY <3>2
    <3>3. CASE p = a /\ r # a
      BY <1>1, <2>1, <3>1, <3>3 DEF Current
    <3>4. CASE p # a /\ r = a
      BY <1>1, <2>1, <3>1, <3>4 DEF Current, Changes
    <3>5. CASE p # a /\ r # a
      BY <1>1, <2>1, <3>5 DEF Visit, Current
    <3> QED  BY <3>2, <3>3, <3>4, <3>5
  <2>2. \A p, r \in requests' :
          Current(p)' /\ Current(r)' /\ p.kind = r.kind /\ ~Changes(r) => p = r
    BY <2>1
  <2> QED  BY <1>2, <2>2 DEF Visit, Changes
<1> QED  BY <1>2, <1>3, <1>4

\* The page and the status are answered with what the server has.
LEMMA GetFollows ==
  ASSUME IInv, Follows, NEW q \in requests, HandleGet(q)
  PROVE  Follows'
<1>1. PICK body : body = Body(q.video \in stored, LikeCount(q.video))
  OBVIOUS
<1>2. /\ Answer(q, body) /\ q.kind \in {"detail", "status"} /\ q.reply = Pending
      /\ UNCHANGED <<stored, others, liked, likeCount, address, visit, mounted, page,
                     removed, moved, kept>>
  BY <1>1 DEF HandleGet, server, hook, tab, history
<1>3. PICK a : /\ requests' = (requests \ {q}) \cup {a}
               /\ a.kind = q.kind /\ a.video = q.video /\ a.visit = q.visit
               /\ a.reply = body
               /\ Current(a)' = Current(q) /\ Current(a) = Current(q)
               /\ IsMounted(a)' = IsMounted(q) /\ Changes(a) = Changes(q)
  BY <1>2, AnswerKeeps
<1>4. Current(q) /\ q.video = address
  BY <1>2 DEF Follows, Own, Changes
<1>5. /\ HasBody(a) /\ a.reply.liked = Liked /\ a.reply.count = LikeCount(address)
      /\ body # Failure /\ ~HasBody(q)
  <2>1. a.reply = Body(Liked, LikeCount(address))
    BY <1>1, <1>3, <1>4 DEF Liked
  <2> QED  BY <1>2, <1>3, <2>1, Replies DEF HasBody
<1>6. Own' /\ Visit' /\ \A kind : Awaits(kind)' <=> Awaits(kind)
  BY <1>2, <1>5, AnswerKeepsTheVisit DEF Follows
<1>7. LikeFollows'
  <2>1. ASSUME NEW r \in requests', Current(r)', HasBody(r)
        PROVE  /\ r.kind = "status" => r.reply.liked = Liked'
               /\ r.kind = "PUT" => r.reply.liked /\ (~removed' => Liked')
               /\ r.kind # "DELETE"
    BY <1>2, <1>3, <1>5, <2>1 DEF Follows, LikeFollows, Liked, Current
  <2>2. ~Awaits("status")' => /\ liked' /\ ~removed' => Liked'
                              /\ Liked' /\ ~liked' =>
                                   \E r \in requests' : r.kind = "PUT" /\ Current(r)' /\ HasBody(r)
    BY <1>2, <1>3, <1>5, <1>6 DEF Follows, LikeFollows, Liked, Current
  <2> QED  BY <2>1, <2>2 DEF LikeFollows, HasBody
<1>8. NumberFollows'
  BY <1>2, <1>3, <1>5 DEF Follows, NumberFollows, LikeCount, Current, HasBody
<1> QED  BY <1>6, <1>7, <1>8 DEF Follows

\* PUT stores the like; while none was taken back, its row is there from the
\* first PUT on, and the number with it.
LEMMA PutFollows ==
  ASSUME IInv, Follows, NEW q \in requests, HandlePut(q)
  PROVE  Follows'
<1>1. PICK body : body = Body(TRUE, LikeCount(q.video)')
  OBVIOUS
<1>2. /\ Answer(q, body) /\ q.kind = "PUT" /\ q.reply = Pending
      /\ stored' = stored \cup {q.video}
      /\ UNCHANGED <<others, liked, likeCount, address, visit, mounted, page,
                     removed, moved, kept>>
  BY <1>1 DEF HandlePut, hook, tab, history
<1>3. PICK a : /\ requests' = (requests \ {q}) \cup {a}
               /\ a.kind = q.kind /\ a.video = q.video /\ a.visit = q.visit
               /\ a.reply = body
               /\ Current(a)' = Current(q) /\ Current(a) = Current(q)
               /\ IsMounted(a)' = IsMounted(q) /\ Changes(a) = Changes(q)
  BY <1>2, AnswerKeeps
<1>4. /\ HasBody(a) /\ a.reply.liked = TRUE /\ a.reply.count = LikeCount(q.video)'
      /\ body # Failure /\ ~HasBody(q)
  <2>1. body.is = "body" /\ body.liked = TRUE /\ body.count = LikeCount(q.video)'
    BY <1>1 DEF Body
  <2> QED  BY <1>2, <1>3, <2>1, Replies DEF HasBody
<1>5. Own' /\ Visit' /\ \A kind : Awaits(kind)' <=> Awaits(kind)
  BY <1>2, <1>4, AnswerKeepsTheVisit DEF Follows
<1>6. CASE Current(q)
  <2>1. /\ q.video = address /\ Liked' /\ page = "shown"
        /\ ~Awaits("detail") /\ ~Awaits("status")
    <3>1. q.video = address /\ Awaits("PUT")
      BY <1>2, <1>6 DEF Follows, Own, Awaits
    <3>2. page = "shown" /\ ~Awaits("status") /\ ~Awaits("detail")
      BY <3>1 DEF Follows, Visit
    <3> QED  BY <1>2, <3>1, <3>2 DEF Liked
  <2>2. a \in requests' /\ a.kind = "PUT" /\ Current(a)' /\ HasBody(a)
    BY <1>2, <1>3, <1>4, <1>6
  <2>3. LikeFollows'
    <3>1. ASSUME NEW r \in requests', Current(r)', HasBody(r)
          PROVE  /\ r.kind # "status" /\ r.kind # "DELETE"
                 /\ r.kind = "PUT" => r.reply.liked
      BY <1>2, <1>3, <1>4, <2>1, <3>1 DEF Follows, LikeFollows, Awaits, Current
    <3> QED  BY <2>1, <2>2, <3>1 DEF LikeFollows, HasBody
  <2>4. ASSUME ~removed, ~moved, NEW r \in requests', Current(r)', HasBody(r),
               r.kind \in {"detail", "PUT"}
        PROVE  r.reply.count = LikeCount(address)'
    <3>1. CASE r = a
      BY <1>4, <2>1, <3>1, <1>2
    <3>2. CASE r # a
      <4>1. r \in requests /\ Current(r) /\ r.kind = "PUT"
        BY <1>2, <1>3, <2>1, <2>4, <3>2 DEF Current, Awaits
      <4>2. Liked /\ r.reply.count = LikeCount(address)
        BY <2>4, <4>1 DEF Follows, LikeFollows, NumberFollows
      <4> QED  BY <1>2, <4>2, <2>1 DEF LikeCount, Liked
    <3> QED  BY <3>1, <3>2
  <2>5. NumberFollows'
    BY <1>2, <2>2, <2>4 DEF NumberFollows, HasBody
  <2> QED  BY <1>5, <2>3, <2>5 DEF Follows
<1>7. CASE ~Current(q)
  <2>1. q.video # address /\ Liked' = Liked /\ LikeCount(address)' = LikeCount(address)
    BY <1>2, <1>7 DEF Follows, Own, Liked, LikeCount
  <2>2. \A r : r \in requests' /\ Current(r)' <=> r \in requests /\ Current(r)
    BY <1>2, <1>3, <1>7 DEF Current
  <2>3. LikeFollows'
    BY <1>2, <1>5, <2>1, <2>2 DEF Follows, LikeFollows, HasBody
  <2>4. NumberFollows'
    BY <1>2, <2>1, <2>2 DEF Follows, NumberFollows, HasBody
  <2> QED  BY <1>5, <2>3, <2>4 DEF Follows
<1> QED  BY <1>6, <1>7

\* DELETE removes the row; the visit then knows that a like was taken back.
LEMMA DeleteFollows ==
  ASSUME IInv, Follows, NEW q \in requests, HandleDelete(q)
  PROVE  Follows'
<1>1. /\ Answer(q, NoContent) /\ q.kind = "DELETE" /\ q.reply = Pending
      /\ stored' = stored \ {q.video}
      /\ UNCHANGED <<others, liked, likeCount, address, visit, mounted, page,
                     removed, moved, kept>>
  BY DEF HandleDelete, hook, tab, history
<1>2. PICK a : /\ requests' = (requests \ {q}) \cup {a}
               /\ a.kind = q.kind /\ a.video = q.video /\ a.visit = q.visit
               /\ a.reply = NoContent
               /\ Current(a)' = Current(q) /\ Current(a) = Current(q)
               /\ IsMounted(a)' = IsMounted(q) /\ Changes(a) = Changes(q)
  BY <1>1, AnswerKeeps
<1>3. ~HasBody(a) /\ NoContent # Failure /\ ~HasBody(q)
  BY <1>1, <1>2, Replies DEF HasBody
<1>4. Own' /\ Visit' /\ \A kind : Awaits(kind)' <=> Awaits(kind)
  BY <1>1, <1>3, AnswerKeepsTheVisit DEF Follows
<1>5. \A r : r \in requests' /\ Current(r)' /\ HasBody(r) <=> r \in requests /\ Current(r) /\ HasBody(r)
  BY <1>1, <1>2, <1>3 DEF Current
<1>6. CASE Current(q)
  <2>1. q.video = address /\ ~Liked' /\ removed /\ ~Awaits("status")
    BY <1>1, <1>6 DEF Follows, Own, Visit, Awaits, Liked
  <2>2. LikeFollows'
    <3>1. ASSUME NEW r \in requests', Current(r)', HasBody(r)
          PROVE  /\ r.kind # "status" /\ r.kind # "DELETE"
                 /\ r.kind = "PUT" => r.reply.liked
      BY <1>5, <2>1, <3>1 DEF Follows, LikeFollows, Awaits
    <3> QED  BY <1>1, <2>1, <3>1 DEF LikeFollows, HasBody
  <2>3. NumberFollows'
    BY <1>1, <2>1 DEF NumberFollows
  <2> QED  BY <1>4, <2>2, <2>3 DEF Follows
<1>7. CASE ~Current(q)
  <2>1. q.video # address /\ Liked' = Liked /\ LikeCount(address)' = LikeCount(address)
    BY <1>1, <1>7 DEF Follows, Own, Liked, LikeCount
  <2>2. LikeFollows'
    BY <1>1, <1>4, <1>5, <2>1 DEF Follows, LikeFollows, HasBody
  <2>3. NumberFollows'
    BY <1>1, <1>5, <2>1 DEF Follows, NumberFollows, HasBody
  <2> QED  BY <1>4, <2>2, <2>3 DEF Follows
<1> QED  BY <1>6, <1>7

\* What is lost of this visit excuses it; what is lost of earlier ones never
\* mattered.
LEMMA LoseFollows ==
  ASSUME IInv, Follows, NEW q \in requests, Lose(q), ~excused'
  PROVE  Follows'
<1>1. /\ Answer(q, Failure) /\ ~Current(q)
      /\ UNCHANGED <<stored, others, liked, likeCount, address, visit, mounted, page,
                     removed, moved, kept>>
  BY DEF Lose, server, hook, tab, Current
<1>2. PICK a : /\ requests' = (requests \ {q}) \cup {a}
               /\ a.kind = q.kind /\ a.video = q.video /\ a.visit = q.visit
               /\ a.reply = Failure
               /\ Current(a)' = Current(q) /\ Current(a) = Current(q)
               /\ IsMounted(a)' = IsMounted(q) /\ Changes(a) = Changes(q)
  BY <1>1, AnswerKeeps
<1>3. Own' /\ Visit' /\ \A kind : Awaits(kind)' <=> Awaits(kind)
  BY <1>1, AnswerKeepsTheVisit DEF Follows
<1>4. \A r : r \in requests' /\ Current(r)' <=> r \in requests /\ Current(r)
  BY <1>1, <1>2 DEF Current
<1>5. LikeFollows'
  BY <1>1, <1>3, <1>4 DEF Follows, LikeFollows, Liked, HasBody
<1>6. NumberFollows'
  BY <1>1, <1>4 DEF Follows, NumberFollows, LikeCount, HasBody
<1> QED  BY <1>3, <1>5, <1>6 DEF Follows

\* Other users move the number only, and the visit knows it.
LEMMA OtherUsersFollow ==
  ASSUME IInv, Follows, NEW v \in Video, OtherUsers(v)
  PROVE  Follows'
<1>1. /\ UNCHANGED <<stored, liked, likeCount, address, visit, mounted, page, requests,
                     removed, kept>>
      /\ moved' = (moved \/ v = address)
      /\ \E n : others' = [others EXCEPT ![v] = n]
  BY DEF OtherUsers, hook, tab
<1>2. Own' /\ Visit' /\ LikeFollows'
  BY <1>1 DEF Follows, Own, Visit, LikeFollows, Liked, Current, IsMounted, Awaits
<1>3. CASE address \in Video
  <2>1. others \in [Video -> 0..MaxOthers]
    BY TypesSplit DEF IInv, Fields
  <2>2. v # address => LikeCount(address)' = LikeCount(address)
    BY <1>1, <1>3, <2>1 DEF LikeCount
  <2>3. NumberFollows'
    BY <1>1, <2>2 DEF Follows, NumberFollows, Current, HasBody
  <2> QED  BY <1>2, <2>3 DEF Follows
<1>4. CASE address = None
  <2>1. page # "shown" /\ \A q \in requests : ~Current(q)
    BY <1>4, RequestsAreTyped, NoneIsNoVideo DEF IInv, RequestsOK, Follows, Own
  <2>2. NumberFollows'
    BY <1>1, <2>1 DEF NumberFollows, Current
  <2> QED  BY <1>2, <2>2 DEF Follows
<1> QED
  BY <1>3, <1>4, TypesSplit DEF IInv, Fields

\* What a request that leaves with its answer leaves behind.
LEMMA ReadKeeps ==
  ASSUME Follows, NEW q \in requests, Read(q)
  PROVE  /\ Own'
         /\ \A p, r \in requests' :
              Current(p)' /\ Current(r)' /\ p.kind = r.kind /\ ~Changes(r) => p = r
         /\ \A kind : Awaits(kind)' => Awaits(kind)
         /\ \A kind : kind # q.kind \/ ~Current(q) => (Awaits(kind)' <=> Awaits(kind))
         /\ Current(q) /\ ~Changes(q) => ~Awaits(q.kind)'
         /\ Liked' = Liked /\ LikeCount(address)' = LikeCount(address)
<1>1. /\ requests' = requests \ {q}
      /\ UNCHANGED <<stored, others, address, visit, mounted>>
  BY DEF Read, server
<1>2. Own'
  BY <1>1 DEF Follows, Own, Current, IsMounted, Changes
<1>3. \A p, r \in requests' :
        Current(p)' /\ Current(r)' /\ p.kind = r.kind /\ ~Changes(r) => p = r
  BY <1>1 DEF Follows, Visit, Current, Changes
<1>4. /\ \A kind : Awaits(kind)' => Awaits(kind)
      /\ \A kind : kind # q.kind \/ ~Current(q) => (Awaits(kind)' <=> Awaits(kind))
  BY <1>1 DEF Awaits, Current
<1>5. Current(q) /\ ~Changes(q) => ~Awaits(q.kind)'
  BY <1>1 DEF Follows, Visit, Awaits, Current, Changes
<1>6. Liked' = Liked /\ LikeCount(address)' = LikeCount(address)
  BY <1>1 DEF Liked, LikeCount
<1> QED  BY <1>2, <1>3, <1>4, <1>5, <1>6

\* An answer of this visit that is not one to DELETE has a body.
LEMMA OwnAnswersHaveBodies ==
  ASSUME IInv, Follows, NEW q \in requests, Current(q), q.reply # Pending
  PROVE  HasBody(q) \/ q.kind = "DELETE"
BY RequestsAreTyped DEF Follows, Own

LEMMA DetailFollows ==
  ASSUME IInv, Follows, NEW q \in requests, DetailArrives(q)
  PROVE  Follows'
<1>1. /\ q.kind = "detail" /\ q.reply # Pending /\ Read(q) /\ liked' = liked
      /\ requests' = requests \ {q}
      /\ UNCHANGED <<stored, others, address, visit, mounted, removed, moved>>
  BY DEF DetailArrives, Read, server
<1>2. Current(q)
  BY <1>1 DEF IInv, RequestsOK, Current
<1>3. HasBody(q)
  BY <1>1, <1>2, OwnAnswersHaveBodies
<1>4. /\ page' = "shown" /\ initial' = q.reply.count
      /\ likeCount' = IF q.reply.count # initial THEN q.reply.count ELSE likeCount
      /\ kept' = (q.reply.count = initial /\ likeCount # initial)
  BY <1>3 DEF DetailArrives
<1>5. ~Awaits("PUT") /\ ~Awaits("DELETE")
  <2>1. page = "loading"
    BY <1>1, <1>2 DEF Follows, Visit, Awaits
  <2> QED  BY <2>1 DEF Follows, Visit
<1>6. Visit'
  <2>1. ~Awaits("detail")' /\ ~Awaits("PUT")' /\ ~Awaits("DELETE")'
    BY <1>1, <1>2, <1>5, ReadKeeps DEF Changes
  <2> QED  BY <1>1, <2>1, ReadKeeps DEF Visit, Changes
<1>7. LikeFollows'
  <2>1. Awaits("status")' <=> Awaits("status")
    BY <1>1, ReadKeeps
  <2>2. Liked' = Liked
    BY <1>1, ReadKeeps
  <2> QED  BY <1>1, <2>1, <2>2 DEF Follows, LikeFollows, Current, HasBody
<1>8. NumberFollows'
  <2>1. ASSUME ~removed, ~moved
        PROVE  /\ \A r \in requests : Current(r) /\ HasBody(r) /\ r.kind \in {"detail", "PUT"} =>
                    r.reply.count = LikeCount(address)
               /\ ~kept' => likeCount' = LikeCount(address)
    <3>1. \A r \in requests : Current(r) /\ HasBody(r) /\ r.kind \in {"detail", "PUT"} =>
                    r.reply.count = LikeCount(address)
      BY <2>1 DEF Follows, NumberFollows
    <3>2. q.reply.count = LikeCount(address)
      BY <1>1, <1>2, <1>3, <3>1
    <3> QED  BY <1>4, <3>1, <3>2
  <2>2. LikeCount(address)' = LikeCount(address)
    BY <1>1, ReadKeeps
  <2> QED  BY <1>1, <2>1, <2>2 DEF NumberFollows, Current, HasBody
<1> QED  BY <1>1, <1>6, <1>7, <1>8, ReadKeeps DEF Follows

\* The status is read before the user could click: nothing has changed it.
LEMMA StatusFollows ==
  ASSUME IInv, Follows, NEW q \in requests, StatusArrives(q)
  PROVE  Follows'
<1>1. /\ q.kind = "status" /\ q.reply # Pending /\ Read(q)
      /\ requests' = requests \ {q} /\ liked' = (HasBody(q) /\ q.reply.liked)
      /\ UNCHANGED <<stored, others, address, visit, mounted, removed, moved,
                     likeCount, page, kept>>
  BY DEF StatusArrives, Read, server
<1>2. Current(q)
  BY <1>1 DEF Follows, Own, Changes
<1>3. HasBody(q)
  BY <1>1, <1>2, OwnAnswersHaveBodies
<1>4. ~Awaits("PUT") /\ ~Awaits("DELETE")
  BY <1>1, <1>2 DEF Follows, Visit, Awaits
<1>5. /\ ~Awaits("PUT")' /\ ~Awaits("DELETE")' /\ ~Awaits("status")'
      /\ Awaits("detail")' <=> Awaits("detail")
      /\ Liked' = Liked /\ LikeCount(address)' = LikeCount(address)
  BY <1>1, <1>2, <1>4, ReadKeeps DEF Changes
<1>6. Visit'
  BY <1>1, <1>5, ReadKeeps DEF Follows, Visit, Changes
<1>7. LikeFollows'
  <2>1. q.reply.liked = Liked
    BY <1>1, <1>2, <1>3 DEF Follows, LikeFollows
  <2>2. liked' <=> Liked'
    BY <1>1, <1>3, <1>5, <2>1
  <2>3. \A r \in requests' : Current(r)' /\ HasBody(r) =>
          r.kind # "status" /\ r.kind # "PUT" /\ r.kind # "DELETE"
    BY <1>5 DEF Awaits, Current
  <2> QED  BY <2>2, <2>3 DEF LikeFollows, HasBody
<1>8. NumberFollows'
  BY <1>1, <1>5 DEF Follows, NumberFollows, Current, HasBody
<1> QED  BY <1>1, <1>6, <1>7, <1>8, ReadKeeps DEF Follows

\* An answer to PUT says what the server has; one to DELETE has no body, and one
\* to an earlier visit no page: both leave the page as it is.
LEMMA AnswerFollows ==
  ASSUME IInv, Follows, NEW q \in requests, AnswerArrives(q)
  PROVE  Follows'
<1>1. /\ q.kind \in {"PUT", "DELETE"} /\ q.reply # Pending /\ Read(q)
      /\ requests' = requests \ {q}
      /\ UNCHANGED <<stored, others, address, visit, mounted, removed, moved, page, kept>>
  BY DEF AnswerArrives, Read, Changes, server
<1>2. /\ Awaits("status")' <=> Awaits("status")
      /\ Awaits("detail")' <=> Awaits("detail")
      /\ Awaits("PUT")' => Awaits("PUT")
      /\ Awaits("DELETE")' => Awaits("DELETE")
      /\ Liked' = Liked /\ LikeCount(address)' = LikeCount(address)
  BY <1>1, ReadKeeps
<1>3. Visit'
  BY <1>1, <1>2, ReadKeeps DEF Follows, Visit, Changes
<1>4. CASE Current(q) /\ HasBody(q)
  <2>1. q.kind = "PUT" /\ q.reply.liked /\ (~removed => Liked)
    BY <1>1, <1>4 DEF Follows, LikeFollows
  <2>2. IsMounted(q)
    BY <1>4, RequestsAreTyped DEF Current, IsMounted
  <2>3. liked' = q.reply.liked /\ likeCount' = q.reply.count
    BY <1>4, <2>2 DEF AnswerArrives
  <2>4. page = "shown" /\ ~Awaits("status")
    BY <1>4, <2>1 DEF Follows, Visit, Awaits
  <2>5. LikeFollows'
    BY <1>1, <1>2, <2>1, <2>3 DEF Follows, LikeFollows, Current, HasBody
  <2>6. NumberFollows'
    BY <1>1, <1>2, <1>4, <2>1, <2>3 DEF Follows, NumberFollows, Current, HasBody
  <2> QED  BY <1>1, <1>3, <2>5, <2>6, ReadKeeps DEF Follows
<1>5. CASE ~(Current(q) /\ HasBody(q))
  <2>1. ~Current(q) => ~IsMounted(q)
    BY DEF Follows, Own
  <2>2. liked' = liked /\ likeCount' = likeCount
    BY <1>5, <2>1 DEF AnswerArrives
  <2>3. \A r : r \in requests' /\ Current(r)' /\ HasBody(r) <=>
               r \in requests /\ Current(r) /\ HasBody(r)
    BY <1>1, <1>5 DEF Current
  <2>4. LikeFollows'
    BY <1>1, <1>2, <2>2, <2>3 DEF Follows, LikeFollows, HasBody
  <2>5. NumberFollows'
    BY <1>1, <1>2, <2>2, <2>3 DEF Follows, NumberFollows, HasBody
  <2> QED  BY <1>1, <1>3, <2>4, <2>5, ReadKeeps DEF Follows
<1> QED  BY <1>4, <1>5

LEMMA StepsFollow == IInv /\ LInv /\ [Next]_vars => LInv'
<1> SUFFICES ASSUME IInv, LInv, [Next]_vars, ~excused'  PROVE Follows'
  BY DEF LInv
<1>1. CASE UNCHANGED vars
  BY <1>1 DEF vars, server, hook, tab, history, LInv, Follows, Own, Visit, LikeFollows,
              NumberFollows, Awaits, Current, IsMounted, Liked, LikeCount
<1>2. ASSUME NEW v \in Video \cup {None}, Navigate(v)  PROVE Follows'
  BY <1>2, NavigateFollows
<1>3. ASSUME NEW v \in Video, OtherUsers(v)  PROVE Follows'
  <2>1. excused' = excused
    BY <1>3 DEF OtherUsers
  <2> QED  BY <1>3, <2>1, OtherUsersFollow DEF LInv
<1>4. CASE Toggle
  <2>1. ~excused
    BY <1>4 DEF Toggle
  <2> QED  BY <1>4, <2>1, ToggleFollows DEF LInv
<1>5. ASSUME NEW q \in requests, Lose(q)  PROVE Follows'
  <2>1. ~excused
    BY <1>5 DEF Lose
  <2> QED  BY <1>5, <2>1, LoseFollows DEF LInv
<1>6. ASSUME NEW q \in requests, HandleGet(q) \/ HandlePut(q) \/ HandleDelete(q)
      PROVE  Follows'
  <2>1. excused' = excused
    BY <1>6 DEF HandleGet, HandlePut, HandleDelete, history
  <2> QED  BY <1>6, <2>1, GetFollows, PutFollows, DeleteFollows DEF LInv
<1>7. ASSUME NEW q \in requests, DetailArrives(q) \/ StatusArrives(q) \/ AnswerArrives(q)
      PROVE  Follows'
  <2>1. excused' = excused
    BY <1>7 DEF DetailArrives, StatusArrives, AnswerArrives, Read
  <2> QED  BY <1>7, <2>1, DetailFollows, StatusFollows, AnswerFollows DEF LInv
<1> QED  BY <1>1, <1>2, <1>3, <1>4, <1>5, <1>6, <1>7 DEF Next

LEMMA LInvIsInvariant == Spec => [](IInv /\ LInv)
BY Initially, StepsAreTyped, InitFollows, StepsFollow, PTL DEF Spec

\* Nothing of this visit is under way on a settled page.
LEMMA SettledAwaitsNothing ==
  ASSUME IInv, Settled
  PROVE  \A q \in requests : ~Current(q)
BY RequestsAreTyped DEF Settled, IsMounted, Current

\* useLike.ts: a watch page on which nothing is under way shows a like that the
\* server has, and shows none that it has not unless it was taken back, also when
\* the address of the page has changed, as long as the requests of the visit did
\* not overlap with others and none was lost.
THEOREM SettledPagesShowTheLike == Spec => []SettledPageShowsTheLike
<1>1. IInv /\ LInv => SettledPageShowsTheLike
  <2> SUFFICES ASSUME IInv, LInv, Settled, ~excused
               PROVE  /\ address \in stored => liked
                      /\ liked /\ ~removed => address \in stored
    BY DEF SettledPageShowsTheLike
  <2>1. \A q \in requests : ~Current(q)
    BY SettledAwaitsNothing
  <2>2. ~Awaits("status")
    BY <2>1 DEF Awaits
  <2> QED  BY <2>1, <2>2 DEF LInv, Follows, LikeFollows, Liked
<1> QED  BY <1>1, LInvIsInvariant, PTL

\* useLike.ts: such a page also shows the number of likes of its video, unless
\* the user took a like back, others moved the number, or the page went on with
\* the number of the video before because the two were the same.
THEOREM SettledPagesShowTheNumber == Spec => []SettledPageShowsTheNumber
<1>1. IInv /\ LInv => SettledPageShowsTheNumber
  <2> SUFFICES ASSUME IInv, LInv, Settled, ~excused, ~removed, ~moved, ~kept
               PROVE  likeCount = LikeCount(address)
    BY DEF SettledPageShowsTheNumber
  <2>1. \A q \in requests : ~Current(q)
    BY SettledAwaitsNothing
  <2> QED  BY <2>1 DEF LInv, Follows, NumberFollows, Settled
<1> QED  BY <1>1, LInvIsInvariant, PTL
=============================================================================
