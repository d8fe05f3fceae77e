------------------------- MODULE ServerMemoryProofs -------------------------
(***************************************************************************)
(* What the server keeps in its memory, behind a mutex each: the hits of   *)
(* the rate limiter and the views counted.                                 *)
(*                                                                         *)
(* The limiter allows at most Limit calls of a client in any Window less   *)
(* the longest wait for the mutex, and refuses no call without Limit       *)
(* allowed ones in the Window before it; for any number of clients and     *)
(* calls.                                                                  *)
(*                                                                         *)
(* For any keys, requests, interval, stale age not below it and capacity,  *)
(* the map of views keeps its bound, two tries of a key are an interval    *)
(* apart, and a request is skipped for a reason.  What the map knows of    *)
(* the requests it let through (MapKnowsTries) carries the induction.      *)
(***************************************************************************)
EXTENDS RateLimiter, ViewDedupe, FiniteSetTheorems, TLAPS

-----------------------------------------------------------------------------
(* The rate limiter. *)

USE LimiterNumbers, ClientOfCalls

\* Every subset of the calls is finite, and a smaller set has fewer calls.
LEMMA CallSets ==
  ASSUME NEW S \in SUBSET Call, NEW T \in SUBSET Call, S \subseteq T
  PROVE  IsFiniteSet(T) /\ Cardinality(S) \in Nat /\ Cardinality(T) \in Nat
         /\ Cardinality(S) <= Cardinality(T)
<1>1. IsFiniteSet(T)
  BY FiniteCalls, FS_Subset
<1>2. IsFiniteSet(S) /\ Cardinality(S) <= Cardinality(T)
  BY <1>1, FS_Subset
<1> QED
  BY <1>1, <1>2, FS_CardinalityType

LEMMA OneMore ==
  ASSUME NEW S \in SUBSET Call, NEW c \in Call
  PROVE  Cardinality(S \cup {c}) <= Cardinality(S) + 1
<1>1. IsFiniteSet(S)
  BY FiniteCalls, FS_Subset
<1>2. Cardinality(S) \in Nat
  BY <1>1, FS_CardinalityType
<1>3. CASE c \in S
  <2>1. S \cup {c} = S
    BY <1>3
  <2>2. Cardinality(S \cup {c}) = Cardinality(S)
    BY <2>1
  <2> QED
    BY <2>2, <1>2
<1>4. CASE c \notin S
  <2>1. Cardinality(S \cup {c}) = Cardinality(S) + 1
    BY <1>1, <1>4, FS_AddElement
  <2> QED
    BY <2>1, <1>2
<1> QED
  BY <1>3, <1>4

LEMMA LimiterKeepsTypes == LimiterTypeOK /\ [LimiterNext]_limiterVars => LimiterTypeOK'
<1> SUFFICES ASSUME LimiterTypeOK, [LimiterNext]_limiterVars PROVE LimiterTypeOK'
  OBVIOUS
<1>1. CASE LimiterTick
  BY <1>1 DEF LimiterTypeOK, LimiterTick
<1>2. ASSUME NEW c \in Call, ReadClock(c) PROVE LimiterTypeOK'
  BY <1>2 DEF LimiterTypeOK, ReadClock
<1>3. ASSUME NEW c \in Call, Allow(c) \/ Refuse(c) PROVE LimiterTypeOK'
  BY <1>3 DEF LimiterTypeOK, Allow, Refuse, Kept
<1>4. CASE UNCHANGED limiterVars
  BY <1>4 DEF LimiterTypeOK, limiterVars
<1> QED
  BY <1>1, <1>2, <1>3, <1>4 DEF LimiterNext

\* The types of the limiter's map and of the calls.
THEOREM LimiterTypeCorrect == LimiterSpec => []LimiterTypeOK
<1>1. LimiterInit => LimiterTypeOK
  BY DEF LimiterInit, LimiterTypeOK
<1> QED
  BY <1>1, LimiterKeepsTypes, PTL DEF LimiterSpec

LEMMA StepKeepsForgotten == LimiterTypeOK /\ Forgotten /\ [LimiterNext]_limiterVars => Forgotten'
<1> SUFFICES ASSUME LimiterTypeOK, Forgotten, [LimiterNext]_limiterVars PROVE Forgotten'
  OBVIOUS
<1>1. CASE LimiterTick
  BY <1>1 DEF LimiterTypeOK, Forgotten, LimiterTick
<1>2. ASSUME NEW c \in Call, ReadClock(c) PROVE Forgotten'
  BY <1>2 DEF LimiterTypeOK, Forgotten, ReadClock
<1>3. ASSUME NEW c \in Call, Allow(c) PROVE Forgotten'
  BY <1>3 DEF LimiterTypeOK, Forgotten, Allow, Kept
<1>4. ASSUME NEW c \in Call, Refuse(c) PROVE Forgotten'
  BY <1>4 DEF LimiterTypeOK, Forgotten, Refuse, Kept
<1>5. CASE UNCHANGED limiterVars
  BY <1>5 DEF Forgotten, limiterVars
<1> QED
  BY <1>1, <1>2, <1>3, <1>4, <1>5 DEF LimiterNext

\* The heart of the argument: a call allowed in the same span as c was neither
\* pruned before c nor is pruned by c, so c saw it and counted it.
LEMMA AllowKeepsLimit ==
  ASSUME LimiterTypeOK, Forgotten, LimitHolds, NEW c \in Call, Allow(c)
  PROVE  LimitHolds'
<1> SUFFICES ASSUME NEW k \in Client, NEW t \in 0..LastTick
             PROVE  Cardinality(AllowedIn(k, t, t + Window - Delay)') <= Limit
  BY DEF LimitHolds
<1> DEFINE span == t + Window - Delay
           before == AllowedIn(k, t, span)
           after == AllowedIn(k, t, span)'
<1>1. after = before \/ (k = ClientOf[c] /\ t <= now[c] /\ now[c] < span /\ after = before \cup {c})
  BY DEF Allow, LimiterTypeOK, AllowedIn
<1>2. CASE after = before
  BY <1>2 DEF LimitHolds
<1>3. CASE k = ClientOf[c] /\ t <= now[c] /\ now[c] < span /\ after = before \cup {c}
  <2>1. before \subseteq Kept(c)
    <3> SUFFICES ASSUME NEW d \in before PROVE d \in Kept(c)
      OBVIOUS
    <3>1. /\ d \in Call /\ pc[d] = "allowed" /\ ClientOf[d] = ClientOf[c] /\ t <= now[d]
          /\ now[d] \in Nat /\ now[c] \in Nat /\ limiterClock \in Nat
      BY <1>3 DEF AllowedIn, LimiterTypeOK
    <3>2. limiterClock - now[c] <= Delay
      BY DEF Allow, Forgotten
    <3>3. now[d] > limiterClock - Window
      BY <1>3, <3>1, <3>2
    <3>4. d \in hits[ClientOf[c]]
      BY <3>1, <3>3 DEF Forgotten
    <3>5. now[d] > now[c] - Window
      BY <1>3, <3>1
    <3> QED
      BY <3>4, <3>5 DEF Kept
  <2>2. Kept(c) \in SUBSET Call /\ before \in SUBSET Call
    BY DEF Kept, AllowedIn, LimiterTypeOK
  <2>3. Cardinality(before) <= Cardinality(Kept(c)) /\ Cardinality(before) \in Nat
        /\ Cardinality(Kept(c)) \in Nat
    BY <2>1, <2>2, CallSets
  <2>4. Cardinality(Kept(c)) < Limit
    BY DEF Allow
  <2>5. Cardinality(after) <= Cardinality(before) + 1
    BY <1>3, <2>2, OneMore
  <2>6. Cardinality(after) \in Nat
    <3>1. after \in SUBSET Call
      BY <1>3, <2>2
    <3> QED
      BY <3>1, CallSets
  <2> QED
    BY <2>3, <2>4, <2>5, <2>6
<1> QED
  BY <1>1, <1>2, <1>3

LEMMA StepKeepsLimit == LimiterTypeOK /\ Forgotten /\ LimitHolds /\ [LimiterNext]_limiterVars => LimitHolds'
<1> SUFFICES ASSUME LimiterTypeOK, Forgotten, LimitHolds, [LimiterNext]_limiterVars PROVE LimitHolds'
  OBVIOUS
<1>1. ASSUME NEW c \in Call, Allow(c) PROVE LimitHolds'
  BY <1>1, AllowKeepsLimit
<1>2. ASSUME \A k \in Client, t \in 0..LastTick :
               AllowedIn(k, t, t + Window - Delay)' = AllowedIn(k, t, t + Window - Delay)
      PROVE  LimitHolds'
  BY <1>2 DEF LimitHolds
<1>3. CASE LimiterTick
  BY <1>2, <1>3 DEF LimiterTick, AllowedIn
<1>4. ASSUME NEW c \in Call, ReadClock(c) PROVE LimitHolds'
  BY <1>2, <1>4 DEF ReadClock, AllowedIn, LimiterTypeOK
<1>5. ASSUME NEW c \in Call, Refuse(c) PROVE LimitHolds'
  BY <1>2, <1>5 DEF Refuse, AllowedIn, LimiterTypeOK
<1>6. CASE UNCHANGED limiterVars
  BY <1>2, <1>6 DEF limiterVars, AllowedIn
<1> QED
  BY <1>1, <1>3, <1>4, <1>5, <1>6 DEF LimiterNext

\* The promise of the limiter, for out-of-order entry to the critical section.
THEOREM LimitAlwaysHolds == LimiterSpec => []LimitHolds
<1>1. LimiterInit => Forgotten /\ LimitHolds
  <2> SUFFICES ASSUME LimiterInit PROVE Forgotten /\ LimitHolds
    OBVIOUS
  <2>1. Forgotten
    BY DEF LimiterInit, Forgotten
  <2>2. \A k \in Client, t \in 0..LastTick : AllowedIn(k, t, t + Window - Delay) = {}
    BY DEF LimiterInit, AllowedIn
  <2> QED
    BY <2>1, <2>2, FS_EmptySet DEF LimitHolds
<1> QED
  BY <1>1, LimiterTypeCorrect, StepKeepsForgotten, StepKeepsLimit, PTL DEF LimiterSpec

\* The calls of c's key allowed at most a Window before c.
AllowedBefore(c) ==
  {d \in Call : pc[d] = "allowed" /\ ClientOf[d] = ClientOf[c] /\ now[d] > now[c] - Window}

LEMMA StepKeepsRefusals ==
  LimiterTypeOK /\ Forgotten /\ RefusalsAreDeserved /\ [LimiterNext]_limiterVars => RefusalsAreDeserved'
<1> SUFFICES ASSUME LimiterTypeOK, Forgotten, RefusalsAreDeserved, [LimiterNext]_limiterVars,
                    NEW c \in Call, pc'[c] = "refused"
             PROVE  Cardinality(AllowedBefore(c)') >= Limit
  BY DEF RefusalsAreDeserved, AllowedBefore
<1>1. AllowedBefore(c) \in SUBSET Call /\ AllowedBefore(c)' \in SUBSET Call /\ Kept(c) \in SUBSET Call
  BY DEF AllowedBefore, Kept, LimiterTypeOK
<1>2. CASE pc[c] = "refused"
  <2>1. AllowedBefore(c) \subseteq AllowedBefore(c)'
    BY <1>2 DEF AllowedBefore, LimiterNext, limiterVars, LimiterTick, ReadClock, Allow, Refuse, LimiterTypeOK
  <2>2. Cardinality(AllowedBefore(c)) >= Limit
    BY <1>2 DEF RefusalsAreDeserved, AllowedBefore
  <2> QED
    BY <1>1, <2>1, <2>2, CallSets
<1>3. CASE pc[c] # "refused"
  <2>1. Refuse(c)
    BY <1>3 DEF LimiterNext, limiterVars, LimiterTick, ReadClock, Allow, Refuse, LimiterTypeOK
  <2>2. Kept(c) \subseteq AllowedBefore(c)'
    BY <2>1 DEF Kept, AllowedBefore, Refuse, Forgotten, LimiterTypeOK
  <2>3. Cardinality(Kept(c)) >= Limit
    BY <2>1 DEF Refuse
  <2> QED
    BY <1>1, <2>2, <2>3, CallSets
<1> QED
  BY <1>2, <1>3

\* No call is refused for hits that were never allowed.
THEOREM EveryRefusalIsDeserved == LimiterSpec => []RefusalsAreDeserved
<1>1. LimiterInit => Forgotten /\ RefusalsAreDeserved
  BY DEF LimiterInit, Forgotten, RefusalsAreDeserved
<1> QED
  BY <1>1, LimiterTypeCorrect, StepKeepsForgotten, StepKeepsRefusals, PTL DEF LimiterSpec

-----------------------------------------------------------------------------
(* The view counter. *)

USE Requests, AbsentIsNoTime, Numbers, StaleIsOld

LEMMA PruneKeepsTypes ==
  ASSUME NEW l \in [Key -> Nat \cup {Absent}], era \in [Key -> Nat], Prune(l)
  PROVE  /\ last' \in [Key -> Nat \cup {Absent}] /\ era' \in [Key -> Nat]
         /\ Cardinality(Known(last')) <= MapMax
<1> DEFINE kept == IF Cardinality(Known(l)) <= MapMax THEN l ELSE WithoutStale(l)
<1>1. kept \in [Key -> Nat \cup {Absent}]
  BY DEF WithoutStale
<1>2. PICK E \in Evictions(kept) :
        /\ last' = [k \in Key |-> IF k \in E THEN Absent ELSE kept[k]]
        /\ era' = [k \in Key |-> IF k \in E THEN era[k] + 1 ELSE era[k]]
  BY DEF Prune
<1>3. Known(last') = Known(kept) \ E
  BY <1>1, <1>2 DEF Known
<1>4. Cardinality(Known(kept) \ E) <= MapMax
  <2>1. CASE Cardinality(Known(kept)) <= MapMax
    <3>1. E = {}
      BY <1>2, <2>1 DEF Evictions
    <3>2. Known(kept) \ E = Known(kept)
      BY <3>1
    <3> QED
      BY <2>1, <3>2
  <2>2. CASE ~(Cardinality(Known(kept)) <= MapMax)
    <3>1. Cardinality(Known(kept) \ E) = MapMax
      BY <1>2, <2>2 DEF Evictions
    <3> QED
      BY <3>1
  <2> QED
    BY <2>1, <2>2
<1> HIDE DEF kept
<1>5. last' \in [Key -> Nat \cup {Absent}]
  BY <1>1, <1>2
<1>6. era' \in [Key -> Nat]
  BY <1>2
<1>7. Cardinality(Known(last')) <= MapMax
  BY <1>3, <1>4
<1> QED
  BY <1>5, <1>6, <1>7

\* What a prune does to one key: it keeps its entry and its era, or forgets it
\* and begins an era, or forgets it because it is stale.
LEMMA PruneOfAKey ==
  ASSUME NEW l \in [Key -> Nat \cup {Absent}], era \in [Key -> Nat], clock \in Nat,
         Prune(l), NEW k \in Key
  PROVE  \/ last'[k] = l[k] /\ era'[k] = era[k]
         \/ last'[k] = Absent /\ era'[k] = era[k] + 1
         \/ last'[k] = Absent /\ era'[k] = era[k] /\ l[k] # Absent /\ l[k] + StaleAge < clock
<1> DEFINE kept == IF Cardinality(Known(l)) <= MapMax THEN l ELSE WithoutStale(l)
<1>1. PICK E \in Evictions(kept) :
        /\ last' = [j \in Key |-> IF j \in E THEN Absent ELSE kept[j]]
        /\ era' = [j \in Key |-> IF j \in E THEN era[j] + 1 ELSE era[j]]
  BY DEF Prune
<1>2. kept[k] = l[k] \/ (kept[k] = Absent /\ l[k] # Absent /\ l[k] < clock - StaleAge)
  BY DEF WithoutStale
<1> QED
  BY <1>1, <1>2

-----------------------------------------------------------------------------
LEMMA StepKeepsTypes == TypeOK /\ [Next]_vars => TypeOK'
<1> SUFFICES ASSUME TypeOK, [Next]_vars PROVE TypeOK'
  OBVIOUS
<1>1. CASE Tick
  BY <1>1 DEF TypeOK, Tick, Tried, Known
<1>2. CASE Restart
  <2>1. Known(last)' = {}
    BY <1>2 DEF Restart, Known
  <2>2. Cardinality({}) = 0
    BY FS_EmptySet
  <2>3. Cardinality(Known(last)') <= MapMax
    BY <2>1, <2>2
  <2>4. /\ last' \in [Key -> Nat \cup {Absent}] /\ era' \in [Key -> Nat]
        /\ state' \in [Request -> Tried \cup {"new", "skipped"}]
        /\ restarts' \in 0..MaxRestarts
    BY <1>2 DEF TypeOK, Restart, Tried
  <2> QED
    BY <1>2, <2>3, <2>4 DEF TypeOK, Restart
<1>3. ASSUME NEW r \in Request, Skip(r) PROVE TypeOK'
  BY <1>3 DEF TypeOK, Skip, Tried, Known
<1>4. ASSUME NEW r \in Request, Try(r) PROVE TypeOK'
  <2> DEFINE l == [last EXCEPT ![KeyOf[r]] = clock]
  <2>1. l \in [Key -> Nat \cup {Absent}] /\ era \in [Key -> Nat] /\ Prune(l)
    BY <1>4 DEF TypeOK, Try
  <2>2. /\ last' \in [Key -> Nat \cup {Absent}] /\ era' \in [Key -> Nat]
        /\ Cardinality(Known(last')) <= MapMax
    BY <2>1, PruneKeepsTypes
  <2>3. Known(last') = Known(last)'
    BY DEF Known
  <2> QED
    BY <1>4, <2>2, <2>3 DEF TypeOK, Try, Tried
<1>5. ASSUME NEW r \in Request, Increment(r) PROVE TypeOK'
  BY <1>5 DEF TypeOK, Increment, Tried, Known
<1>6. CASE UNCHANGED vars
  BY <1>6 DEF TypeOK, vars, Known
<1> QED
  BY <1>1, <1>2, <1>3, <1>4, <1>5, <1>6 DEF Next

\* The map stays within its bound and everything keeps its type.
THEOREM TypeCorrect == Spec => []TypeOK
<1>1. Init => TypeOK
  <2> SUFFICES ASSUME Init PROVE TypeOK
    OBVIOUS
  <2>1. Known(last) = {}
    BY DEF Init, Known
  <2>2. Cardinality({}) = 0
    BY FS_EmptySet
  <2> QED
    BY <2>1, <2>2 DEF Init, TypeOK
<1> QED
  BY <1>1, StepKeepsTypes, PTL DEF Spec

-----------------------------------------------------------------------------
\* The two halves of MapKnowsTries.
EntriesAreTries ==
  \A k \in Key : last[k] # Absent =>
    \E q \in Request : /\ state[q] \in Tried /\ KeyOf[q] = k
                       /\ at[q] = last[k] /\ at[q] <= clock

TryIsKnown(r) ==
  /\ eraOf[r] <= era[KeyOf[r]]
  /\ eraOf[r] = era[KeyOf[r]] =>
       \/ last[KeyOf[r]] # Absent /\ at[r] <= last[KeyOf[r]]
       \/ at[r] + StaleAge < clock

LEMMA TryKeepsEntries ==
  ASSUME TypeOK, EntriesAreTries, NEW r \in Request, Try(r)
  PROVE  EntriesAreTries'
<1> DEFINE l == [last EXCEPT ![KeyOf[r]] = clock]
<1> SUFFICES ASSUME NEW k \in Key, last'[k] # Absent
             PROVE  \E q \in Request : /\ state'[q] \in Tried /\ KeyOf[q] = k
                                       /\ at'[q] = last'[k] /\ at'[q] <= clock'
  BY DEF EntriesAreTries
<1>1. l \in [Key -> Nat \cup {Absent}] /\ era \in [Key -> Nat] /\ clock \in Nat /\ Prune(l)
  BY DEF TypeOK, Try
<1>2. last'[k] = l[k]
  BY <1>1, PruneOfAKey
<1>3. CASE k = KeyOf[r]
  <2>1. state'[r] \in Tried /\ at'[r] = clock /\ last'[k] = clock /\ clock' = clock
    BY <1>1, <1>2, <1>3 DEF Try, TypeOK, Tried
  <2> QED
    BY <1>1, <1>3, <2>1
<1>4. CASE k # KeyOf[r]
  <2>1. last'[k] = last[k]
    BY <1>2, <1>4 DEF TypeOK
  <2>2. PICK q \in Request : /\ state[q] \in Tried /\ KeyOf[q] = k
                            /\ at[q] = last[k] /\ at[q] <= clock
    BY <2>1 DEF EntriesAreTries
  <2>3. q # r
    BY <2>2 DEF Try, Tried
  <2>4. state'[q] = state[q] /\ at'[q] = at[q] /\ clock' = clock
    BY <2>3 DEF Try, TypeOK
  <2> QED
    BY <2>1, <2>2, <2>4
<1> QED
  BY <1>3, <1>4

LEMMA TryKeepsKnown ==
  ASSUME TypeOK, MapKnowsTries, NEW r \in Request, Try(r),
         NEW q \in Request, state'[q] \in Tried
  PROVE  TryIsKnown(q)'
<1> DEFINE l == [last EXCEPT ![KeyOf[r]] = clock]
           k == KeyOf[q]
<1>1. /\ l \in [Key -> Nat \cup {Absent}] /\ era \in [Key -> Nat] /\ clock \in Nat /\ Prune(l)
      /\ k \in Key /\ clock' = clock /\ at[q] \in Nat /\ eraOf[q] \in Nat
  BY DEF TypeOK, Try
<1>2. \/ last'[k] = l[k] /\ era'[k] = era[k]
      \/ last'[k] = Absent /\ era'[k] = era[k] + 1
      \/ last'[k] = Absent /\ era'[k] = era[k] /\ l[k] # Absent /\ l[k] + StaleAge < clock
  BY <1>1, PruneOfAKey
<1>3. CASE q = r
  <2>1. at'[q] = clock /\ eraOf'[q] = era[k] /\ l[k] = clock
    BY <1>3 DEF Try, TypeOK
  <2>2. ~(l[k] + StaleAge < clock)
    BY <1>1, <2>1
  <2> QED
    BY <1>1, <1>2, <2>1, <2>2 DEF TryIsKnown
<1>4. CASE q # r
  <2>1. state'[q] = state[q] /\ at'[q] = at[q] /\ eraOf'[q] = eraOf[q]
    BY <1>4 DEF Try, TypeOK
  <2>2. /\ eraOf[q] <= era[k]
        /\ eraOf[q] = era[k] => \/ last[k] # Absent /\ at[q] <= last[k]
                                \/ at[q] + StaleAge < clock
    BY <2>1 DEF MapKnowsTries
  <2>3. last[k] # Absent => last[k] \in Nat /\ last[k] <= clock
    BY <1>1 DEF MapKnowsTries, TypeOK
  <2>4. l[k] = last[k] \/ l[k] = clock
    BY <1>1 DEF TypeOK
  <2>5. eraOf[q] = era[k] => \/ l[k] # Absent /\ l[k] \in Nat /\ at[q] <= l[k]
                             \/ at[q] + StaleAge < clock
    BY <1>1, <2>2, <2>3, <2>4
  <2> QED
    BY <1>1, <1>2, <2>1, <2>2, <2>5 DEF TryIsKnown
<1> QED
  BY <1>3, <1>4

LEMMA StepKeepsEntries ==
  TypeOK /\ MapKnowsTries /\ [Next]_vars => EntriesAreTries'
<1> SUFFICES ASSUME TypeOK, MapKnowsTries, [Next]_vars PROVE EntriesAreTries'
  OBVIOUS
<1>0. EntriesAreTries
  BY DEF MapKnowsTries, EntriesAreTries
<1>1. CASE Tick
  BY <1>0, <1>1 DEF EntriesAreTries, Tick, TypeOK
<1>2. CASE Restart
  BY <1>2 DEF EntriesAreTries, Restart
<1>3. ASSUME NEW r \in Request, Skip(r) PROVE EntriesAreTries'
  BY <1>0, <1>3 DEF EntriesAreTries, Skip, TypeOK, Tried
<1>4. ASSUME NEW r \in Request, Try(r) PROVE EntriesAreTries'
  BY <1>0, <1>4, TryKeepsEntries
<1>5. ASSUME NEW r \in Request, Increment(r) PROVE EntriesAreTries'
  BY <1>0, <1>5 DEF EntriesAreTries, Increment, TypeOK, Tried
<1>6. CASE UNCHANGED vars
  BY <1>0, <1>6 DEF EntriesAreTries, vars
<1> QED
  BY <1>1, <1>2, <1>3, <1>4, <1>5, <1>6 DEF Next

LEMMA StepKeepsKnown ==
  ASSUME TypeOK, MapKnowsTries, [Next]_vars,
         NEW q \in Request, state'[q] \in Tried
  PROVE  TryIsKnown(q)'
<1>0. ASSUME state[q] \in Tried PROVE TryIsKnown(q)
  BY <1>0 DEF MapKnowsTries, TryIsKnown
<1>1. CASE Tick
  BY <1>0, <1>1 DEF TryIsKnown, Tick, TypeOK
<1>2. CASE Restart
  BY <1>0, <1>2 DEF TryIsKnown, Restart, TypeOK, Tried
<1>3. ASSUME NEW r \in Request, Skip(r) PROVE TryIsKnown(q)'
  BY <1>0, <1>3 DEF TryIsKnown, Skip, TypeOK, Tried
<1>4. ASSUME NEW r \in Request, Try(r) PROVE TryIsKnown(q)'
  BY <1>4, TryKeepsKnown
<1>5. ASSUME NEW r \in Request, Increment(r) PROVE TryIsKnown(q)'
  BY <1>0, <1>5 DEF TryIsKnown, Increment, TypeOK, Tried
<1>6. CASE UNCHANGED vars
  BY <1>0, <1>6 DEF TryIsKnown, vars
<1> QED
  BY <1>1, <1>2, <1>3, <1>4, <1>5, <1>6 DEF Next

LEMMA StepKeepsMap == TypeOK /\ MapKnowsTries /\ [Next]_vars => MapKnowsTries'
BY StepKeepsEntries, StepKeepsKnown DEF MapKnowsTries, EntriesAreTries, TryIsKnown

\* Every entry of the map is the time of a try, and every try of its key's era
\* is covered by its entry or stale.
THEOREM MapIsTruthful == Spec => []MapKnowsTries
<1>1. Init => MapKnowsTries
  BY DEF Init, MapKnowsTries, Tried
<1> QED
  BY <1>1, StepKeepsMap, TypeCorrect, PTL DEF Spec

-----------------------------------------------------------------------------
LEMMA TryKeepsApart ==
  ASSUME TypeOK, MapKnowsTries, ViewsAreApart, NEW r \in Request, Try(r)
  PROVE  ViewsAreApart'
<1>1. ASSUME NEW q \in Request, q # r, state'[q] \in Tried, KeyOf[q] = KeyOf[r],
             eraOf'[q] = eraOf'[r]
      PROVE  at'[q] + MinInterval <= at'[r]
  <2>1. /\ state[q] \in Tried /\ at'[q] = at[q] /\ eraOf[q] = era[KeyOf[q]]
        /\ at'[r] = clock /\ clock \in Nat /\ at[q] \in Nat
    BY <1>1 DEF Try, TypeOK
  <2>2. \/ last[KeyOf[q]] # Absent /\ at[q] <= last[KeyOf[q]]
        \/ at[q] + StaleAge < clock
    BY <2>1 DEF MapKnowsTries
  <2>3. last[KeyOf[q]] # Absent =>
          last[KeyOf[q]] \in Nat /\ clock - last[KeyOf[q]] >= MinInterval
    BY <1>1, <2>1 DEF Try, Recent, TypeOK
  <2> QED
    BY <2>1, <2>2, <2>3
<1>2. ASSUME NEW p \in Request, NEW q \in Request, p # q, p # r, q # r,
             state'[p] \in Tried, state'[q] \in Tried,
             KeyOf[p] = KeyOf[q], eraOf'[p] = eraOf'[q]
      PROVE  Apart(at'[p], at'[q])
  <2>1. /\ state'[p] = state[p] /\ at'[p] = at[p] /\ eraOf'[p] = eraOf[p]
        /\ state'[q] = state[q] /\ at'[q] = at[q] /\ eraOf'[q] = eraOf[q]
    BY <1>2 DEF Try, TypeOK
  <2> QED
    BY <1>2, <2>1 DEF ViewsAreApart
<1> QED
  BY <1>1, <1>2 DEF ViewsAreApart, Apart

LEMMA StepKeepsApart ==
  TypeOK /\ MapKnowsTries /\ ViewsAreApart /\ [Next]_vars => ViewsAreApart'
<1> SUFFICES ASSUME TypeOK, MapKnowsTries, ViewsAreApart, [Next]_vars PROVE ViewsAreApart'
  OBVIOUS
<1>1. CASE Tick
  BY <1>1 DEF ViewsAreApart, Apart, Tick
<1>2. CASE Restart
  BY <1>2 DEF ViewsAreApart, Apart, Restart, TypeOK, Tried
<1>3. ASSUME NEW r \in Request, Skip(r) PROVE ViewsAreApart'
  BY <1>3 DEF ViewsAreApart, Apart, Skip, TypeOK, Tried
<1>4. ASSUME NEW r \in Request, Try(r) PROVE ViewsAreApart'
  BY <1>4, TryKeepsApart
<1>5. ASSUME NEW r \in Request, Increment(r) PROVE ViewsAreApart'
  BY <1>5 DEF ViewsAreApart, Apart, Increment, TypeOK, Tried
<1>6. CASE UNCHANGED vars
  BY <1>6 DEF ViewsAreApart, Apart, vars
<1> QED
  BY <1>1, <1>2, <1>3, <1>4, <1>5, <1>6 DEF Next

\* Two tries of a key are an interval apart unless it was forgotten in between.
THEOREM ViewsAlwaysApart == Spec => []ViewsAreApart
<1>1. Init => ViewsAreApart
  BY DEF Init, ViewsAreApart, Tried
<1> QED
  BY <1>1, StepKeepsApart, TypeCorrect, MapIsTruthful, PTL DEF Spec

-----------------------------------------------------------------------------
LEMMA StepKeepsDeserved ==
  TypeOK /\ MapKnowsTries /\ SkipsAreDeserved /\ [Next]_vars => SkipsAreDeserved'
<1> SUFFICES ASSUME TypeOK, MapKnowsTries, SkipsAreDeserved, [Next]_vars,
                    NEW r \in Request, state'[r] = "skipped"
             PROVE  \E q \in Request : /\ state'[q] \in Tried /\ KeyOf[q] = KeyOf[r]
                                       /\ at'[q] <= at'[r] /\ at'[r] < at'[q] + MinInterval
  BY DEF SkipsAreDeserved
<1>1. ASSUME NEW q \in Request, state[q] \in Tried
      PROVE  state'[q] \in Tried /\ at'[q] = at[q]
  BY <1>1 DEF Next, vars, Tick, Restart, Skip, Try, Increment, Tried, TypeOK
<1>2. CASE state[r] = "skipped"
  <2>1. at'[r] = at[r]
    BY <1>2 DEF Next, vars, Tick, Restart, Skip, Try, Increment, TypeOK
  <2>2. PICK q \in Request : /\ state[q] \in Tried /\ KeyOf[q] = KeyOf[r]
                            /\ at[q] <= at[r] /\ at[r] < at[q] + MinInterval
    BY <1>2 DEF SkipsAreDeserved
  <2> QED
    BY <1>1, <2>1, <2>2
<1>3. CASE state[r] # "skipped"
  <2>1. Skip(r)
    BY <1>3 DEF Next, vars, Tick, Restart, Skip, Try, Increment, TypeOK
  <2>2. last[KeyOf[r]] # Absent /\ clock - last[KeyOf[r]] < MinInterval /\ at'[r] = clock
    BY <2>1 DEF Skip, Recent, TypeOK
  <2>3. PICK q \in Request : /\ state[q] \in Tried /\ KeyOf[q] = KeyOf[r]
                            /\ at[q] = last[KeyOf[r]] /\ at[q] <= clock
    BY <2>2 DEF MapKnowsTries, TypeOK
  <2>4. at[q] \in Nat /\ clock \in Nat
    BY DEF TypeOK
  <2>5. at'[r] < at[q] + MinInterval
    BY <2>2, <2>3, <2>4
  <2> QED
    BY <1>1, <2>2, <2>3, <2>5
<1> QED
  BY <1>2, <1>3

\* A request is skipped only for a try of its key less than an interval before.
THEOREM EverySkipIsDeserved == Spec => []SkipsAreDeserved
<1>1. Init => SkipsAreDeserved
  BY DEF Init, SkipsAreDeserved
<1> QED
  BY <1>1, StepKeepsDeserved, TypeCorrect, MapIsTruthful, PTL DEF Spec
=============================================================================
