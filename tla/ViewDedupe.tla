----------------------------- MODULE ViewDedupe -----------------------------
(***************************************************************************)
(* StreamService.maybeBumpView: which stream requests count as a view.     *)
(*                                                                         *)
(* A key is a video with a viewer (a user, or an address).  The service    *)
(* keeps in memory when it last counted each key, in a map of bounded size *)
(* that forgets old entries, then arbitrary ones; the counter itself is    *)
(* updated after the mutex is released, and may fail.  Browsers ask for a  *)
(* video in many Range requests, and all of them pass through here.        *)
(***************************************************************************)
EXTENDS Integers, FiniteSets

CONSTANTS Key,          \* pairs of a video and a viewer
          Request,      \* stream requests (the bound on them)
          KeyOf,        \* the key of each request
          Absent,       \* the key is not in the map
          MinInterval,  \* viewDedupeMinInterval
          StaleAge,     \* viewDedupeStaleAge
          MapMax,       \* viewDedupeMapMax
          MaxRestarts,  \* bound on restarts of the server
          MaxTime       \* bound on the clock

ASSUME Requests == KeyOf \in [Request -> Key]
ASSUME AbsentIsNoTime == Absent \notin Int
ASSUME Numbers == /\ MinInterval \in Nat /\ StaleAge \in Nat /\ MapMax \in Nat
                  /\ MaxRestarts \in Nat /\ MaxTime \in Nat
ASSUME StaleIsOld == MinInterval <= StaleAge

VARIABLES
  clock,     \* the clock of the process
  last,      \* StreamService.last
  state,     \* where each request is, or how it ended
  at,        \* when each request was in the critical section
  era,       \* history: how often each key was forgotten before it was stale
  eraOf,     \* history: the era of its key a request was counted in
  restarts   \* restarts so far

vars == <<clock, last, state, at, era, eraOf, restarts>>

Known(l) == {k \in Key : l[k] # Absent}
Tried == {"counting", "counted", "failed"}

\* The types, and the bound of the map.
TypeOK ==
  /\ clock \in 0..MaxTime
  /\ last \in [Key -> Nat \cup {Absent}]
  /\ Cardinality(Known(last)) <= MapMax
  /\ state \in [Request -> Tried \cup {"new", "skipped"}]
  /\ at \in [Request -> Nat]
  /\ era \in [Key -> Nat] /\ eraOf \in [Request -> Nat]
  /\ restarts \in 0..MaxRestarts

Init ==
  /\ clock = 0
  /\ last = [k \in Key |-> Absent]
  /\ state = [r \in Request |-> "new"] /\ at = [r \in Request |-> 0]
  /\ era = [k \in Key |-> 0] /\ eraOf = [r \in Request |-> 0]
  /\ restarts = 0

-----------------------------------------------------------------------------
\* A mutant: the end of the interval belongs to it.
RecentAtTheEnd(k) == last[k] # Absent /\ clock - last[k] <= MinInterval

Recent(k) == last[k] # Absent /\ clock - last[k] < MinInterval

\* A mutant: the cutoff is now.
WithoutOlder(l) ==
  [k \in Key |-> IF l[k] # Absent /\ l[k] < clock THEN Absent ELSE l[k]]

WithoutStale(l) ==
  [k \in Key |-> IF l[k] # Absent /\ l[k] < clock - StaleAge THEN Absent ELSE l[k]]

\* The keys that ranging over the map may hit until it fits.
Evictions(l) ==
  IF Cardinality(Known(l)) <= MapMax THEN {{}}
  ELSE {E \in SUBSET Known(l) : Cardinality(Known(l) \ E) = MapMax}

\* pruneViewDedupeLocked, called with the new entry in the map: it may be the
\* one to go.
Prune(l) ==
  LET kept == IF Cardinality(Known(l)) <= MapMax THEN l ELSE WithoutStale(l)
  IN \E E \in Evictions(kept) :
       /\ last' = [k \in Key |-> IF k \in E THEN Absent ELSE kept[k]]
       /\ era' = [k \in Key |-> IF k \in E THEN era[k] + 1 ELSE era[k]]

\* The critical section of maybeBumpView; the clock is read in it.
Skip(r) ==
  /\ state[r] = "new" /\ state' = [state EXCEPT ![r] = "skipped"]
  /\ Recent(KeyOf[r])
  /\ at' = [at EXCEPT ![r] = clock]
  /\ UNCHANGED <<clock, last, era, eraOf, restarts>>

Try(r) ==
  /\ state[r] = "new" /\ state' = [state EXCEPT ![r] = "counting"]
  /\ ~Recent(KeyOf[r])
  /\ Prune([last EXCEPT ![KeyOf[r]] = clock])
  /\ at' = [at EXCEPT ![r] = clock]
  /\ eraOf' = [eraOf EXCEPT ![r] = era[KeyOf[r]]]
  /\ UNCHANGED <<clock, restarts>>

\* IncrementViewCount, one UPDATE; an error or its timeout is ignored.
Increment(r) ==
  /\ state[r] = "counting"
  /\ state' \in {[state EXCEPT ![r] = "counted"], [state EXCEPT ![r] = "failed"]}
  /\ UNCHANGED <<clock, last, at, era, eraOf, restarts>>

\* A new process starts with an empty map.
Restart ==
  /\ restarts < MaxRestarts /\ restarts' = restarts + 1
  /\ last' = [k \in Key |-> Absent]
  /\ era' = [k \in Key |-> era[k] + 1]
  /\ state' = [r \in Request |-> IF state[r] = "counting" THEN "failed" ELSE state[r]]
  /\ UNCHANGED <<clock, at, eraOf>>

Tick ==
  /\ clock < MaxTime /\ clock' = clock + 1
  /\ UNCHANGED <<last, state, at, era, eraOf, restarts>>

Next == Tick \/ Restart \/ \E r \in Request : Skip(r) \/ Try(r) \/ Increment(r)

Spec == Init /\ [][Next]_vars

-----------------------------------------------------------------------------
(* Properties. *)

Apart(s, t) == s + MinInterval <= t \/ t + MinInterval <= s

\* Two views of a key are at least MinInterval apart, unless the key was
\* forgotten in between because the map was full or the server restarted:
\* dropping the stale entries never lets one in early.
ViewsAreApart ==
  \A r, q \in Request :
    r # q /\ state[r] \in Tried /\ state[q] \in Tried
    /\ KeyOf[r] = KeyOf[q] /\ eraOf[r] = eraOf[q] => Apart(at[r], at[q])

\* A request is skipped only if less than MinInterval before it one of the same
\* key was not.
SkipsAreDeserved ==
  \A r \in Request : state[r] = "skipped" =>
    \E q \in Request : /\ state[q] \in Tried /\ KeyOf[q] = KeyOf[r]
                       /\ at[q] <= at[r] /\ at[r] < at[q] + MinInterval

\* What the map knows of the requests it let through; with TypeOK and the two
\* properties it is inductive.
MapKnowsTries ==
  /\ \A k \in Key : last[k] # Absent =>
       \E q \in Request : /\ state[q] \in Tried /\ KeyOf[q] = k
                          /\ at[q] = last[k] /\ at[q] <= clock
  /\ \A r \in Request : state[r] \in Tried =>
       /\ eraOf[r] <= era[KeyOf[r]]
       /\ eraOf[r] = era[KeyOf[r]] =>
            \/ last[KeyOf[r]] # Absent /\ at[r] <= last[KeyOf[r]]
            \/ at[r] + StaleAge < clock
=============================================================================
