---------------------------- MODULE RateLimiter ----------------------------
(***************************************************************************)
(* ratelimit.WindowLimiter: how many calls of Allow(key) return true.      *)
(*                                                                         *)
(* Allow reads the clock before it takes the mutex, so calls may enter the *)
(* critical section in another order than that of their timestamps.  Delay *)
(* is the longest time between the two; the code has no bound of its own,  *)
(* so the theorem says what holds as a function of it.  A call stands for  *)
(* the timestamp it records: two calls may record equal ones.              *)
(***************************************************************************)
EXTENDS Integers, FiniteSets

CONSTANTS Client,    \* the keys: client addresses or user ids
          Call,      \* the calls of Allow (the bound on requests)
          ClientOf,  \* the key each call is made with
          Window,    \* WindowLimiter.window
          Limit,     \* WindowLimiter.max
          Delay,     \* the longest a call waits for the mutex
          LastTick   \* bound on the clock

ASSUME FiniteCalls == IsFiniteSet(Call)
ASSUME ClientOfCalls == ClientOf \in [Call -> Client]
ASSUME LimiterNumbers ==
  Window \in Nat /\ Limit \in Nat /\ Delay \in Nat /\ LastTick \in Nat

VARIABLES limiterClock,  \* the monotonic clock of the process
          pc,            \* where each call is, or how it was answered
          now,           \* the timestamp a call read
          hits           \* WindowLimiter.hits: the calls whose timestamps it holds

limiterVars == <<limiterClock, pc, now, hits>>

LimiterTypeOK ==
  /\ limiterClock \in 0..LastTick
  /\ pc \in [Call -> {"new", "waiting", "allowed", "refused"}]
  /\ now \in [Call -> Nat]
  /\ hits \in [Client -> SUBSET Call]

LimiterInit ==
  /\ limiterClock = 0
  /\ pc = [c \in Call |-> "new"]
  /\ now = [c \in Call |-> 0]
  /\ hits = [k \in Client |-> {}]

\* now := time.Now(), before the mutex is free.
ReadClock(c) ==
  /\ pc[c] = "new"
  /\ pc' = [pc EXCEPT ![c] = "waiting"]
  /\ now' = [now EXCEPT ![c] = limiterClock]
  /\ UNCHANGED <<limiterClock, hits>>

\* The hits of c's key that lie after its cutoff.
Kept(c) == {h \in hits[ClientOf[c]] : now[h] > now[c] - Window}

\* A mutant: one hit too many.
AllowOneMore(c) ==
  /\ pc[c] = "waiting"
  /\ Cardinality(Kept(c)) <= Limit
  /\ hits' = [hits EXCEPT ![ClientOf[c]] = Kept(c) \cup {c}]
  /\ pc' = [pc EXCEPT ![c] = "allowed"]
  /\ UNCHANGED <<limiterClock, now>>

\* The critical section: prune, then record the hit or refuse.
Allow(c) ==
  /\ pc[c] = "waiting"
  /\ Cardinality(Kept(c)) < Limit
  /\ hits' = [hits EXCEPT ![ClientOf[c]] = Kept(c) \cup {c}]
  /\ pc' = [pc EXCEPT ![c] = "allowed"]
  /\ UNCHANGED <<limiterClock, now>>

\* A mutant: counting refused calls too.
RefuseAndCount(c) ==
  /\ pc[c] = "waiting"
  /\ Cardinality(Kept(c)) >= Limit
  /\ hits' = [hits EXCEPT ![ClientOf[c]] = Kept(c) \cup {c}]
  /\ pc' = [pc EXCEPT ![c] = "refused"]
  /\ UNCHANGED <<limiterClock, now>>

Refuse(c) ==
  /\ pc[c] = "waiting"
  /\ Cardinality(Kept(c)) >= Limit
  /\ hits' = [hits EXCEPT ![ClientOf[c]] = Kept(c)]
  /\ pc' = [pc EXCEPT ![c] = "refused"]
  /\ UNCHANGED <<limiterClock, now>>

\* Time passes, but no call waits for the mutex longer than Delay.
LimiterTick ==
  /\ limiterClock < LastTick
  /\ \A c \in Call : pc[c] = "waiting" => limiterClock - now[c] < Delay
  /\ limiterClock' = limiterClock + 1
  /\ UNCHANGED <<pc, now, hits>>

LimiterNext == LimiterTick \/ \E c \in Call : ReadClock(c) \/ Allow(c) \/ Refuse(c)

LimiterSpec == LimiterInit /\ [][LimiterNext]_limiterVars

-----------------------------------------------------------------------------
AllowedIn(k, from, to) ==
  {c \in Call : pc[c] = "allowed" /\ ClientOf[c] = k /\ from <= now[c] /\ now[c] < to}

\* No Window, less the longest wait for the mutex, sees more than Limit
\* allowed calls of a key, in whatever order the calls got the mutex.
LimitHolds ==
  \A k \in Client, t \in 0..LastTick :
    Cardinality(AllowedIn(k, t, t + Window - Delay)) <= Limit

\* A call is refused only when Limit calls of its key were allowed at most
\* Window before it: calls that were refused, or forgotten, never count.
RefusalsAreDeserved ==
  \A c \in Call : pc[c] = "refused" =>
    Cardinality({d \in Call : /\ pc[d] = "allowed" /\ ClientOf[d] = ClientOf[c]
                              /\ now[d] > now[c] - Window}) >= Limit

\* What is no longer held of an allowed call lies a Window back for any clock
\* reading to come.  With TypeOK it makes LimitHolds inductive.
Forgotten ==
  /\ \A k \in Client : \A h \in hits[k] : pc[h] = "allowed" /\ ClientOf[h] = k
  /\ \A c \in Call : /\ now[c] <= limiterClock
                     /\ pc[c] = "waiting" => limiterClock - now[c] <= Delay
                     /\ pc[c] = "allowed" /\ c \notin hits[ClientOf[c]]
                          => now[c] <= limiterClock - Window
=============================================================================
