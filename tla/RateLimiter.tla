----------------------------- MODULE RateLimiter -----------------------------
(***************************************************************************)
(* The RateLimiter of internal/middleware/ratelimit.go.  allow runs under a *)
(* mutex, so that one action is one call; it takes the time itself, while   *)
(* it holds the mutex.  rate.Limiter (golang.org/x/time/rate) is external:  *)
(* a bucket that starts full and is brought up to date when it is asked.    *)
(*                                                                          *)
(* Amounts are in units of what flows in during one tick: Cap is burst and  *)
(* Cost is 1, both divided by the rate.                                     *)
(***************************************************************************)
EXTENDS Naturals

CONSTANTS Key,         \* client addresses
          Cap, Cost,
          CleanupGap,
          MaxTime,     \* bound on the clock
          None         \* no entry in the map

(* DefaultAuthBurst / DefaultAuthRate is 30 seconds, cleanupGap 10 minutes.  *)
ASSUME LimitAssumption ==
    /\ {Cap, Cost, CleanupGap, MaxTime} \subseteq Nat
    /\ Cap <= CleanupGap
    /\ Cost <= Cap
ASSUME NoneAssumption == None \notin [tokens : Nat, last : Nat, lastSeen : Nat]

VARIABLES visitors,   \* the map from client to limiter and lastSeen
          lastClean,
          clock,
          answer,     \* the answer to the last call of each client
          spent       \* history: what each client was allowed to spend so far

vars == <<visitors, lastClean, clock, answer, spent>>

Visitor == [tokens : Nat, last : Nat, lastSeen : Nat]

(* No visitor's bucket is ever in debt (visitor, allow).                     *)
TypeOK ==
    /\ visitors \in [Key -> Visitor \cup {None}]
    /\ lastClean \in Nat
    /\ clock \in Nat
    /\ answer \in [Key -> BOOLEAN]
    /\ spent \in [Key -> Nat]

Init ==
    /\ visitors = [k \in Key |-> None]
    /\ lastClean = 0
    /\ clock = 0
    /\ answer = [k \in Key |-> TRUE]
    /\ spent = [k \in Key |-> 0]
-----------------------------------------------------------------------------
AtMost(a, b) == IF a < b THEN a ELSE b

(* Limiter.advance: the tokens there are by now.                            *)
advance(v, now) == AtMost(Cap, v.tokens + (now - v.last))

(* NewLimiter: its zero time lies so far back that the bucket is full.      *)
NewLimiter(now) == [tokens |-> Cap, last |-> now, lastSeen |-> now]

(* Limiter.AllowN(now, 1): a refusal changes nothing.                       *)
AllowN(v, now) == advance(v, now) >= Cost
Spend(v, now) == [v EXCEPT !.tokens = advance(v, now) - Cost, !.last = now]

(* The entry that the call works on, with its lastSeen brought up to date.  *)
Seen(k) == IF visitors[k] = None THEN NewLimiter(clock)
           ELSE [visitors[k] EXCEPT !.lastSeen = clock]

(* Mutant of Stale: entries are dropped twice as early as the gap between   *)
(* cleanups says.                                                           *)
StaleTooEarly(k) == visitors[k] # None /\ 2 * (clock - visitors[k].lastSeen) > CleanupGap

Stale(k) == visitors[k] # None /\ clock - visitors[k].lastSeen > CleanupGap

(* Mutant of Cleaning: the cleanup starts over without removing anything.   *)
NeverCleaning == FALSE

Cleaning == clock - lastClean > CleanupGap

(* Mutant of allow: lastSeen is updated after the cleanup, which may drop   *)
(* the very entry the call works on.                                        *)
allowSeenLate(k) ==
    LET v == Seen(k)
        ok == AllowN(v, clock) IN
    /\ visitors' = [j \in Key |-> IF Cleaning /\ Stale(j) THEN None
                                  ELSE IF j = k THEN (IF ok THEN Spend(v, clock) ELSE v)
                                  ELSE visitors[j]]
    /\ lastClean' = IF Cleaning THEN clock ELSE lastClean
    /\ answer' = [answer EXCEPT ![k] = ok]
    /\ spent' = [spent EXCEPT ![k] = IF ok THEN @ + Cost ELSE @]
    /\ UNCHANGED clock

allow(k) ==
    LET v == Seen(k)
        ok == AllowN(v, clock) IN
    /\ visitors' = [j \in Key |-> IF j = k THEN (IF ok THEN Spend(v, clock) ELSE v)
                                  ELSE IF Cleaning /\ Stale(j) THEN None
                                  ELSE visitors[j]]
    /\ lastClean' = IF Cleaning THEN clock ELSE lastClean
    /\ answer' = [answer EXCEPT ![k] = ok]
    /\ spent' = [spent EXCEPT ![k] = IF ok THEN @ + Cost ELSE @]
    /\ UNCHANGED clock

Tick ==
    /\ clock < MaxTime
    /\ clock' = clock + 1
    /\ UNCHANGED <<visitors, lastClean, answer, spent>>

Next == (\E k \in Key : allow(k)) \/ Tick

Spec == Init /\ [][Next]_vars
-----------------------------------------------------------------------------
(* Dropping idle entries is invisible: the limiter answers every client as  *)
(* if each had kept its own bucket from the beginning.                      *)
Level(k) == IF visitors[k] = None THEN Cap ELSE advance(visitors[k], clock)

Buckets == INSTANCE TokenBucket WITH level <- [k \in Key |-> Level(k)]
RefinesBuckets == Buckets!Spec

(* However a client spreads its calls, also around the cleanups that forget *)
(* it, it never spends more than the burst and what has flowed in since.    *)
RateIsBounded ==
    /\ TypeOK
    /\ \A k \in Key : spent[k] + Level(k) <= Cap + clock

(* The map holds no entry that was idle for a whole gap at the last cleanup, *)
(* and the last cleanup is no older than a gap when a call returns: memory   *)
(* does not grow with clients that have gone.                                *)
NoForgottenVisitors ==
    /\ \A k \in Key : visitors[k] # None => visitors[k].lastSeen + CleanupGap >= lastClean
    /\ \A k \in Key : visitors[k] # None => visitors[k].lastSeen <= lastClean + CleanupGap
=============================================================================
