-------------------------- MODULE RateLimiterProofs --------------------------
(***************************************************************************)
(* Proofs about RateLimiter, for every set of clients and every limit.      *)
(***************************************************************************)
EXTENDS RateLimiter, TLAPS

(* The times and amounts of an entry are in order.                          *)
EntriesInOrder == \A k \in Key : visitors[k] # None =>
    /\ visitors[k].tokens <= Cap
    /\ visitors[k].last <= visitors[k].lastSeen
    /\ visitors[k].lastSeen <= clock

IInv == /\ TypeOK
        /\ lastClean <= clock
        /\ EntriesInOrder
        /\ NoForgottenVisitors
        /\ RateIsBounded

(* What one call leaves in the entry of its own client.                     *)
Called(k) == IF AllowN(Seen(k), clock) THEN Spend(Seen(k), clock) ELSE Seen(k)

LEMMA SeenIsInOrder ==
    ASSUME IInv, NEW k \in Key
    PROVE  /\ Seen(k) \in Visitor
           /\ Seen(k).tokens <= Cap
           /\ Seen(k).last <= clock
           /\ Seen(k).lastSeen = clock
           /\ advance(Seen(k), clock) = Level(k)
           /\ advance(Seen(k), clock) \in Nat
           /\ advance(Seen(k), clock) <= Cap
<1>1. CASE visitors[k] = None
  <2>1. Seen(k) = [tokens |-> Cap, last |-> clock, lastSeen |-> clock]
    BY <1>1 DEF Seen, NewLimiter
  <2>2. Seen(k) \in Visitor
    BY <2>1, LimitAssumption DEF IInv, TypeOK, Visitor
  <2>3. QED
    BY <1>1, <2>1, <2>2, LimitAssumption DEF IInv, TypeOK, advance, AtMost, Level
<1>2. CASE visitors[k] # None
  <2> DEFINE v == visitors[k]
  <2>1. v \in Visitor /\ v.tokens <= Cap /\ v.last <= v.lastSeen /\ v.lastSeen <= clock
    BY <1>2 DEF IInv, TypeOK, EntriesInOrder
  <2>2. Seen(k) = [v EXCEPT !.lastSeen = clock]
    BY <1>2 DEF Seen
  <2>3. Seen(k) = [tokens |-> v.tokens, last |-> v.last, lastSeen |-> clock]
    BY <2>1, <2>2 DEF Visitor
  <2>4. v.tokens \in Nat /\ v.last \in Nat /\ v.lastSeen \in Nat /\ clock \in Nat
    BY <2>1 DEF Visitor, IInv, TypeOK
  <2>5. Seen(k) \in Visitor
    BY <2>3, <2>4 DEF Visitor
  <2>6. v.last <= clock
    BY <2>1, <2>4
  <2>7. advance(Seen(k), clock) = Level(k)
    BY <1>2, <2>3 DEF advance, Level
  <2>8. advance(Seen(k), clock) \in Nat /\ advance(Seen(k), clock) <= Cap
    BY <2>1, <2>3, <2>4, <2>6, LimitAssumption DEF advance, AtMost
  <2>9. QED
    BY <2>1, <2>3, <2>5, <2>6, <2>7, <2>8
<1>3. QED
  BY <1>1, <1>2

(* A call leaves an entry of its client that is in order; whether it was    *)
(* allowed depends on the level, which it lowers by Cost if so.             *)
LEMMA CalledIsInOrder ==
    ASSUME IInv, NEW k \in Key
    PROVE  /\ Called(k) \in Visitor
           /\ Called(k).tokens <= Cap
           /\ Called(k).last <= clock
           /\ Called(k).lastSeen = clock
           /\ AllowN(Seen(k), clock) <=> Level(k) >= Cost
           /\ advance(Called(k), clock) =
                 IF Level(k) >= Cost THEN Level(k) - Cost ELSE Level(k)
           /\ Level(k) \in Nat /\ Level(k) <= Cap
<1> DEFINE s == Seen(k)
<1>1. /\ s \in Visitor /\ s.tokens <= Cap /\ s.last <= clock /\ s.lastSeen = clock
      /\ advance(s, clock) = Level(k) /\ Level(k) \in Nat /\ Level(k) <= Cap
  BY SeenIsInOrder
<1>2. s.tokens \in Nat /\ s.last \in Nat /\ clock \in Nat
  BY <1>1 DEF Visitor, IInv, TypeOK
<1>3. AllowN(s, clock) <=> Level(k) >= Cost
  BY <1>1 DEF AllowN
<1>4. CASE Level(k) >= Cost
  <2>1. Called(k) = [s EXCEPT !.tokens = Level(k) - Cost, !.last = clock]
    BY <1>1, <1>3, <1>4 DEF Called, Spend
  <2>2. Called(k) = [tokens |-> Level(k) - Cost, last |-> clock, lastSeen |-> clock]
    BY <1>1, <2>1 DEF Visitor
  <2>3. Level(k) - Cost \in Nat /\ Level(k) - Cost <= Cap
    BY <1>1, <1>4, LimitAssumption
  <2>4. advance(Called(k), clock) = Level(k) - Cost
    BY <1>2, <2>2, <2>3, LimitAssumption DEF advance, AtMost
  <2>5. Called(k) \in Visitor
    BY <1>2, <2>2, <2>3 DEF Visitor
  <2>6. QED
    BY <1>1, <1>2, <1>3, <1>4, <2>2, <2>3, <2>4, <2>5
<1>5. CASE ~(Level(k) >= Cost)
  <2>1. Called(k) = s
    BY <1>3, <1>5 DEF Called
  <2>2. QED
    BY <1>1, <1>3, <1>5, <2>1
<1>6. QED
  BY <1>4, <1>5

-----------------------------------------------------------------------------
(* An entry that a cleanup may drop has been idle for so long that its       *)
(* bucket is full.                                                           *)
LEMMA StaleIsFull ==
    ASSUME IInv, NEW j \in Key, Stale(j)
    PROVE  Level(j) = Cap
<1> DEFINE v == visitors[j]
<1>1. v \in Visitor /\ v.tokens <= Cap /\ v.last <= v.lastSeen /\ v.lastSeen <= clock
  BY DEF Stale, IInv, TypeOK, EntriesInOrder
<1>2. v.tokens \in Nat /\ v.last \in Nat /\ v.lastSeen \in Nat /\ clock \in Nat
  BY <1>1 DEF Visitor, IInv, TypeOK
<1>3. clock - v.lastSeen > CleanupGap
  BY DEF Stale
<1>4. v.tokens + (clock - v.last) >= Cap
  BY <1>1, <1>2, <1>3, LimitAssumption
<1>5. QED
  BY <1>2, <1>4, LimitAssumption DEF Level, Stale, advance, AtMost

(* The entries after a call: that of its client, and the others, unless they *)
(* are dropped.                                                              *)
LEMMA EntriesAfterCall ==
    ASSUME NEW k \in Key, allow(k), NEW j \in Key
    PROVE  visitors'[j] = IF j = k THEN Called(k)
                          ELSE IF Cleaning /\ Stale(j) THEN None ELSE visitors[j]
BY DEF allow, Called

(* How a call and a tick move the levels.                                    *)
LEMMA LevelAfterCall ==
    ASSUME IInv, NEW k \in Key, allow(k), NEW j \in Key
    PROVE  Level(j)' = IF j = k /\ Level(k) >= Cost THEN Level(k) - Cost ELSE Level(j)
<1>1. clock' = clock
  BY DEF allow
<1>2. CASE j = k
  <2>1. visitors'[j] = Called(k) /\ Called(k) \in Visitor
    BY <1>2, EntriesAfterCall, CalledIsInOrder
  <2>2. Level(j)' = advance(Called(k), clock)
    BY <1>1, <2>1, NoneAssumption DEF Level, advance, AtMost, Visitor
  <2>3. QED
    BY <1>2, <2>2, CalledIsInOrder
<1>3. CASE j # k /\ Cleaning /\ Stale(j)
  <2>1. visitors'[j] = None
    BY <1>3, EntriesAfterCall
  <2>2. QED
    BY <1>3, <2>1, StaleIsFull DEF Level
<1>4. CASE j # k /\ ~(Cleaning /\ Stale(j))
  <2>1. visitors'[j] = visitors[j]
    BY <1>4, EntriesAfterCall
  <2>2. QED
    BY <1>1, <1>4, <2>1 DEF Level, advance, AtMost
<1>5. QED
  BY <1>2, <1>3, <1>4

LEMMA LevelAfterTick ==
    ASSUME IInv, Tick, NEW j \in Key
    PROVE  Level(j)' = IF Level(j) < Cap THEN Level(j) + 1 ELSE Cap
<1>1. clock' = clock + 1 /\ visitors' = visitors /\ clock \in Nat
  BY DEF Tick, IInv, TypeOK
<1>2. CASE visitors[j] = None
  BY <1>1, <1>2, LimitAssumption DEF Level
<1>3. CASE visitors[j] # None
  <2> DEFINE v == visitors[j]
  <2>1. v \in Visitor /\ v.last <= v.lastSeen /\ v.lastSeen <= clock
    BY <1>3 DEF IInv, TypeOK, EntriesInOrder
  <2>2. v.tokens \in Nat /\ v.last \in Nat /\ v.lastSeen \in Nat
    BY <2>1 DEF Visitor
  <2>3. Level(j)' = AtMost(Cap, v.tokens + ((clock + 1) - v.last))
    BY <1>1, <1>3 DEF Level, advance, AtMost
  <2>4. Level(j) = AtMost(Cap, v.tokens + (clock - v.last))
    BY <1>3 DEF Level, advance
  <2>5. QED
    BY <1>1, <2>1, <2>2, <2>3, <2>4, LimitAssumption DEF AtMost
<1>4. QED
  BY <1>2, <1>3

LEMMA LevelIsBounded ==
    ASSUME IInv, NEW k \in Key
    PROVE  Level(k) \in Nat /\ Level(k) <= Cap
BY CalledIsInOrder
-----------------------------------------------------------------------------
LEMMA InitIInv == Init => IInv
BY LimitAssumption DEF Init, IInv, TypeOK, EntriesInOrder, NoForgottenVisitors,
                       RateIsBounded, Level

LEMMA CallPreservesIInv ==
    ASSUME IInv, NEW k \in Key, allow(k)
    PROVE  IInv'
<1> USE DEF IInv
<1>1. /\ clock' = clock /\ clock \in Nat /\ lastClean \in Nat /\ lastClean <= clock
      /\ lastClean' = IF clock - lastClean > CleanupGap THEN clock ELSE lastClean
      /\ CleanupGap \in Nat
  BY LimitAssumption DEF allow, Cleaning, TypeOK
<1>2. lastClean' \in Nat /\ lastClean' <= clock' /\ lastClean <= lastClean'
      /\ clock <= lastClean' + CleanupGap
  BY <1>1
<1>3. TypeOK'
  <2>1. \A j \in Key : visitors'[j] \in Visitor \cup {None}
    BY EntriesAfterCall, CalledIsInOrder DEF TypeOK
  <2>2. visitors' \in [Key -> Visitor \cup {None}]
    BY <2>1 DEF allow
  <2>3. answer' \in [Key -> BOOLEAN] /\ spent' \in [Key -> Nat]
    BY LimitAssumption DEF allow, TypeOK, AllowN
  <2>4. QED
    BY <1>1, <1>2, <2>2, <2>3 DEF TypeOK
<1>4. ASSUME NEW j \in Key, visitors'[j] # None
      PROVE  /\ visitors'[j].tokens <= Cap
             /\ visitors'[j].last <= visitors'[j].lastSeen
             /\ visitors'[j].lastSeen <= clock'
             /\ visitors'[j].lastSeen + CleanupGap >= lastClean'
             /\ visitors'[j].lastSeen <= lastClean' + CleanupGap
  <2>1. CASE j = k
    <3>1. visitors'[j] = Called(k)
      BY <2>1, EntriesAfterCall
    <3>2. QED
      BY <1>1, <1>2, <3>1, CalledIsInOrder
  <2>2. CASE j # k
    <3>1. visitors'[j] = visitors[j] /\ ~(Cleaning /\ Stale(j)) /\ visitors[j] # None
      BY <1>4, <2>2, EntriesAfterCall
    <3>2. /\ visitors[j] \in Visitor /\ visitors[j].tokens <= Cap
          /\ visitors[j].last <= visitors[j].lastSeen /\ visitors[j].lastSeen <= clock
          /\ visitors[j].lastSeen + CleanupGap >= lastClean
      BY <3>1 DEF TypeOK, EntriesInOrder, NoForgottenVisitors
    <3>3. visitors[j].lastSeen \in Nat
      BY <3>2 DEF Visitor
    <3>4. Cleaning => clock - visitors[j].lastSeen <= CleanupGap
      BY <1>1, <3>1, <3>3 DEF Stale
    <3>5. lastClean' # lastClean => Cleaning /\ lastClean' = clock
      BY DEF allow
    <3>6. QED
      BY <1>1, <1>2, <3>1, <3>2, <3>3, <3>4, <3>5
  <2>3. QED
    BY <2>1, <2>2
<1>5. RateIsBounded'
  <2> SUFFICES ASSUME NEW j \in Key
               PROVE  spent'[j] + Level(j)' <= Cap + clock'
    BY <1>3 DEF RateIsBounded
  <2>1. /\ spent[j] + Level(j) <= Cap + clock /\ spent[j] \in Nat
        /\ Level(j) \in Nat /\ Cap \in Nat /\ Cost \in Nat
    BY LevelIsBounded, LimitAssumption DEF RateIsBounded, TypeOK
  <2>2. spent'[j] = IF j = k /\ Level(k) >= Cost THEN spent[j] + Cost ELSE spent[j]
    BY CalledIsInOrder DEF allow, TypeOK
  <2>3. QED
    BY <1>1, <2>1, <2>2, LevelAfterCall
<1>6. QED
  BY <1>2, <1>3, <1>4, <1>5 DEF EntriesInOrder, NoForgottenVisitors

LEMMA TickPreservesIInv ==
    ASSUME IInv, Tick
    PROVE  IInv'
<1> USE DEF IInv
<1>1. /\ clock' = clock + 1 /\ clock \in Nat /\ lastClean \in Nat
      /\ visitors' = visitors /\ lastClean' = lastClean
      /\ answer' = answer /\ spent' = spent
  BY DEF Tick, TypeOK
<1>2. TypeOK' /\ lastClean' <= clock'
  BY <1>1 DEF TypeOK
<1>3. EntriesInOrder'
  <2> SUFFICES ASSUME NEW j \in Key, visitors[j] # None
               PROVE  /\ visitors[j].tokens <= Cap
                      /\ visitors[j].last <= visitors[j].lastSeen
                      /\ visitors[j].lastSeen <= clock + 1
    BY <1>1 DEF EntriesInOrder
  <2>1. visitors[j] \in Visitor /\ visitors[j].lastSeen <= clock
    BY DEF TypeOK, EntriesInOrder
  <2>2. visitors[j].lastSeen \in Nat
    BY <2>1 DEF Visitor
  <2>3. QED
    BY <1>1, <2>1, <2>2 DEF EntriesInOrder
<1>4. NoForgottenVisitors'
  BY <1>1 DEF NoForgottenVisitors
<1>5. RateIsBounded'
  <2> SUFFICES ASSUME NEW j \in Key
               PROVE  spent[j] + Level(j)' <= Cap + (clock + 1)
    BY <1>1, <1>2 DEF RateIsBounded
  <2>1. /\ spent[j] + Level(j) <= Cap + clock /\ spent[j] \in Nat
        /\ Level(j) \in Nat /\ Level(j) <= Cap /\ Cap \in Nat
    BY LevelIsBounded, LimitAssumption DEF RateIsBounded, TypeOK
  <2>2. QED
    BY <1>1, <2>1, LevelAfterTick
<1>6. QED
  BY <1>2, <1>3, <1>4, <1>5

LEMMA Invariance == Spec => []IInv
<1>1. IInv /\ UNCHANGED vars => IInv'
  BY DEF IInv, vars, TypeOK, EntriesInOrder, NoForgottenVisitors, RateIsBounded,
         Level, advance, AtMost
<1>2. IInv /\ [Next]_vars => IInv'
  BY <1>1, CallPreservesIInv, TickPreservesIInv DEF Next
<1>3. QED
  BY <1>2, InitIInv, PTL DEF Spec

(* No client spends more than the burst and what has flowed in since.        *)
THEOREM NobodyExceedsTheRate == Spec => []RateIsBounded
<1>1. IInv => RateIsBounded
  BY DEF IInv
<1>2. QED
  BY <1>1, Invariance, PTL

(* The map forgets the clients that have gone.                               *)
THEOREM GoneClientsAreForgotten == Spec => []NoForgottenVisitors
<1>1. IInv => NoForgottenVisitors
  BY DEF IInv
<1>2. QED
  BY <1>1, Invariance, PTL
-----------------------------------------------------------------------------
(* The limiter, with its lazy refill and its cleanup, is a bucket per client *)
(* that lasts for ever.                                                      *)
THEOREM Refinement == Spec => RefinesBuckets
<1> DEFINE lvl == [k \in Key |-> Level(k)]
<1>1. Init => Buckets!Init
  BY DEF Init, Buckets!Init, Level
<1>2. ASSUME IInv, Next
      PROVE  Buckets!Next
  <2>1. ASSUME NEW k \in Key, allow(k)
        PROVE  Buckets!Allow(k) \/ Buckets!Refuse(k)
    <3>1. answer' = [answer EXCEPT ![k] = AllowN(Seen(k), clock)]
      BY <2>1 DEF allow
    <3>0. AllowN(Seen(k), clock) \in BOOLEAN
      BY DEF AllowN
    <3>2. CASE Level(k) >= Cost
      <4>1. lvl' = [lvl EXCEPT ![k] = lvl[k] - Cost]
        BY <1>2, <2>1, <3>2, LevelAfterCall
      <4>2. AllowN(Seen(k), clock) = TRUE
        BY <1>2, <3>0, <3>2, CalledIsInOrder, Zenon
      <4>4. answer' = [answer EXCEPT ![k] = TRUE]
        BY <3>1, <4>2, Zenon
      <4>3. QED
        BY <3>2, <4>1, <4>4 DEF Buckets!Allow
    <3>3. CASE ~(Level(k) >= Cost)
      <4>1. lvl' = lvl
        BY <1>2, <2>1, <3>3, LevelAfterCall
      <4>2. AllowN(Seen(k), clock) = FALSE
        BY <1>2, <3>0, <3>3, CalledIsInOrder, Zenon
      <4>5. answer' = [answer EXCEPT ![k] = FALSE]
        BY <3>1, <4>2, Zenon
      <4>3. lvl[k] < Cost
        BY <1>2, <3>3, LevelIsBounded, LimitAssumption
      <4>4. QED
        BY <4>1, <4>3, <4>5 DEF Buckets!Refuse
    <3>4. QED
      BY <3>2, <3>3
  <2>2. CASE Tick
    <3>1. lvl' = [k \in Key |-> IF lvl[k] < Cap THEN lvl[k] + 1 ELSE Cap]
      BY <1>2, <2>2, LevelAfterTick
    <3>2. answer' = answer
      BY <2>2 DEF Tick
    <3>3. QED
      BY <3>1, <3>2 DEF Buckets!Flow, Buckets!Next
  <2>3. QED
    BY <1>2, <2>1, <2>2 DEF Next, Buckets!Next
<1>3. UNCHANGED vars => UNCHANGED <<lvl, answer>>
  BY DEF vars, Level, advance, AtMost
<1>4. QED
  BY <1>1, <1>2, <1>3, Invariance, PTL DEF Spec, RefinesBuckets, Buckets!Spec
=============================================================================
