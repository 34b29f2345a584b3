--------------------------- MODULE WorldgenProofs ----------------------------
(***************************************************************************)
(* What holds of the generator for every value of its constants: the        *)
(* systems of a cluster are apart, home templates are what they are said    *)
(* to be, planets are colder the farther out they are, what is rolled for   *)
(* one of them keeps its bounds, and the slices of a cluster are a tree.    *)
(***************************************************************************)
EXTENDS Worldgen, FiniteSetTheorems, SequenceTheorems, TLAPS

(* The distance between two hexes is a natural number and the same from     *)
(* either side (Axial.Distance).                                            *)
LEMMA DistanceSymmetric ==
    ASSUME NEW h \in Disk, NEW j \in Disk
    PROVE  /\ Distance(h, j) \in Nat
           /\ Distance(h, j) = Distance(j, h)
<1>1. Radius \in Nat
  BY RadiusAssumption
<1>2. h[1] \in Int /\ h[2] \in Int /\ j[1] \in Int /\ j[2] \in Int
  BY <1>1 DEF Disk
<1>3. \A a, b \in Int : Abs(a - b) \in Nat /\ Abs(a - b) = Abs(b - a)
  BY DEF Abs
<1>4. \A a, b \in Nat : Largest(a, b) \in Nat
  BY DEF Largest
<1> DEFINE x == h[1]  y == h[2]  u == j[1]  v == j[2]
<1>5. /\ Abs(x - u) \in Nat /\ Abs(x - u) = Abs(u - x)
      /\ Abs(y - v) \in Nat /\ Abs(y - v) = Abs(v - y)
      /\ Abs((x + y) - (u + v)) \in Nat
      /\ Abs((x + y) - (u + v)) = Abs((u + v) - (x + y))
  <2>1. x + y \in Int /\ u + v \in Int
    BY <1>2
  <2> QED
    BY <1>2, <1>3, <2>1
<1> QED
  BY <1>4, <1>5 DEF Distance

(* What a step keeps: every star belongs to a hex that has been consumed,   *)
(* and the systems are apart.                                               *)
Apart == TypeOK /\ Placed \cap todo = {} /\ Separated

LEMMA PlacedIsDisk == ASSUME TypeOK PROVE Placed \subseteq Disk
BY DEF Placed

LEMMA ApartInitially == Init => Apart
<1> SUFFICES ASSUME Init PROVE Apart
  OBVIOUS
<1>1. TypeOK
  BY DEF Init, TypeOK
<1>2. Placed = {}
  BY DEF Init, Placed
<1> QED
  BY <1>1, <1>2 DEF Apart, Separated

LEMMA ApartStep == Apart /\ [Next]_vars => Apart'
<1> SUFFICES ASSUME Apart, [Next]_vars PROVE Apart'
  OBVIOUS
<1> USE DEF Apart
<1>1. CASE UNCHANGED vars
  BY <1>1 DEF vars, TypeOK, Placed, Separated
<1>2. CASE ReturnAtOnce \/ Exhausted
  BY <1>2 DEF ReturnAtOnce, Exhausted, TypeOK, Placed, Separated
<1>3. ASSUME NEW h \in todo, MergeCandidate(h) PROVE Apart'
  <2>1. PICK j \in Nearest(h) :
            stars' = [stars EXCEPT ![j] = IF args.merge /\ @ < 5 THEN @ + 1 ELSE @]
    BY <1>3 DEF MergeCandidate
  <2>2. j \in Placed /\ j \in Disk /\ stars[j] \in 1..5
    BY <2>1, PlacedIsDisk DEF Nearest, Within, Placed, TypeOK
  <2>3. todo' = todo \ {h} /\ args' = args /\ result' = result
    BY <1>3 DEF MergeCandidate
  <2>4. stars' \in [Disk -> 0..5] /\ \A i \in Disk : stars'[i] = 0 <=> stars[i] = 0
    BY <2>1, <2>2 DEF TypeOK
  <2>5. Placed' = Placed
    BY <2>4 DEF Placed
  <2>6. TypeOK'
    BY <2>3, <2>4 DEF TypeOK
  <2>7. Separated'
    BY <2>3, <2>5 DEF Separated
  <2> QED
    BY <2>3, <2>5, <2>6, <2>7
<1>4. ASSUME NEW h \in todo, PlaceCandidate(h) PROVE Apart'
  <2>1. /\ Within(h) = {}
        /\ stars' = [stars EXCEPT ![h] = 1]
        /\ todo' = todo \ {h}
        /\ result' = IF Cardinality(Placed) + 1 = args.n THEN "placed" ELSE "none"
        /\ args' = args
    BY <1>4 DEF PlaceCandidate
  <2>2. h \in Disk
    BY DEF TypeOK
  <2>3. stars' \in [Disk -> 0..5]
    BY <2>1, <2>2 DEF TypeOK
  <2>4. TypeOK'
    BY <2>1, <2>3 DEF TypeOK
  <2>5. Placed' = Placed \cup {h}
    BY <2>1, <2>2 DEF Placed, TypeOK
  <2>6. ASSUME NEW j \in Placed
        PROVE  /\ Distance(h, j) > args.minimumDistance
               /\ Distance(j, h) > args.minimumDistance
    <3>1. ~(Distance(h, j) <= args.minimumDistance)
      BY <2>1 DEF Within
    <3>2. j \in Disk /\ args.minimumDistance \in Nat
      BY PlacedIsDisk, ArgumentAssumption DEF TypeOK, Arguments
    <3>3. Distance(h, j) \in Nat /\ Distance(h, j) = Distance(j, h)
      BY <2>2, <3>2, DistanceSymmetric
    <3> QED
      BY <3>1, <3>2, <3>3
  <2>7. Separated'
    BY <2>1, <2>5, <2>6 DEF Separated
  <2> QED
    BY <2>1, <2>4, <2>5, <2>7
<1> QED
  BY <1>1, <1>2, <1>3, <1>4 DEF Next

-----------------------------------------------------------------------------
(* There are finitely many hexes, systems and stars.                        *)
LEMMA Finite ==
    ASSUME TypeOK
    PROVE  /\ IsFiniteSet(Disk)
           /\ IsFiniteSet(Placed) /\ Cardinality(Placed) \in Nat
<1>1. Radius \in Nat
  BY RadiusAssumption
<1>2. IsFiniteSet(-Radius..Radius)
  BY <1>1, FS_Interval
<1>3. IsFiniteSet((-Radius..Radius) \X (-Radius..Radius))
  BY <1>2, FS_Product
<1>4. IsFiniteSet(Disk)
  BY <1>3, FS_Subset DEF Disk
<1>5. IsFiniteSet(Placed)
  BY <1>4, FS_Subset, PlacedIsDisk
<1> QED
  BY <1>4, <1>5, FS_CardinalityType

(* A hex is at no distance from itself.                                     *)
LEMMA DistanceZero == ASSUME NEW h \in Disk PROVE Distance(h, h) = 0
<1>1. h[1] \in Int /\ h[2] \in Int
  BY RadiusAssumption DEF Disk
<1>2. h[1] - h[1] = 0 /\ h[2] - h[2] = 0 /\ (h[1] + h[2]) - (h[1] + h[2]) = 0
  BY <1>1
<1> QED
  BY <1>2 DEF Distance, Abs, Largest

(* A consumed hex is within the distance of a system, its own or another;   *)
(* and the count of the systems decides how the call returns.               *)
Near(h) == \E j \in Placed : Distance(h, j) <= args.minimumDistance
Counted ==
    /\ result = "placed" => Cardinality(Placed) = args.n
    /\ result = "none" => Cardinality(Placed) < args.n \/ args.n = 0
Covered ==
    /\ Apart
    /\ \A h \in Consumed : Near(h)
    /\ result = "short" => todo = {}
    /\ Counted

LEMMA CoveredInitially == Init => Covered
<1> SUFFICES ASSUME Init PROVE Covered
  OBVIOUS
<1>1. Apart
  BY ApartInitially
<1>2. Placed = {} /\ Consumed = {}
  BY DEF Init, Placed, Consumed
<1>3. Cardinality(Placed) = 0 /\ args.n \in Nat
  BY <1>2, FS_EmptySet, ArgumentAssumption DEF Init, Arguments
<1>4. Counted
  BY <1>3 DEF Counted, Init
<1> QED
  BY <1>1, <1>2, <1>4 DEF Covered, Init

LEMMA CoveredStep == Covered /\ [Next]_vars => Covered'
<1> SUFFICES ASSUME Covered, [Next]_vars PROVE Covered'
  OBVIOUS
<1>1. Apart /\ Apart' /\ TypeOK /\ TypeOK'
  BY ApartStep DEF Covered, Apart
<1>2. /\ args.n \in Nat /\ args.minimumDistance \in Nat
      /\ Cardinality(Placed) \in Nat /\ IsFiniteSet(Placed)
  BY <1>1, ArgumentAssumption, Finite DEF TypeOK, Arguments
<1>3. CASE UNCHANGED vars
  BY <1>1, <1>3 DEF vars, Covered, Counted, Near, Consumed, Placed
<1>4. ASSUME UNCHANGED <<args, todo, stars>>, result' = "short" => todo = {}, Counted'
      PROVE  Covered'
  BY <1>1, <1>4 DEF Covered, Near, Consumed, Placed
<1>5. CASE ReturnAtOnce
  <2>1. Placed = {}
    BY <1>1, <1>5 DEF ReturnAtOnce, Apart, Placed
  <2>2. Cardinality(Placed) = 0 /\ Placed' = Placed /\ args' = args
    BY <1>5, <2>1, FS_EmptySet DEF ReturnAtOnce, Placed
  <2>3. Counted' /\ result' # "short"
    BY <1>5, <2>2 DEF ReturnAtOnce, Counted
  <2> QED
    BY <1>4, <1>5, <2>3 DEF ReturnAtOnce
<1>6. CASE Exhausted
  BY <1>4, <1>6 DEF Exhausted, Counted
<1>7. ASSUME NEW h \in todo, MergeCandidate(h) PROVE Covered'
  <2>1. PICK j \in Nearest(h) :
            stars' = [stars EXCEPT ![j] = IF args.merge /\ @ < 5 THEN @ + 1 ELSE @]
    BY <1>7 DEF MergeCandidate
  <2>2. j \in Placed /\ Distance(h, j) <= args.minimumDistance
    BY <2>1 DEF Nearest, Within
  <2>3. /\ todo' = todo \ {h} /\ args' = args /\ result' = result
        /\ result = "none"
    BY <1>7 DEF MergeCandidate, Accepted
  <2>4. \A i \in Disk : stars'[i] = 0 <=> stars[i] = 0
    BY <1>1, <2>1, <2>2 DEF TypeOK, Placed
  <2>5. Placed' = Placed
    BY <2>4 DEF Placed
  <2>6. \A i \in Consumed' : i = h \/ i \in Consumed
    BY <2>3 DEF Consumed
  <2>7. \A i \in Consumed' : Near(i)'
    BY <2>2, <2>3, <2>5, <2>6 DEF Near, Covered
  <2> QED
    BY <1>1, <2>3, <2>5, <2>7 DEF Covered, Counted
<1>8. ASSUME NEW h \in todo, PlaceCandidate(h) PROVE Covered'
  <2>1. /\ stars' = [stars EXCEPT ![h] = 1]
        /\ todo' = todo \ {h} /\ args' = args
        /\ result' = IF Cardinality(Placed) + 1 = args.n THEN "placed" ELSE "none"
        /\ result = "none" /\ args.n # 0
    BY <1>8 DEF PlaceCandidate, Accepted
  <2>2. h \in Disk /\ h \notin Placed
    BY <1>1 DEF TypeOK, Apart
  <2>3. Placed' = Placed \cup {h}
    BY <1>1, <2>1, <2>2 DEF Placed, TypeOK
  <2>4. Cardinality(Placed') = Cardinality(Placed) + 1
    BY <1>2, <2>2, <2>3, FS_AddElement
  <2>5. Cardinality(Placed) < args.n
    BY <2>1 DEF Covered, Counted
  <2>6. Cardinality(Placed') < args.n \/ Cardinality(Placed') = args.n
    BY <1>2, <2>4, <2>5
  <2>7. Counted'
    BY <1>2, <2>1, <2>4, <2>6 DEF Counted
  <2>8. \A i \in Consumed' : i = h \/ i \in Consumed
    BY <2>1 DEF Consumed
  <2>9. Distance(h, h) <= args.minimumDistance
    BY <1>2, <2>2, DistanceZero
  <2>10. \A i \in Consumed' : Near(i)'
    BY <2>1, <2>3, <2>8, <2>9 DEF Near, Covered
  <2> QED
    BY <1>1, <2>1, <2>7, <2>10 DEF Covered
<1> QED
  BY <1>3, <1>5, <1>6, <1>7, <1>8 DEF Next

-----------------------------------------------------------------------------
(* The stars one by one, as pairs of a system and a number.                 *)
StarPairs == {p \in Placed \X (1..6) : p[2] <= stars[p[1]]}

LEMMA StarsAreFinite ==
    ASSUME TypeOK
    PROVE  /\ IsFiniteSet(StarPairs) /\ Cardinality(StarPairs) \in Nat
           /\ IsFiniteSet(Consumed) /\ Cardinality(Consumed) \in Nat
<1>1. IsFiniteSet(Placed) /\ IsFiniteSet(Disk)
  BY Finite
<1>2. IsFiniteSet(1..6)
  <2>1. 1 \in Int /\ 6 \in Int
    OBVIOUS
  <2> QED
    BY <2>1, FS_Interval, Zenon
<1>3. IsFiniteSet(Placed \X (1..6))
  BY <1>1, <1>2, FS_Product
<1>4. IsFiniteSet(StarPairs)
  BY <1>3, FS_Subset DEF StarPairs
<1>5. IsFiniteSet(Consumed)
  BY <1>1, FS_Subset DEF Consumed
<1> QED
  BY <1>4, <1>5, FS_CardinalityType

(* Merging, every candidate that is consumed is one more star, unless the   *)
(* system it goes to is full.                                               *)
OneEach ==
    /\ args.merge => /\ Cardinality(StarPairs) <= Cardinality(Consumed)
                     /\ (\A h \in Placed : stars[h] < 5) =>
                            Cardinality(StarPairs) = Cardinality(Consumed)
    /\ ~args.merge => \A h \in Placed : stars[h] = 1

LEMMA OneEachInitially == Init => OneEach
<1> SUFFICES ASSUME Init PROVE OneEach
  OBVIOUS
<1>1. Placed = {} /\ Consumed = {}
  BY DEF Init, Placed, Consumed
<1>2. StarPairs = {}
  BY <1>1 DEF StarPairs
<1> QED
  BY <1>1, <1>2, FS_EmptySet DEF OneEach

LEMMA OneEachStep == Apart /\ OneEach /\ [Next]_vars => OneEach'
<1> SUFFICES ASSUME Apart, OneEach, [Next]_vars PROVE OneEach'
  OBVIOUS
<1>1. TypeOK /\ Placed \cap todo = {}
  BY DEF Apart
<1>2. /\ IsFiniteSet(StarPairs) /\ Cardinality(StarPairs) \in Nat
      /\ IsFiniteSet(Consumed) /\ Cardinality(Consumed) \in Nat
  BY <1>1, StarsAreFinite
<1>3. CASE UNCHANGED <<args, todo, stars>>
  BY <1>3 DEF OneEach, StarPairs, Consumed, Placed
<1>4. ASSUME NEW h \in todo, todo' = todo \ {h}
      PROVE  Cardinality(Consumed') = Cardinality(Consumed) + 1
  <2>1. Consumed' = Consumed \cup {h} /\ h \notin Consumed
    BY <1>1, <1>4 DEF Consumed, TypeOK
  <2> QED
    BY <1>2, <2>1, FS_AddElement
<1>5. ASSUME NEW h \in todo, MergeCandidate(h) PROVE OneEach'
  <2>1. PICK j \in Nearest(h) :
            stars' = [stars EXCEPT ![j] = IF args.merge /\ @ < 5 THEN @ + 1 ELSE @]
    BY <1>5 DEF MergeCandidate
  <2>2. j \in Placed /\ j \in Disk /\ stars[j] \in 1..5
    BY <1>1, <2>1 DEF Nearest, Within, Placed, TypeOK
  <2>3. args' = args /\ Cardinality(Consumed') = Cardinality(Consumed) + 1
    BY <1>4, <1>5 DEF MergeCandidate
  <2>4. \A i \in Disk : stars'[i] = 0 <=> stars[i] = 0
    BY <1>1, <2>1, <2>2 DEF TypeOK
  <2>5. Placed' = Placed
    BY <2>4 DEF Placed
  <2>6. CASE args.merge /\ stars[j] < 5
    <3> DEFINE p == <<j, stars[j] + 1>>
    <3>1. stars' = [stars EXCEPT ![j] = stars[j] + 1]
      BY <1>1, <2>1, <2>2, <2>6 DEF TypeOK
    <3>2. StarPairs' = StarPairs \cup {p} /\ p \notin StarPairs
      <4>1. p \in Placed \X (1..6) /\ p[1] = j /\ p[2] = stars[j] + 1
        BY <2>2, <2>6
      <4>2. p \notin StarPairs
        BY <2>2, <4>1 DEF StarPairs
      <4>3. ASSUME NEW s \in Placed \X (1..6)
            PROVE  s[2] <= stars'[s[1]] <=> s[2] <= stars[s[1]] \/ s = p
        <5>1. s[1] \in Disk /\ s[2] \in Int /\ s = <<s[1], s[2]>>
          BY DEF Placed
        <5>2. CASE s[1] = j
          BY <1>1, <2>2, <3>1, <5>1, <5>2 DEF TypeOK
        <5>3. CASE s[1] # j
          BY <1>1, <3>1, <5>1, <5>3 DEF TypeOK
        <5> QED
          BY <5>2, <5>3
      <4> QED
        BY <2>5, <4>1, <4>2, <4>3 DEF StarPairs
    <3>3. Cardinality(StarPairs') = Cardinality(StarPairs) + 1
      BY <1>2, <3>2, FS_AddElement
    <3>4. (\A i \in Placed' : stars'[i] < 5) => \A i \in Placed : stars[i] < 5
      BY <2>5, <2>6, <3>1 DEF TypeOK, Placed
    <3> QED
      BY <1>2, <2>3, <2>6, <3>3, <3>4 DEF OneEach
  <2>7. CASE ~(args.merge /\ stars[j] < 5)
    <3>1. stars' = stars
      BY <1>1, <2>1, <2>2, <2>7 DEF TypeOK
    <3>2. StarPairs' = StarPairs
      BY <2>5, <3>1 DEF StarPairs
    <3>3. args.merge => ~(\A i \in Placed : stars[i] < 5)
      BY <2>2, <2>7
    <3> QED
      BY <1>2, <2>3, <2>5, <3>1, <3>2, <3>3 DEF OneEach
  <2> QED
    BY <2>6, <2>7
<1>6. ASSUME NEW h \in todo, PlaceCandidate(h) PROVE OneEach'
  <2>1. stars' = [stars EXCEPT ![h] = 1] /\ todo' = todo \ {h} /\ args' = args
    BY <1>6 DEF PlaceCandidate
  <2>2. h \in Disk /\ h \notin Placed
    BY <1>1 DEF TypeOK
  <2>3. Placed' = Placed \cup {h} /\ stars'[h] = 1 /\ \A i \in Placed : stars'[i] = stars[i]
    BY <1>1, <2>1, <2>2 DEF Placed, TypeOK
  <2>4. StarPairs' = StarPairs \cup {<<h, 1>>} /\ <<h, 1>> \notin StarPairs
    <3>1. <<h, 1>> \notin StarPairs
      BY <2>2 DEF StarPairs
    <3>2. ASSUME NEW s \in (Placed \cup {h}) \X (1..6)
          PROVE  s[2] <= stars'[s[1]] <=> s \in StarPairs \/ s = <<h, 1>>
      <4>1. s = <<s[1], s[2]>> /\ s[2] \in 1..6
        OBVIOUS
      <4>2. CASE s[1] = h
        BY <2>2, <2>3, <4>1, <4>2 DEF StarPairs
      <4>3. CASE s[1] \in Placed
        BY <2>2, <2>3, <4>1, <4>3 DEF StarPairs
      <4> QED
        BY <4>2, <4>3
    <3>3. <<h, 1>> \in (Placed \cup {h}) \X (1..6)
      OBVIOUS
    <3>4. StarPairs \subseteq (Placed \cup {h}) \X (1..6)
      BY DEF StarPairs
    <3>5. StarPairs' = {s \in (Placed \cup {h}) \X (1..6) : s[2] <= stars'[s[1]]}
      BY <2>3 DEF StarPairs
    <3> QED
      BY <3>1, <3>2, <3>3, <3>4, <3>5
  <2>5. Cardinality(StarPairs') = Cardinality(StarPairs) + 1
    BY <1>2, <2>4, FS_AddElement
  <2>6. Cardinality(Consumed') = Cardinality(Consumed) + 1
    BY <1>4, <2>1
  <2>7. (\A i \in Placed' : stars'[i] < 5) => \A i \in Placed : stars[i] < 5
    BY <2>3
  <2>8. (\A i \in Placed : stars[i] = 1) => \A i \in Placed' : stars'[i] = 1
    BY <2>3
  <2> QED
    BY <1>2, <2>1, <2>5, <2>6, <2>7, <2>8 DEF OneEach
<1> QED
  BY <1>3, <1>5, <1>6 DEF Next, ReturnAtOnce, Exhausted, vars

-----------------------------------------------------------------------------
(* In the whole generator a placement step is one of Next, and the stage    *)
(* that follows leaves the locals of placeHexSystems as a call finds them.  *)
LEMMA PlacementInWorld ==
    TypeOK /\ [WorldNext]_worldVars => [Next]_vars \/ Init'
<1> SUFFICES ASSUME TypeOK, [WorldNext]_worldVars, ~UNCHANGED vars
             PROVE  Next \/ Init'
  OBVIOUS
<1>1. NoArguments \in Arguments
  BY DEF TypeOK, NoArguments
<1>2. CASE GenerateCluster
  BY <1>1, <1>2 DEF GenerateCluster, Init
<1> QED
  BY <1>2 DEF WorldNext, worldVars

LEMMA PlacementStartsWorld == WorldInit => Init
BY DEF WorldInit

(* placeHexSystems: two systems are always more than minimumDistance apart, *)
(* and no system has more than five stars (TypeOK).                         *)
THEOREM SystemsAreApart == WorldSpec => []Separated /\ []TypeOK
<1>1. Apart => TypeOK /\ Separated
  BY DEF Apart
<1>2. Init' => Apart'
  BY ApartInitially, PTL
<1>3. Apart /\ [WorldNext]_worldVars => Apart'
  BY <1>1, <1>2, PlacementInWorld, ApartStep
<1> QED
  BY <1>1, <1>3, PlacementStartsWorld, ApartInitially, PTL DEF WorldSpec

(* placeHexSystems: it gives up only when every hex of the disk is within   *)
(* minimumDistance of a system, and returns as many as it was asked for     *)
(* otherwise.                                                               *)
THEOREM NeverShortWithoutReason == WorldSpec => []ShortIsFull
<1>1. Covered => TypeOK /\ ShortIsFull
  BY DEF Covered, Counted, ShortIsFull, Consumed, Near, Apart
<1>2. Init' => Covered'
  BY CoveredInitially, PTL
<1>3. Covered /\ [WorldNext]_worldVars => Covered'
  BY <1>1, <1>2, PlacementInWorld, CoveredStep
<1> QED
  BY <1>1, <1>3, PlacementStartsWorld, CoveredInitially, PTL DEF WorldSpec

(* placeHexSystems: merging loses no candidate except to a system that is   *)
(* full, and without merging every system has one star.                     *)
THEOREM NoStarIsLost == WorldSpec => []StarsAreCandidates
<1> DEFINE I == Apart /\ OneEach
<1>1. I => TypeOK /\ StarsAreCandidates
  BY DEF Apart, OneEach, StarsAreCandidates, StarPairs
<1>2. Init => I
  BY ApartInitially, OneEachInitially
<1>3. Init' => I'
  BY <1>2, PTL
<1>4. I /\ [WorldNext]_worldVars => I'
  BY <1>1, <1>3, PlacementInWorld, ApartStep, OneEachStep
<1> QED
  BY <1>1, <1>2, <1>4, PlacementStartsWorld, PTL DEF WorldSpec
-----------------------------------------------------------------------------
(* A clamping loop ends within its bound, and not far from it.  Rolls that   *)
(* sway a value leave it an integer.                                        *)
LEMMA Raised ==
    \A least, step, w \in Int : \A v \in RaisedTo(least, step, w) : v \in Int /\ v >= least
BY DEF RaisedTo

LEMMA Lowered ==
    \A most, step, v \in Int : \A t \in LoweredTo(most, step, v) :
        t \in Int /\ t <= most /\ (t = v \/ t > most - step)
BY DEF LoweredTo

LEMMA SwayedIsInt ==
    ASSUME NEW v \in Int, NEW n \in Nat
    PROVE  Swayed(v, n) \subseteq Int
BY DEF Swayed

(* A seed is an index of the tables.                                        *)
LEMMA SeedInTable ==
    ASSUME NEW n \in 1..9, NEW o \in 1..n
    PROVE  seedIndex(n, o) \in 1..9
<1>1. CASE n <= 3
  BY <1>1 DEF seedIndex
<1>2. CASE n > 3
  <2>1. n = 4 \/ n = 5 \/ n = 6 \/ n = 7 \/ n = 8 \/ n = 9
    BY <1>2
  <2> QED
    BY <1>2, <2>1 DEF seedIndex
<1> QED
  BY <1>1, <1>2

LEMMA SeedClasses == \A s \in 1..9 : seedTemperatureClass[s] \in Int /\ seedDiameter[s] \in Int
<1> SUFFICES ASSUME NEW s \in 1..9
             PROVE  seedTemperatureClass[s] \in Int /\ seedDiameter[s] \in Int
  OBVIOUS
<1>1. s = 1 \/ s = 2 \/ s = 3 \/ s = 4 \/ s = 5 \/ s = 6 \/ s = 7 \/ s = 8 \/ s = 9
  OBVIOUS
<1> QED
  BY <1>1 DEF seedTemperatureClass, seedDiameter

LEMMA KindsAreKinds == ASSUME NEW seed PROVE Kinds(seed) \subseteq Kind
BY DEF Kinds, planetKind, Kind

(* star.NumPlanets: both loops together leave 1 to 9.                       *)
LEMMA OneToNinePlanets ==
    ASSUME NEW k \in StarType, NEW c \in Color
    PROVE  PlanetCounts(k, c) \subseteq 1..9
<1>1. numberOfRolls[k] \in Nat
  BY DEF numberOfRolls, StarType
<1>2. sizeOfDie[c] \in Nat
  BY DEF sizeOfDie, Color
<1> DEFINE sum == (numberOfRolls[k] - 2)..(numberOfRolls[k] * sizeOfDie[c] - 2)
<1>3. sum \subseteq Int
  OBVIOUS
<1> SUFFICES ASSUME NEW v \in sum, NEW m \in RaisedTo(1, 2, v), NEW t \in LoweredTo(9, 3, m)
             PROVE  t \in 1..9
  BY DEF PlanetCounts
<1>4. v \in Int /\ m \in Int /\ m >= 1
  BY <1>3, Raised
<1> QED
  BY <1>4, Lowered

LEMMA Rolled ==
    ASSUME NEW seed \in 1..9
    PROVE  UNION {Swayed(seedTemperatureClass[seed], n) : n \in 3..9} \subseteq Int
BY SwayedIsInt, SeedClasses

LEMMA ClassesOfPlanets ==
    ASSUME NEW seed \in 1..9, NEW kind
    PROVE  Temperatures(seed, kind) \subseteq 1..30
<1> DEFINE least == IF kind = "gas giant" THEN 3 ELSE 1
           most == IF kind = "gas giant" THEN 7 ELSE 30
           rolled == UNION {Swayed(seedTemperatureClass[seed], n) : n \in 3..9}
<1> SUFFICES ASSUME NEW t \in Temperatures(seed, kind) PROVE t \in 1..30
  OBVIOUS
<1>0. /\ least \in Int /\ most \in Int /\ most <= 30
      /\ least >= 1 /\ most - 2 >= 1
  OBVIOUS
<1>1. PICK w \in rolled : \E v \in RaisedTo(least, 2, w) : t \in LoweredTo(most, 2, v)
  BY DEF Temperatures
<1>2. PICK v \in RaisedTo(least, 2, w) : t \in LoweredTo(most, 2, v)
  BY <1>1
<1>3. rolled \subseteq Int
  BY Rolled
<1> HIDE DEF rolled, least, most
<1>4. w \in Int
  BY <1>3
<1>5. v \in Int /\ v >= 1
  BY <1>0, <1>2, <1>4, Raised
<1> QED
  BY <1>0, <1>2, <1>5, Lowered

LEMMA ClassesOfTemplatePlanets ==
    ASSUME NEW seed \in 1..9, NEW kind
    PROVE  TemplateTemperatures(seed, kind) \subseteq 1..30
<1> DEFINE least == IF kind = "gas giant" THEN 3 ELSE 1
           most == IF kind = "gas giant" THEN 7 ELSE 30
           step == IF kind = "gas giant" THEN 2 ELSE 3
           rolled == UNION {Swayed(seedTemperatureClass[seed], n) : n \in 3..9}
<1> SUFFICES ASSUME NEW t \in TemplateTemperatures(seed, kind) PROVE t \in 1..30
  OBVIOUS
<1>0. /\ least \in Int /\ most \in Int /\ step \in Int /\ most <= 30
      /\ least >= 1 /\ most - step >= 1
  OBVIOUS
<1>1. PICK w \in rolled : \E v \in RaisedTo(least, step, w) : t \in LoweredTo(most, step, v)
  BY DEF TemplateTemperatures
<1>2. PICK v \in RaisedTo(least, step, w) : t \in LoweredTo(most, step, v)
  BY <1>1
<1>3. rolled \subseteq Int
  BY Rolled
<1> HIDE DEF rolled, least, most, step
<1>4. w \in Int
  BY <1>3
<1>5. v \in Int /\ v >= 1
  BY <1>0, <1>2, <1>4, Raised
<1> QED
  BY <1>0, <1>2, <1>5, Lowered

LEMMA WarmedClasses ==
    \A n, o \in Nat : \A t \in 1..30 : \A w \in Warmed(n, o, t) :
        w \in 1..30 /\ (n < 4 /\ o < 3 => w >= 12)
BY DEF Warmed, RaisedTo

LEMMA OrderedClasses ==
    \A o \in Nat : \A previous, w \in Int :
        /\ Ordered(o, previous, w) \in {previous, w}
        /\ o > 1 => Ordered(o, previous, w) <= previous
        /\ o <= 1 => Ordered(o, previous, w) = w
BY DEF Ordered
-----------------------------------------------------------------------------
(* The star in the making: its planets are rolled one by one, and the two   *)
(* inner ones of a small system stay warm.                                  *)
StarInv ==
    /\ StarTypeOK
    /\ orbit <= NumPlanets
    /\ orbit \in 1..2 /\ NumPlanets < 4 => planet.tc >= 12

StarStep == rollStar \/ rollPlanet \/ TakeStar

Cools ==
    orbit' = orbit + 1 =>
        /\ orbit # 0 => planet'.tc <= planet.tc
        /\ NumPlanets < 4 /\ orbit' < 3 => planet'.tc >= 12

LEMMA StarInitially == StarInit => StarInv
BY DEF StarInit, StarInv, StarTypeOK, NoPlanet, Kind

LEMMA StarInvStep == StarInv /\ StarStep => StarInv' /\ Cools
<1> SUFFICES ASSUME StarInv, StarStep PROVE StarInv' /\ Cools
  OBVIOUS
<1>1. NumPlanets \in 0..9 /\ orbit \in 0..9 /\ planet.tc \in 0..30 /\ orbit <= NumPlanets
  BY DEF StarInv, StarTypeOK
<1>2. CASE rollStar
  <2>1. NumPlanets' \in 1..9 /\ orbit' = orbit /\ planet' = planet /\ NumPlanets = 0
    BY <1>2, OneToNinePlanets DEF rollStar
  <2>2. orbit = 0
    BY <1>1, <2>1
  <2> QED
    BY <1>1, <2>1, <2>2 DEF StarInv, StarTypeOK, Cools
<1>3. CASE rollPlanet
  <2> DEFINE o == orbit + 1  n == NumPlanets  seed == seedIndex(n, o)
  <2>1. PICK k \in Kinds(seed) : \E t \in Temperatures(seed, k) : \E w \in Warmed(n, o, t) :
            planet' = [kind |-> k, tc |-> Ordered(o, planet.tc, w)]
    BY <1>3 DEF rollPlanet
  <2>2. PICK t \in Temperatures(seed, k) : \E w \in Warmed(n, o, t) :
            planet' = [kind |-> k, tc |-> Ordered(o, planet.tc, w)]
    BY <2>1
  <2>3. PICK w \in Warmed(n, o, t) : planet' = [kind |-> k, tc |-> Ordered(o, planet.tc, w)]
    BY <2>2
  <2>4. orbit' = o /\ NumPlanets' = n /\ n \in 1..9 /\ o \in 1..n
    BY <1>1, <1>3 DEF rollPlanet
  <2>5. seed \in 1..9
    BY <2>4, SeedInTable
  <2>6. k \in Kind /\ t \in 1..30
    BY <2>5, KindsAreKinds, ClassesOfPlanets
  <2>0. n \in Nat /\ o \in Nat /\ planet.tc \in Int
    BY <1>1, <2>4
  <2> HIDE DEF n, o, seed
  <2>7. w \in 1..30 /\ (n < 4 /\ o < 3 => w >= 12)
    BY <2>0, <2>6, WarmedClasses
  <2> DEFINE tc == Ordered(o, planet.tc, w)
  <2>w. w \in Int
    BY <2>7
  <2>8. /\ tc \in {planet.tc, w}
        /\ o > 1 => tc <= planet.tc
        /\ o <= 1 => tc = w
    BY <2>0, <2>w, OrderedClasses
  <2>9. planet' = [kind |-> k, tc |-> tc]
    BY <2>3
  <2> HIDE DEF tc
  <2>10. n < 4 /\ o < 3 => tc >= 12
    <3>1. CASE o <= 1
      BY <2>7, <2>8, <3>1
    <3>2. CASE o = 2 /\ n < 4
      BY <1>1, <2>7, <2>8, <3>2 DEF StarInv, n, o
    <3> QED
      BY <2>4, <3>1, <3>2
  <2>11. planet'.tc = tc /\ planet' \in [kind : Kind, tc : 0..30]
    BY <1>1, <2>6, <2>7, <2>8, <2>9
  <2>12. StarInv'
    BY <1>1, <2>4, <2>10, <2>11 DEF StarInv, StarTypeOK, n, o
  <2>13. Cools
    BY <1>1, <2>4, <2>8, <2>10, <2>11 DEF Cools, n, o
  <2> QED
    BY <2>12, <2>13
<1>4. CASE TakeStar
  <2>1. NumPlanets' = 0 /\ orbit' = 0 /\ planet' = NoPlanet
    BY <1>4 DEF TakeStar
  <2>2. StarInv'
    <3>1. planet' \in [kind : Kind, tc : 0..30]
      BY <2>1 DEF NoPlanet, Kind
    <3>2. orbit' \in 0..9 /\ NumPlanets' \in 0..9 /\ orbit' <= NumPlanets' /\ orbit' \notin 1..2
      BY <2>1
    <3> QED
      BY <3>1, <3>2 DEF StarInv, StarTypeOK
  <2>3. Cools
    BY <1>1, <2>1 DEF Cools
  <2> QED
    BY <2>2, <2>3
<1> QED
  BY <1>2, <1>3, <1>4 DEF StarStep

(* Wherever the generator is, the star in the making changes by these steps *)
(* alone, or not at all.                                                    *)
LEMMA StarsInWorld == [WorldNext]_worldVars => StarStep \/ UNCHANGED starVars
<1> SUFFICES ASSUME [WorldNext]_worldVars PROVE StarStep \/ UNCHANGED starVars
  OBVIOUS
<1>1. ASSUME TemplatesNext PROVE StarStep \/ UNCHANGED starVars
  BY <1>1 DEF TemplatesNext, StarStep, TakeCandidate, RollTemplatePlanet, FinishAttempt
<1>2. ASSUME ClusterNext PROVE StarStep \/ UNCHANGED starVars
  BY <1>2 DEF ClusterNext, StarStep, AddSystem, AddStar, GenerateDeposits
<1> QED
  BY <1>1, <1>2 DEF WorldNext, worldVars, GenerateCluster

LEMMA StarInvInWorld ==
    StarInv /\ [WorldNext]_worldVars => StarInv' /\ (Cools \/ UNCHANGED starVars)
<1>1. StarInv /\ UNCHANGED starVars => StarInv'
  BY DEF StarInv, StarTypeOK, starVars
<1> QED
  BY <1>1, StarsInWorld, StarInvStep

(* rollStar and rollPlanet: a star has at most nine planets, and the planets*)
(* that are there have a class of 0 to 30, the clamps and caps included.    *)
THEOREM StarTypes == WorldSpec => []StarTypeOK
<1>1. WorldInit => StarInv
  BY StarInitially DEF WorldInit
<1>2. StarInv => StarTypeOK
  BY DEF StarInv
<1> QED
  BY <1>1, <1>2, StarInvInWorld, PTL DEF WorldSpec
-----------------------------------------------------------------------------
(* The home templates: what a slot says of itself, what the driver has      *)
(* counted, and how far the attempt that is being made is.  Before there is *)
(* a home world every planet is too warm for one.                           *)
Honest(n, slot) ==
    IF slot.has
    THEN /\ slot.template.home \in 1..n \/ (Min < 0 /\ slot.template = NoTemplate)
         /\ Accepts(slot.template.score)
         /\ slot.BestScore >= slot.template.score
    ELSE /\ slot.template = NoTemplate
         /\ IF slot.Attempts > 0 THEN ~Accepts(slot.BestScore) ELSE slot.BestScore = 0

FilledSlots == {n \in Slots : outcomes[n].has}

AttemptInv ==
    /\ attempt \in Attempt
    /\ attempt.orbit <= attempt.n /\ attempt.home <= attempt.orbit
    /\ attempt.home = 0 /\ attempt.orbit # 0 => attempt.tc >= 12

DriverInv ==
    /\ rolls \in 0..MaxRolls
    /\ outcomes \in [Slots -> [template : [score : {0} \cup Scores, home : 0..9],
                               has : BOOLEAN, Attempts : 0..MaxRolls,
                               BestScore : {0} \cup Scores]]
    /\ attempt.n # 0 => ~outcomes[attempt.n].has
    /\ \A n \in Slots : /\ Honest(n, outcomes[n])
                        /\ outcomes[n].Attempts <= rolls
                        /\ attempt.n = n => outcomes[n].Attempts < rolls
    /\ filled = Cardinality(FilledSlots)

TemplatesInv == AttemptInv /\ DriverInv

LEMMA SlotsAreFinite ==
    /\ IsFiniteSet(FilledSlots)
    /\ Cardinality(FilledSlots) \in 0..7
<1>1. IsFiniteSet(Slots) /\ Cardinality(Slots) = 7
  <2>1. 3 \in Int /\ 9 \in Int /\ 9 - 3 + 1 = 7 /\ ~(3 > 9)
    OBVIOUS
  <2> QED
    BY <2>1, FS_Interval DEF Slots
<1>2. FilledSlots \subseteq Slots
  BY DEF FilledSlots
<1>3. /\ IsFiniteSet(FilledSlots) /\ Cardinality(FilledSlots) <= 7
  BY <1>1, <1>2, FS_Subset
<1>4. Cardinality(FilledSlots) \in Nat
  BY <1>3, FS_CardinalityType
<1> QED
  BY <1>3, <1>4

(* As long as a slot is open, fewer than seven are filled.                  *)
LEMMA OpenSlotIsNotCounted ==
    ASSUME NEW n \in Slots, ~outcomes[n].has PROVE Cardinality(FilledSlots) < 7
<1>1. IsFiniteSet(Slots) /\ Cardinality(Slots) = 7
  <2>1. 3 \in Int /\ 9 \in Int /\ 9 - 3 + 1 = 7 /\ ~(3 > 9)
    OBVIOUS
  <2> QED
    BY <2>1, FS_Interval DEF Slots
<1>2. FilledSlots \subseteq Slots \ {n}
  BY DEF FilledSlots
<1>3. IsFiniteSet(Slots \ {n}) /\ Cardinality(Slots \ {n}) = 7 - 1
  BY <1>1, FS_RemoveElement
<1>4. Cardinality(FilledSlots) <= Cardinality(Slots \ {n})
  BY <1>2, <1>3, FS_Subset
<1> QED
  BY <1>3, <1>4, SlotsAreFinite

LEMMA ZeroIsNotAccepted == Accepts(0) => Min < 0
BY WindowAssumption DEF Accepts

LEMMA NoAttemptInv == NoAttempt \in Attempt /\ NoAttempt.n = 0 /\ NoAttempt.orbit = 0 /\ NoAttempt.home = 0
BY DEF NoAttempt, Attempt, Slots

LEMMA TemplatesInitially == TemplatesInit => TemplatesInv
<1> SUFFICES ASSUME TemplatesInit PROVE TemplatesInv
  OBVIOUS
<1>1. AttemptInv
  BY NoAttemptInv DEF TemplatesInit, AttemptInv
<1> DEFINE slot == [template |-> NoTemplate, has |-> FALSE, Attempts |-> 0, BestScore |-> 0]
<1>2. slot \in [template : [score : {0} \cup Scores, home : 0..9],
                has : BOOLEAN, Attempts : 0..MaxRolls, BestScore : {0} \cup Scores]
  BY BudgetAssumption DEF NoTemplate
<1>3. slot.has = FALSE /\ slot.template = NoTemplate /\ slot.Attempts = 0 /\ slot.BestScore = 0
  OBVIOUS
<1> HIDE DEF slot
<1>4. outcomes = [n \in Slots |-> slot] /\ rolls = 0 /\ filled = 0 /\ attempt.n = 0
  BY NoAttemptInv DEF TemplatesInit, slot
<1>5. FilledSlots = {}
  BY <1>3, <1>4 DEF FilledSlots
<1>6. Cardinality(FilledSlots) = 0
  BY <1>5, FS_EmptySet
<1>7. \A n \in Slots : /\ outcomes[n] = slot /\ outcomes[n].Attempts <= rolls
                       /\ attempt.n # n
  BY <1>3, <1>4 DEF Slots
<1>8. \A n \in Slots : Honest(n, outcomes[n])
  BY <1>3, <1>7 DEF Honest
<1>9. rolls \in 0..MaxRolls
  BY <1>4, BudgetAssumption
<1> QED
  BY <1>1, <1>2, <1>4, <1>6, <1>7, <1>8, <1>9 DEF TemplatesInv, DriverInv

LEMMA TemplatesUnchanged == TemplatesInv /\ UNCHANGED templateVars => TemplatesInv'
BY DEF TemplatesInv, AttemptInv, DriverInv, templateVars, FilledSlots

(* A candidate is counted, and its slot is open when it gets an attempt.    *)
LEMMA CandidateStep == TemplatesInv /\ TakeCandidate => TemplatesInv'
<1> SUFFICES ASSUME TemplatesInv, TakeCandidate PROVE TemplatesInv'
  OBVIOUS
<1>1. /\ attempt.n = 0 /\ rolls < MaxRolls
      /\ rolls' = rolls + 1 /\ outcomes' = outcomes /\ filled' = filled
  BY DEF TakeCandidate, Searching
<1>2. rolls \in Nat /\ MaxRolls \in Nat /\ rolls' \in 0..MaxRolls
  BY <1>1, BudgetAssumption DEF TemplatesInv, DriverInv
<1>3. \/ attempt' = NoAttempt
      \/ /\ NumPlanets \in Slots /\ ~outcomes[NumPlanets].has
         /\ attempt' = [NoAttempt EXCEPT !.n = NumPlanets]
  BY DEF TakeCandidate
<1>4. /\ attempt' \in Attempt /\ attempt'.orbit = 0 /\ attempt'.home = 0
      /\ attempt'.n = 0 \/ (attempt'.n \in Slots /\ ~outcomes[attempt'.n].has)
  <2>1. CASE attempt' = NoAttempt
    BY <2>1, NoAttemptInv
  <2>2. CASE /\ NumPlanets \in Slots /\ ~outcomes[NumPlanets].has
             /\ attempt' = [NoAttempt EXCEPT !.n = NumPlanets]
    <3>1. attempt' = [n |-> NumPlanets, orbit |-> 0, tc |-> 0, home |-> 0]
      BY <2>2 DEF NoAttempt
    <3>2. attempt'.n = NumPlanets /\ attempt'.orbit = 0 /\ attempt'.home = 0
      BY <3>1
    <3>3. 0 \in 0..9 /\ 0 \in 0..30 /\ NumPlanets \in {0} \cup Slots
      BY <2>2
    <3>4. attempt' \in Attempt
      BY <3>1, <3>3, Zenon DEF Attempt
    <3> QED
      BY <2>2, <3>2, <3>4
  <2> QED
    BY <1>3, <2>1, <2>2
<1>5. AttemptInv'
  <2>1. attempt'.n >= 0
    BY <1>4 DEF Slots
  <2> QED
    BY <1>4, <2>1 DEF AttemptInv
<1>6. \A n \in Slots : outcomes[n].Attempts \in Nat /\ outcomes[n].Attempts <= rolls
  BY <1>2 DEF TemplatesInv, DriverInv
<1>7. \A n \in Slots : outcomes'[n].Attempts <= rolls' /\ outcomes'[n].Attempts < rolls'
  BY <1>1, <1>2, <1>6
<1>8. FilledSlots' = FilledSlots
  BY <1>1 DEF FilledSlots
<1>9. DriverInv'
  BY <1>1, <1>2, <1>4, <1>7, <1>8 DEF TemplatesInv, DriverInv
<1> QED
  BY <1>5, <1>9 DEF TemplatesInv

(* A planet is no warmer than the one before it, the home world included:   *)
(* its class is at most 12, and it is the first that is not warmer.         *)
TemplateCools ==
    attempt.orbit # 0 /\ attempt'.orbit = attempt.orbit + 1 => attempt'.tc <= attempt.tc

LEMMA TemplatePlanetStep ==
    TemplatesInv /\ RollTemplatePlanet => TemplatesInv' /\ TemplateCools
<1> SUFFICES ASSUME TemplatesInv, RollTemplatePlanet PROVE TemplatesInv' /\ TemplateCools
  OBVIOUS
<1> DEFINE o == attempt.orbit + 1  n == attempt.n  seed == seedIndex(n, o)
<1>1. PICK k \in Kinds(seed) : \E t \in TemplateTemperatures(seed, k) : \E w \in Warmed(n, o, t) :
        LET tc == Ordered(o, attempt.tc, w) IN
          IF EarthLike(attempt.home, tc)
          THEN \E e \in 10..12 :
                  attempt' = [attempt EXCEPT !.orbit = o, !.tc = e, !.home = o]
          ELSE attempt' = [attempt EXCEPT !.orbit = o, !.tc = tc]
  BY DEF RollTemplatePlanet
<1>2. PICK t \in TemplateTemperatures(seed, k) : \E w \in Warmed(n, o, t) :
        LET tc == Ordered(o, attempt.tc, w) IN
          IF EarthLike(attempt.home, tc)
          THEN \E e \in 10..12 :
                  attempt' = [attempt EXCEPT !.orbit = o, !.tc = e, !.home = o]
          ELSE attempt' = [attempt EXCEPT !.orbit = o, !.tc = tc]
  BY <1>1
<1>3. PICK w \in Warmed(n, o, t) :
        LET tc == Ordered(o, attempt.tc, w) IN
          IF EarthLike(attempt.home, tc)
          THEN \E e \in 10..12 :
                  attempt' = [attempt EXCEPT !.orbit = o, !.tc = e, !.home = o]
          ELSE attempt' = [attempt EXCEPT !.orbit = o, !.tc = tc]
  BY <1>2
<1> DEFINE tc == Ordered(o, attempt.tc, w)
<1>4. /\ attempt \in Attempt /\ attempt.home \in 0..9 /\ attempt.orbit \in 0..9
      /\ attempt.tc \in 0..30 /\ n \in 3..9 /\ attempt.home <= attempt.orbit
  BY DEF TemplatesInv, AttemptInv, Attempt, Slots, RollTemplatePlanet
<1>5. n \in 1..9 /\ o \in 1..n
  BY <1>4 DEF RollTemplatePlanet
<1>6. seed \in 1..9
  BY <1>5, SeedInTable
<1>7. t \in 1..30
  BY <1>6, ClassesOfTemplatePlanets
<1>8. n \in Nat /\ o \in Nat /\ attempt.tc \in Int /\ o \in 0..9
  BY <1>4, <1>5
<1>9. o > 1 <=> attempt.orbit # 0
  BY <1>4
<1>10. \/ /\ EarthLike(attempt.home, tc)
          /\ \E e \in 10..12 : attempt' = [attempt EXCEPT !.orbit = o, !.tc = e, !.home = o]
       \/ /\ ~EarthLike(attempt.home, tc)
          /\ attempt' = [attempt EXCEPT !.orbit = o, !.tc = tc]
  BY <1>3
<1> HIDE DEF n, seed
<1>11. w \in Int /\ w \in 1..30
  BY <1>7, <1>8, WarmedClasses, SMTT(30)
<1>12. /\ tc \in {attempt.tc, w}
       /\ o > 1 => tc <= attempt.tc
  BY <1>8, <1>11, OrderedClasses
<1>13. tc \in 0..30
  BY <1>4, <1>11, <1>12
<1> HIDE DEF tc
<1>14. o \in Nat /\ attempt.orbit \in Nat /\ o = attempt.orbit + 1 /\ o <= n /\ n \in Int
  BY <1>4, <1>5
<1> HIDE DEF o
<1>15. /\ AttemptInv' /\ TemplateCools /\ attempt'.n = attempt.n
  <2>1. CASE EarthLike(attempt.home, tc) /\
             \E e \in 10..12 : attempt' = [attempt EXCEPT !.orbit = o, !.tc = e, !.home = o]
    <3>1. PICK e \in 10..12 : attempt' = [attempt EXCEPT !.orbit = o, !.tc = e, !.home = o]
      BY <2>1
    <3>2. /\ attempt'.orbit = o /\ attempt'.tc = e /\ attempt'.home = o /\ attempt'.n = attempt.n
          /\ attempt' \in Attempt
      <4>1. e \in 0..30
        OBVIOUS
      <4> QED
        BY <1>4, <1>8, <3>1, <4>1 DEF Attempt
    <3>3. AttemptInv'
      BY <1>5, <1>14, <3>2 DEF AttemptInv, n
    <3>4. attempt.home = 0
      BY <2>1 DEF EarthLike
    <3>5. attempt.orbit # 0 => attempt.tc >= 12
      BY <3>4 DEF TemplatesInv, AttemptInv
    <3>6. TemplateCools
      BY <1>4, <3>2, <3>5 DEF TemplateCools
    <3> QED
      BY <3>2, <3>3, <3>6
  <2>2. CASE /\ ~EarthLike(attempt.home, tc)
             /\ attempt' = [attempt EXCEPT !.orbit = o, !.tc = tc]
    <3>1. /\ attempt'.orbit = o /\ attempt'.tc = tc /\ attempt'.home = attempt.home
          /\ attempt'.n = attempt.n /\ attempt' \in Attempt
      BY <1>4, <1>8, <1>13, <2>2 DEF Attempt
    <3>2. attempt.home = 0 => tc >= 12
      BY <1>13, <2>2 DEF EarthLike
    <3>3. AttemptInv'
      BY <1>4, <1>14, <3>1, <3>2 DEF AttemptInv, n
    <3>4. TemplateCools
      BY <1>9, <1>12, <3>1 DEF TemplateCools
    <3> QED
      BY <3>1, <3>3, <3>4
  <2> QED
    BY <1>10, <2>1, <2>2
<1>16. DriverInv'
  BY <1>15 DEF TemplatesInv, DriverInv, FilledSlots, RollTemplatePlanet
<1> QED
  BY <1>15, <1>16 DEF TemplatesInv

(* The score decides whether the slot is filled, and the driver counts it   *)
(* once.                                                                    *)
LEMMA FinishStep == TemplatesInv /\ FinishAttempt => TemplatesInv'
<1> SUFFICES ASSUME TemplatesInv, FinishAttempt PROVE TemplatesInv'
  OBVIOUS
<1> DEFINE n == attempt.n  slot == outcomes[n]
<1>1. PICK s \in ViabilityScores :
        /\ outcomes' = [outcomes EXCEPT ![n] = Outcome(@, s)]
        /\ filled' = IF Accepts(s) THEN filled + 1 ELSE filled
  BY DEF FinishAttempt
<1>2. /\ n # 0 /\ attempt.orbit = n /\ attempt' = NoAttempt /\ rolls' = rolls
      /\ attempt \in Attempt /\ attempt.home <= attempt.orbit
  BY DEF FinishAttempt, TemplatesInv, AttemptInv
<1>3. n \in Slots /\ n \in 3..9 /\ attempt.home \in 0..9
  BY <1>2 DEF Attempt, Slots
<1> DEFINE Slot == [template : [score : {0} \cup Scores, home : 0..9],
                    has : BOOLEAN, Attempts : 0..MaxRolls, BestScore : {0} \cup Scores]
<1>4. outcomes \in [Slots -> Slot] /\ rolls \in 0..MaxRolls
  BY DEF TemplatesInv, DriverInv
<1>5. /\ ~slot.has /\ slot.template = NoTemplate /\ slot.Attempts < rolls
      /\ IF slot.Attempts > 0 THEN ~Accepts(slot.BestScore) ELSE slot.BestScore = 0
  BY <1>2, <1>3 DEF TemplatesInv, DriverInv, Honest
<1>6. /\ slot \in Slot /\ slot.Attempts \in 0..MaxRolls /\ slot.BestScore \in {0} \cup Scores
  BY <1>3, <1>4
<1>7. s \in {0} \cup Scores /\ s \in Nat /\ slot.BestScore \in Nat
  <2>1. ViabilityScores \subseteq {0} \cup Scores
    BY DEF ViabilityScores
  <2>2. {0} \cup Scores \subseteq Nat
    BY ScoreAssumption
  <2> QED
    BY <1>6, <2>1, <2>2
<1>8. Accepts(s) => attempt.home \in 1..n \/ (Min < 0 /\ s = 0 /\ attempt.home = 0)
  <2>1. attempt.home = 0 => s = 0
    BY DEF ViabilityScores
  <2> QED
    BY <1>2, <1>3, <2>1, ZeroIsNotAccepted
<1> DEFINE made == Outcome(slot, s)
<1>9. made = [template |-> IF Accepts(s) THEN [score |-> s, home |-> attempt.home] ELSE slot.template,
              has |-> Accepts(s), Attempts |-> slot.Attempts + 1,
              BestScore |-> IF s > slot.BestScore THEN s ELSE slot.BestScore]
  <2>1. slot = [template |-> slot.template, has |-> slot.has,
                Attempts |-> slot.Attempts, BestScore |-> slot.BestScore]
    BY <1>6
  <2> HIDE DEF slot
  <2>2. made = [slot EXCEPT !.Attempts = slot.Attempts + 1,
                   !.BestScore = IF s > slot.BestScore THEN s ELSE slot.BestScore,
                   !.has = Accepts(s),
                   !.template = IF Accepts(s) THEN [score |-> s, home |-> attempt.home]
                                              ELSE slot.template]
    BY <2>1 DEF Outcome
  <2> QED
    BY <2>1, <2>2
<1>10. slot.Attempts + 1 \in 0..MaxRolls /\ slot.Attempts + 1 <= rolls
  BY <1>4, <1>5, <1>6, BudgetAssumption
<1>11. outcomes' = [outcomes EXCEPT ![n] = made]
  BY <1>1
<1>12. /\ made.has = Accepts(s) /\ made.Attempts = slot.Attempts + 1
       /\ made.BestScore = IF s > slot.BestScore THEN s ELSE slot.BestScore
       /\ made.template = IF Accepts(s) THEN [score |-> s, home |-> attempt.home] ELSE slot.template
  BY <1>9
<1>13. made \in Slot
  <2>1. /\ (IF s > slot.BestScore THEN s ELSE slot.BestScore) \in {0} \cup Scores
        /\ (IF Accepts(s) THEN [score |-> s, home |-> attempt.home] ELSE slot.template)
               \in [score : {0} \cup Scores, home : 0..9]
        /\ Accepts(s) \in BOOLEAN
    BY <1>3, <1>6, <1>7 DEF Accepts
  <2> QED
    BY <1>9, <1>10, <2>1
<1> HIDE DEF made, Slot
<1>14. Honest(n, made)
  <2>1. CASE Accepts(s)
    <3>1. made.template.score = s /\ made.template.home = attempt.home /\ made.BestScore >= s
      BY <1>7, <1>12, <2>1
    <3>2. attempt.home \in 1..n \/ (Min < 0 /\ made.template = NoTemplate)
      BY <1>8, <1>12, <2>1 DEF NoTemplate
    <3> QED
      BY <1>12, <2>1, <3>1, <3>2 DEF Honest
  <2>2. CASE ~Accepts(s)
    <3>1. ~Accepts(made.BestScore) /\ made.Attempts > 0
      <4>1. CASE slot.Attempts > 0
        BY <1>5, <1>6, <1>12, <2>2, <4>1
      <4>2. CASE ~(slot.Attempts > 0)
        <5>1. made.BestScore = s
          BY <1>5, <1>7, <1>12, <4>2
        <5> QED
          BY <1>6, <1>12, <2>2, <5>1
      <4> QED
        BY <4>1, <4>2
    <3> QED
      BY <1>5, <1>12, <2>2, <3>1 DEF Honest
  <2> QED
    BY <2>1, <2>2
<1>15. outcomes' \in [Slots -> Slot]
  BY <1>3, <1>4, <1>11, <1>13
<1>16. outcomes'[n] = made /\ \A m \in Slots : m # n => outcomes'[m] = outcomes[m]
  BY <1>3, <1>4, <1>11
<1>17. \A m \in Slots : Honest(m, outcomes'[m]) /\ outcomes'[m].Attempts <= rolls'
  <2>1. \A m \in Slots : Honest(m, outcomes[m]) /\ outcomes[m].Attempts <= rolls
    BY DEF TemplatesInv, DriverInv
  <2> QED
    BY <1>2, <1>10, <1>12, <1>14, <1>16, <2>1
<1>18. filled' = Cardinality(FilledSlots')
  <2>1. filled = Cardinality(FilledSlots) /\ n \notin FilledSlots
    BY <1>5 DEF TemplatesInv, DriverInv, FilledSlots
  <2>2. CASE Accepts(s)
    <3>1. FilledSlots' = FilledSlots \cup {n}
      BY <1>3, <1>12, <1>16, <2>2 DEF FilledSlots
    <3>2. Cardinality(FilledSlots \cup {n}) = Cardinality(FilledSlots) + 1
      BY <2>1, SlotsAreFinite, FS_AddElement
    <3> QED
      BY <1>1, <2>1, <2>2, <3>1, <3>2
  <2>3. CASE ~Accepts(s)
    <3>1. FilledSlots' = FilledSlots
      BY <1>3, <1>5, <1>12, <1>16, <2>3 DEF FilledSlots
    <3> QED
      BY <1>1, <2>1, <2>3, <3>1
  <2> QED
    BY <2>2, <2>3
<1>19. attempt'.n = 0 /\ AttemptInv'
  BY <1>2, NoAttemptInv DEF AttemptInv
<1>20. \A m \in Slots : attempt'.n # m
  BY <1>19 DEF Slots
<1>21. rolls' \in 0..MaxRolls
  BY <1>2, <1>4
<1>22. DriverInv'
  BY <1>15, <1>17, <1>18, <1>19, <1>20, <1>21 DEF DriverInv, Slot
<1> QED
  BY <1>19, <1>22 DEF TemplatesInv

LEMMA TemplatesInWorld ==
    TemplatesInv /\ [WorldNext]_worldVars =>
        TemplatesInv' /\ (TemplateCools \/ UNCHANGED attempt)
<1> SUFFICES ASSUME TemplatesInv, [WorldNext]_worldVars
             PROVE  TemplatesInv' /\ (TemplateCools \/ UNCHANGED attempt)
  OBVIOUS
<1>1. \/ TakeCandidate \/ RollTemplatePlanet \/ FinishAttempt
      \/ UNCHANGED templateVars
  BY DEF WorldNext, worldVars, GenerateCluster, TemplatesNext
<1>2. CASE TakeCandidate
  <2>1. attempt'.orbit = 0
    BY <1>2, NoAttemptInv DEF TakeCandidate, NoAttempt
  <2>2. TemplateCools
    BY <2>1 DEF TemplatesInv, AttemptInv, Attempt, TemplateCools
  <2> QED
    BY <1>2, <2>2, CandidateStep
<1>3. CASE FinishAttempt
  <2>1. attempt'.orbit = 0
    BY <1>3, NoAttemptInv DEF FinishAttempt
  <2>2. TemplateCools
    BY <2>1 DEF TemplatesInv, AttemptInv, Attempt, TemplateCools
  <2> QED
    BY <1>3, <2>2, FinishStep
<1> QED
  BY <1>1, <1>2, <1>3, TemplatePlanetStep, TemplatesUnchanged DEF templateVars

(* GenerateHomeStarTemplates: an accepted template has a score in the window *)
(* and, unless the window admits 0, a home world; the slots that were tried  *)
(* in vain were missed by their best attempt; and when the driver stops with *)
(* a slot open it has spent its budget.                                      *)
THEOREM TemplatesAreHonest == WorldSpec => []OutcomesAreHonest
<1>1. WorldInit => TemplatesInv
  BY TemplatesInitially DEF WorldInit
<1>2. TemplatesInv => OutcomesAreHonest
  <2> SUFFICES ASSUME TemplatesInv PROVE OutcomesAreHonest
    OBVIOUS
  <2>1. TemplatesTypeOK
    BY SlotsAreFinite DEF TemplatesInv, DriverInv, AttemptInv, TemplatesTypeOK
  <2>2. ASSUME attempt.n = 0, ~Searching, NEW n \in Slots, ~outcomes[n].has
        PROVE  rolls = MaxRolls
    <3>1. filled < 7 /\ rolls \in 0..MaxRolls
      BY <2>2, OpenSlotIsNotCounted DEF TemplatesInv, DriverInv
    <3> QED
      BY <2>2, <3>1, BudgetAssumption DEF Searching
  <2> QED
    BY <2>1, <2>2 DEF TemplatesInv, DriverInv, Honest, OutcomesAreHonest, FilledSlots
<1> QED
  BY <1>1, <1>2, TemplatesInWorld, PTL DEF WorldSpec

(* generateHomeStarTemplateAttempt and rollPlanet: no planet is warmer than *)
(* the one before it, in clusters and in templates, and in small systems    *)
(* the two inner planets stay warm.                                         *)
THEOREM PlanetsCoolOutwards == WorldSpec => ColderOutwards
<1> DEFINE I == StarInv /\ TemplatesInv
<1>1. WorldInit => I
  BY StarInitially, TemplatesInitially DEF WorldInit
<1>2. I /\ [WorldNext]_worldVars => I' /\ [Cools]_starVars /\ [TemplateCools]_attempt
  BY StarInvInWorld, TemplatesInWorld
<1>3. WorldSpec => []I
  BY <1>1, <1>2, PTL DEF WorldSpec
<1>4. WorldSpec => [][Cools]_starVars /\ [][TemplateCools]_attempt
  BY <1>2, <1>3, PTL DEF WorldSpec
<1> QED
  BY <1>4 DEF ColderOutwards, CoolsOutwards, TemplateColderOutwards, Cools, TemplateCools
-----------------------------------------------------------------------------
(* Fractions rounded down lose less than the whole: the percentages that    *)
(* Percentages makes add up to one hundred, and none is negative.           *)
LEMMA DivisionRoundsDown ==
    \A a \in Nat : \A b \in Nat \ {0} : a \div b \in Nat /\ b * (a \div b) <= a
OBVIOUS

(* The sum over the gases, in three parts.                                  *)
First(f) == f[1] + f[2] + f[3] + f[4] + f[5]
Second(f) == f[6] + f[7] + f[8] + f[9]
Third(f) == f[10] + f[11] + f[12] + f[13]

LEMMA PartsOfTotal ==
    ASSUME NEW f, \A g \in 1..13 : f[g] \in Nat
    PROVE  /\ First(f) \in Nat /\ Second(f) \in Nat /\ Third(f) \in Nat
           /\ Total(f) = First(f) + Second(f) + Third(f)
BY DEF Total, First, Second, Third

LEMMA SharesOfParts ==
    ASSUME NEW f, \A g \in 1..13 : f[g] \in Nat
    PROVE  /\ \A g \in 1..5 : f[g] <= First(f)
           /\ \A g \in 6..9 : f[g] <= Second(f)
           /\ \A g \in 10..13 : f[g] <= Third(f)
BY DEF First, Second, Third

LEMMA TotalOfNaturals ==
    ASSUME NEW f \in [AtmosphericGas -> Nat]
    PROVE  Total(f) \in Nat /\ \A g \in AtmosphericGas : f[g] <= Total(f)
<1>1. \A g \in 1..13 : f[g] \in Nat
  BY DEF AtmosphericGas
<1>2. /\ First(f) \in Nat /\ Second(f) \in Nat /\ Third(f) \in Nat
      /\ Total(f) = First(f) + Second(f) + Third(f)
  BY <1>1, PartsOfTotal
<1>3. ASSUME NEW g \in 1..13 PROVE f[g] <= Total(f)
  <2>1. f[g] <= First(f) \/ f[g] <= Second(f) \/ f[g] <= Third(f)
    BY <1>1, SharesOfParts
  <2> QED
    BY <1>1, <1>2, <2>1
<1> QED
  BY <1>2, <1>3 DEF AtmosphericGas

(* Adding to one share adds as much to the whole.                           *)
LEMMA TotalOfOneMore ==
    ASSUME NEW f \in [AtmosphericGas -> Nat], NEW first \in AtmosphericGas, NEW x \in Int
    PROVE  Total([f EXCEPT ![first] = f[first] + x]) = Total(f) + x
<1>1. \A g \in 1..13 : f[g] \in Int
  BY DEF AtmosphericGas
<1> DEFINE h == [f EXCEPT ![first] = f[first] + x]
<1>2. \A g \in 1..13 : h[g] = IF g = first THEN f[g] + x ELSE f[g]
  BY DEF AtmosphericGas
<1> HIDE DEF h
<1>3. \/ first = 1 \/ first = 2 \/ first = 3 \/ first = 4 \/ first = 5 \/ first = 6 \/ first = 7
      \/ first = 8 \/ first = 9 \/ first = 10 \/ first = 11 \/ first = 12 \/ first = 13
  BY DEF AtmosphericGas
<1>4. Total(h) = Total(f) + x
  BY <1>1, <1>2, <1>3 DEF Total
<1> QED
  BY <1>4 DEF h

LEMMA TotalOfMultiples ==
    ASSUME NEW f, NEW q, NEW T \in Nat,
           \A g \in 1..13 : f[g] \in Nat, \A g \in 1..13 : q[g] \in Nat,
           \A g \in 1..13 : T * f[g] <= 100 * q[g]
    PROVE  T * Total(f) <= 100 * Total(q)
<1>1. T * First(f) <= 100 * First(q)
  BY DEF First
<1>2. T * Second(f) <= 100 * Second(q)
  BY DEF Second
<1>3. T * Third(f) <= 100 * Third(q)
  BY DEF Third
<1>4. /\ First(f) \in Nat /\ Second(f) \in Nat /\ Third(f) \in Nat
      /\ First(q) \in Nat /\ Second(q) \in Nat /\ Third(q) \in Nat
      /\ Total(f) = First(f) + Second(f) + Third(f)
      /\ Total(q) = First(q) + Second(q) + Third(q)
  BY PartsOfTotal
<1> QED
  BY <1>1, <1>2, <1>3, <1>4

LEMMA PercentagesAddUp ==
    ASSUME NEW quantity \in [AtmosphericGas -> Nat], NEW first \in AtmosphericGas,
           quantity[first] # 0
    PROVE  /\ Percentages(quantity, first) \in [AtmosphericGas -> 0..100]
           /\ Total(Percentages(quantity, first)) = 100
           /\ \A g \in AtmosphericGas :
                 quantity[g] = 0 => Percentages(quantity, first)[g] = 0
<1> DEFINE T == Total(quantity)
           down == [g \in AtmosphericGas |-> (100 * quantity[g]) \div T]
<1>1. T \in Nat /\ \A g \in AtmosphericGas : quantity[g] \in Nat /\ quantity[g] <= T
  BY TotalOfNaturals
<1>2. T \in Nat \ {0}
  BY <1>1
<1> HIDE DEF T
<1>3. ASSUME NEW g \in AtmosphericGas
      PROVE  /\ down[g] \in Nat /\ T * down[g] <= 100 * quantity[g]
             /\ quantity[g] = 0 => down[g] = 0
  <2>1. 100 * quantity[g] \in Nat
    BY <1>1
  <2>2. quantity[g] = 0 => 100 * quantity[g] = 0
    BY <1>1
  <2>3. \A b \in Nat \ {0} : 0 \div b = 0
    OBVIOUS
  <2> QED
    BY <1>2, <2>1, <2>2, <2>3, DivisionRoundsDown
<1>4. down \in [AtmosphericGas -> Nat]
  BY <1>3
<1>5. \A g \in AtmosphericGas : T * down[g] <= 100 * quantity[g]
  BY <1>3
<1>6. Percentages(quantity, first) = [down EXCEPT ![first] = down[first] + (100 - Total(down))]
  <2>1. Total(down) \in Nat /\ down[first] \in Nat
    BY <1>4, TotalOfNaturals
  <2>2. down[first] + 100 - Total(down) = down[first] + (100 - Total(down))
    BY <2>1
  <2>3. Percentages(quantity, first) = [down EXCEPT ![first] = down[first] + 100 - Total(down)]
    BY <1>4 DEF Percentages, T
  <2> QED
    BY <2>2, <2>3
<1>7. \A g \in AtmosphericGas : quantity[g] = 0 => down[g] = 0
  BY <1>3
<1> HIDE DEF down
<1>8. T * Total(down) <= 100 * Total(quantity)
  <2>1. /\ \A g \in 1..13 : down[g] \in Nat /\ quantity[g] \in Nat
        /\ \A g \in 1..13 : T * down[g] <= 100 * quantity[g]
    BY <1>1, <1>4, <1>5 DEF AtmosphericGas
  <2> QED
    BY <1>2, <2>1, TotalOfMultiples
<1>9. T * Total(down) <= 100 * T /\ Total(down) \in Nat
  BY <1>4, <1>8, TotalOfNaturals DEF T
<1>10. Total(down) <= 100
  <2>1. \A a \in Nat \ {0} : \A b \in Nat : b >= 101 => a * b >= a * 101
    OBVIOUS
  <2>2. Total(down) >= 101 => T * Total(down) >= T * 101
    BY <1>2, <1>9, <2>1
  <2>3. T * 101 > 100 * T
    BY <1>2
  <2>4. T * Total(down) \in Int /\ T * 101 \in Int /\ 100 * T \in Int
    BY <1>2, <1>9
  <2> HIDE DEF T
  <2> QED
    BY <1>9, <2>2, <2>3, <2>4
<1>11. \A g \in AtmosphericGas : down[g] \in Nat /\ down[g] <= Total(down)
  BY <1>4, TotalOfNaturals
<1>12. Percentages(quantity, first) \in [AtmosphericGas -> 0..100]
  BY <1>4, <1>6, <1>9, <1>10, <1>11
<1>13. Total(Percentages(quantity, first)) = Total(down) + (100 - Total(down))
  <2>1. 100 - Total(down) \in Int
    BY <1>9
  <2>2. Total([down EXCEPT ![first] = down[first] + (100 - Total(down))])
            = Total(down) + (100 - Total(down))
    BY <1>4, <2>1, TotalOfOneMore, Zenon
  <2> QED
    BY <1>6, <2>2
<1>14. \A g \in AtmosphericGas : quantity[g] = 0 => Percentages(quantity, first)[g] = 0
  BY <1>4, <1>6, <1>7
<1> QED
  BY <1>9, <1>12, <1>13, <1>14

-----------------------------------------------------------------------------
(* The gases: while they are chosen they are few, of one window, and helium *)
(* is among them in the cold only; the window is gone through again only    *)
(* when nothing was found.                                                  *)
AirInv ==
    /\ AirTypeOK
    /\ air.at = "none" => Found = {}
    /\ air.at \in {"choosing", "chosen"} =>
          /\ air.wanted \in 1..4 /\ Cardinality(Found) <= air.wanted
          /\ Found \subseteq minGasIndex(air.tc)..maxGasIndex(air.tc)
          /\ GasHe \in Found => air.tc <= 5
    /\ air.at = "choosing" => air.i \in minGasIndex(air.tc)..(maxGasIndex(air.tc) + 1)
    /\ air.at = "chosen" =>
          /\ Total(percent) = 100 /\ Found # {}
          /\ \A g \in AtmosphericGas : percent[g] # 0 => g \in Found
    /\ air.at = "earth-like" =>
          Total(percent) = 100 /\ percent[GasN2] >= 10 /\ percent[GasO2] \in 11..30

LEMMA GasWindow ==
    \A tc \in 0..30 : /\ minGasIndex(tc) \in 1..9
                      /\ maxGasIndex(tc) = minGasIndex(tc) + 4
<1> SUFFICES ASSUME NEW tc \in 0..30 PROVE minGasIndex(tc) \in 1..9
  BY DEF maxGasIndex
<1>1. (100 * tc) \div 225 \in Int
  OBVIOUS
<1> QED
  BY <1>1 DEF minGasIndex

LEMMA GasesAreFinite ==
    \A S \in SUBSET AtmosphericGas : IsFiniteSet(S) /\ Cardinality(S) \in Nat
<1>1. IsFiniteSet(AtmosphericGas)
  <2>1. 1 \in Int /\ 13 \in Int
    OBVIOUS
  <2> QED
    BY <2>1, FS_Interval, Zenon DEF AtmosphericGas
<1> QED
  BY <1>1, FS_Subset, FS_CardinalityType

LEMMA FoundAreGases == Found \subseteq AtmosphericGas
BY DEF Found

LEMMA AirShape ==
    ASSUME AirTypeOK
    PROVE  /\ air.at \in {"none", "choosing", "chosen", "earth-like"}
           /\ air.tc \in 0..30 /\ air.wanted \in 0..4 /\ air.i \in 0..14
           /\ air.quantity \in [AtmosphericGas -> {0} \cup Quantities]
           /\ percent \in [AtmosphericGas -> 0..100]
           /\ IsFiniteSet(Found) /\ Cardinality(Found) \in Nat
BY GasesAreFinite, FoundAreGases DEF AirTypeOK

LEMMA NoGasIsThere ==
    /\ NoGas \in [AtmosphericGas -> {0}]
    /\ NoGas \in [AtmosphericGas -> {0} \cup Quantities] /\ NoGas \in [AtmosphericGas -> 0..100]
    /\ \A g \in AtmosphericGas : NoGas[g] = 0
BY DEF NoGas

LEMMA AirInitially == AirInit => AirInv
<1> SUFFICES ASSUME AirInit PROVE AirInv
  OBVIOUS
<1>1. /\ air.at = "none" /\ air.quantity = NoGas /\ percent = NoGas
      /\ air = NoAir
  BY DEF AirInit, NoAir
<1>2. AirTypeOK
  BY <1>1, NoGasIsThere DEF AirTypeOK, NoAir
<1>3. Found = {}
  BY <1>1, NoGasIsThere DEF Found
<1> QED
  BY <1>1, <1>2, <1>3 DEF AirInv

LEMMA StartGasesStep ==
    ASSUME AirInv, NEW tc \in 0..30, StartGases(tc)
    PROVE  AirInv' /\ air'.at = "choosing" /\ air.at = "none"
<1>1. PICK wanted \in 1..4 :
        /\ air.at = "none" /\ percent' = percent
        /\ air' = [air EXCEPT !.at = "choosing", !.tc = tc, !.wanted = wanted,
                              !.i = minGasIndex(tc)]
  BY DEF StartGases
<1>2. minGasIndex(tc) \in 1..9 /\ maxGasIndex(tc) = minGasIndex(tc) + 4
  BY GasWindow
<1>3. /\ air'.at = "choosing" /\ air'.tc = tc /\ air'.wanted = wanted
      /\ air'.i = minGasIndex(tc) /\ air'.quantity = air.quantity
  BY <1>1 DEF AirInv, AirTypeOK
<1>4. AirTypeOK'
  <2>1. wanted \in 0..4 /\ minGasIndex(tc) \in 0..14
    BY <1>2
  <2> QED
    BY <1>1, <2>1 DEF AirInv, AirTypeOK
<1>5. Found = {} /\ Found' = {}
  BY <1>1, <1>3 DEF AirInv, Found
<1>6. Cardinality(Found') = 0
  BY <1>5, FS_EmptySet
<1> QED
  BY <1>1, <1>2, <1>3, <1>4, <1>5, <1>6 DEF AirInv

(* What is the same for SkipGas, TakeGas and TryAgain: the loop is at i.     *)
LEMMA LoopStep ==
    ASSUME AirInv, air.at = "choosing", UNCHANGED percent,
           NEW i \in minGasIndex(air.tc)..(maxGasIndex(air.tc) + 1),
           NEW q \in [AtmosphericGas -> {0} \cup Quantities],
           air' = [air EXCEPT !.i = i, !.quantity = q],
           Cardinality(Found') <= air.wanted,
           Found' \subseteq minGasIndex(air.tc)..maxGasIndex(air.tc),
           GasHe \in Found' => air.tc <= 5
    PROVE  AirInv' /\ air'.at = "choosing"
<1>1. /\ air'.at = "choosing" /\ air'.tc = air.tc /\ air'.wanted = air.wanted
      /\ air'.i = i /\ air'.quantity = q
  BY DEF AirInv, AirTypeOK
<1>2. minGasIndex(air.tc) \in 1..9 /\ maxGasIndex(air.tc) = minGasIndex(air.tc) + 4
  BY AirShape, GasWindow DEF AirInv
<1>3. i \in 0..14
  BY <1>2
<1>4. AirTypeOK'
  BY <1>3 DEF AirInv, AirTypeOK
<1> QED
  BY <1>1, <1>2, <1>4 DEF AirInv

LEMMA ChooseStep ==
    ASSUME AirInv, ChooseGases
    PROVE  AirInv' /\ air.at = "choosing" /\ air'.at \in {"choosing", "chosen"}
<1>1. air.at = "choosing"
  BY DEF ChooseGases, SkipGas, TakeGas, TryAgain, NormalizeGases, AtGas
<1>2. /\ air.tc \in 0..30 /\ air.i \in 0..14
      /\ air.quantity \in [AtmosphericGas -> {0} \cup Quantities]
      /\ IsFiniteSet(Found) /\ Cardinality(Found) \in Nat
  BY AirShape DEF AirInv
<1>3. minGasIndex(air.tc) \in 1..9 /\ maxGasIndex(air.tc) = minGasIndex(air.tc) + 4
  BY <1>2, GasWindow
<1>4. /\ air.wanted \in 1..4 /\ Cardinality(Found) <= air.wanted
      /\ Found \subseteq minGasIndex(air.tc)..maxGasIndex(air.tc)
      /\ GasHe \in Found => air.tc <= 5
      /\ air.i \in minGasIndex(air.tc)..(maxGasIndex(air.tc) + 1)
  BY <1>1 DEF AirInv
<1>5. CASE SkipGas
  <2>1. air' = [air EXCEPT !.i = air.i + 1] /\ percent' = percent /\ air.i <= maxGasIndex(air.tc)
    BY <1>5 DEF SkipGas, AtGas
  <2>2. air' = [air EXCEPT !.i = air.i + 1, !.quantity = air.quantity]
    BY <2>1 DEF AirInv, AirTypeOK
  <2>3. air'.quantity = air.quantity
    BY <2>2 DEF AirInv, AirTypeOK
  <2>4. Found' = Found
    BY <2>3 DEF Found
  <2>5. air.i + 1 \in minGasIndex(air.tc)..(maxGasIndex(air.tc) + 1)
    BY <1>3, <1>4, <2>1
  <2> QED
    BY <1>1, <1>2, <1>4, <2>1, <2>2, <2>4, <2>5, LoopStep
<1>6. CASE TakeGas
  <2>1. PICK q \in Quantities : air' = [air EXCEPT !.i = @ + 1, !.quantity[air.i] = q]
    BY <1>6 DEF TakeGas
  <2>2. /\ percent' = percent /\ air.i <= maxGasIndex(air.tc)
        /\ Cardinality(Found) < air.wanted /\ (air.i = GasHe => air.tc <= 5)
    BY <1>6 DEF TakeGas, AtGas
  <2> DEFINE held == [air.quantity EXCEPT ![air.i] = q]
  <2>3. air.i \in AtmosphericGas /\ q # 0
    BY <1>3, <1>4, <2>2, QuantityAssumption DEF AtmosphericGas
  <2>4. held \in [AtmosphericGas -> {0} \cup Quantities]
    BY <1>2, <2>3
  <2>5. air' = [air EXCEPT !.i = air.i + 1, !.quantity = held]
    BY <2>1 DEF AirInv, AirTypeOK
  <2>6. \A g \in AtmosphericGas : held[g] # 0 <=> air.quantity[g] # 0 \/ g = air.i
    BY <1>2, <2>3
  <2> HIDE DEF held
  <2>7. air'.quantity = held
    BY <2>5 DEF AirInv, AirTypeOK
  <2>8. Found' = Found \cup {air.i}
    BY <2>3, <2>6, <2>7 DEF Found
  <2>9. Cardinality(Found') <= air.wanted
    <3>1. Cardinality(Found') <= Cardinality(Found) + 1
      BY <1>2, <2>8, FS_AddElement, SMTT(30)
    <3>2. Cardinality(Found') \in Nat
      BY <1>2, <2>8, FS_AddElement, FS_CardinalityType
    <3> QED
      BY <1>2, <1>4, <2>2, <3>1, <3>2
  <2>10. Found' \subseteq minGasIndex(air.tc)..maxGasIndex(air.tc)
    <3>1. air.i \in minGasIndex(air.tc)..maxGasIndex(air.tc)
      BY <1>3, <1>4, <2>2
    <3> QED
      BY <1>4, <2>8, <3>1
  <2>11. GasHe \in Found' => air.tc <= 5
    BY <1>4, <2>2, <2>8
  <2>12. air.i + 1 \in minGasIndex(air.tc)..(maxGasIndex(air.tc) + 1)
    BY <1>3, <1>4, <2>2
  <2> QED
    BY <1>1, <2>2, <2>4, <2>5, <2>9, <2>10, <2>11, <2>12, LoopStep
<1>7. CASE TryAgain
  <2>1. air' = [air EXCEPT !.i = minGasIndex(air.tc)] /\ percent' = percent
    BY <1>7 DEF TryAgain
  <2>2. air' = [air EXCEPT !.i = minGasIndex(air.tc), !.quantity = air.quantity]
    BY <2>1 DEF AirInv, AirTypeOK
  <2>3. air'.quantity = air.quantity
    BY <2>2 DEF AirInv, AirTypeOK
  <2>4. Found' = Found
    BY <2>3 DEF Found
  <2>5. minGasIndex(air.tc) \in minGasIndex(air.tc)..(maxGasIndex(air.tc) + 1)
    BY <1>3
  <2> QED
    BY <1>1, <1>2, <1>4, <2>1, <2>2, <2>4, <2>5, LoopStep
<1>8. CASE NormalizeGases
  <2>1. PICK first \in Found : percent' = Percentages(air.quantity, first)
    BY <1>8 DEF NormalizeGases
  <2>2. air' = [air EXCEPT !.at = "chosen"] /\ Found # {}
    BY <1>8 DEF NormalizeGases
  <2>3. /\ air'.at = "chosen" /\ air'.tc = air.tc /\ air'.wanted = air.wanted
        /\ air'.quantity = air.quantity
    BY <2>2 DEF AirInv, AirTypeOK
  <2>4. Found' = Found
    BY <2>3 DEF Found
  <2>5. air.quantity \in [AtmosphericGas -> Nat]
    <3>1. {0} \cup Quantities \subseteq Nat
      BY QuantityAssumption
    <3> QED
      BY <1>2, <3>1
  <2>6. first \in AtmosphericGas /\ air.quantity[first] # 0
    BY DEF Found
  <2>7. /\ percent' \in [AtmosphericGas -> 0..100] /\ Total(percent') = 100
        /\ \A g \in AtmosphericGas : air.quantity[g] = 0 => percent'[g] = 0
    BY <2>1, <2>5, <2>6, PercentagesAddUp
  <2>8. \A g \in AtmosphericGas : percent'[g] # 0 => g \in Found'
    BY <2>4, <2>7 DEF Found
  <2>9. AirTypeOK'
    BY <2>2, <2>7 DEF AirInv, AirTypeOK
  <2>10. AirInv'
    BY <1>4, <2>2, <2>3, <2>4, <2>7, <2>8, <2>9 DEF AirInv
  <2> QED
    BY <1>1, <2>3, <2>10
<1> QED
  BY <1>1, <1>5, <1>6, <1>7, <1>8 DEF ChooseGases

LEMMA EarthLikeStep ==
    ASSUME AirInv, buildEarthLikeAtmosphere
    PROVE  AirInv' /\ air.at = "none" /\ air'.at = "earth-like"
<1>1. PICK nh3, co2 \in {0} \cup (Quantities \cap 1..30), o2 \in Quantities \cap 1..20 :
        percent' = [NoGas EXCEPT ![GasNH3] = nh3, ![GasCO2] = co2, ![GasO2] = o2 + 10,
                                 ![GasN2] = 100 - (nh3 + co2 + o2 + 10)]
  BY DEF buildEarthLikeAtmosphere
<1>2. nh3 \in 0..30 /\ co2 \in 0..30 /\ o2 \in 1..20
  OBVIOUS
<1> DEFINE n2 == 100 - (nh3 + co2 + o2 + 10)
<1>3. n2 \in 10..100 /\ o2 + 10 \in 11..30
  BY <1>2
<1>4. /\ percent'[1] = 0 /\ percent'[2] = 0 /\ percent'[3] = 0
      /\ percent'[4] = nh3 /\ percent'[5] = n2 /\ percent'[6] = co2 /\ percent'[7] = o2 + 10
      /\ percent'[8] = 0 /\ percent'[9] = 0 /\ percent'[10] = 0 /\ percent'[11] = 0
      /\ percent'[12] = 0 /\ percent'[13] = 0
  BY <1>1 DEF NoGas, AtmosphericGas, GasNH3, GasCO2, GasO2, GasN2
<1>5. percent' \in [AtmosphericGas -> 0..100]
  <2>1. nh3 \in 0..100 /\ co2 \in 0..100 /\ o2 + 10 \in 0..100 /\ n2 \in 0..100
    BY <1>2, <1>3
  <2> QED
    BY <1>1, <2>1, NoGasIsThere
<1>6. Total(percent') = 100
  BY <1>2, <1>4 DEF Total
<1>7. /\ air' = [air EXCEPT !.at = "earth-like"] /\ air.at = "none"
      /\ air'.at = "earth-like"
  BY DEF buildEarthLikeAtmosphere, AirInv, AirTypeOK
<1>8. AirTypeOK'
  BY <1>5, <1>7 DEF AirInv, AirTypeOK
<1> QED
  BY <1>3, <1>4, <1>6, <1>7, <1>8 DEF AirInv, GasN2, GasO2

LEMMA AirIsWhole == AirInv => AtmosphereIsWhole
<1> SUFFICES ASSUME AirInv PROVE AtmosphereIsWhole
  OBVIOUS
<1> DEFINE gases == {g \in AtmosphericGas : percent[g] # 0}
<1>1. ASSUME air.at = "chosen"
      PROVE  /\ Cardinality(Found) \in 1..4 /\ gases \subseteq Found
             /\ \A g, h \in Found : g - h <= 4
             /\ GasHe \in gases => air.tc <= 5
  <2>1. /\ air.wanted \in 1..4 /\ Cardinality(Found) <= air.wanted /\ Found # {}
        /\ Found \subseteq minGasIndex(air.tc)..maxGasIndex(air.tc)
        /\ GasHe \in Found => air.tc <= 5
        /\ gases \subseteq Found
    BY <1>1 DEF AirInv
  <2>2. IsFiniteSet(Found) /\ Cardinality(Found) \in Nat /\ air.tc \in 0..30
    BY AirShape DEF AirInv
  <2>3. Cardinality(Found) # 0
    BY <2>1, <2>2, FS_EmptySet
  <2>4. minGasIndex(air.tc) \in 1..9 /\ maxGasIndex(air.tc) = minGasIndex(air.tc) + 4
    BY <2>2, GasWindow
  <2>5. \A g, h \in Found : g - h <= 4
    BY <2>1, <2>4
  <2> HIDE DEF gases
  <2>6. Cardinality(Found) \in 1..4
    BY <2>1, <2>2, <2>3
  <2> QED
    BY <2>1, <2>5, <2>6
<1>2. air.at \in {"chosen", "earth-like"} => Total(percent) = 100
  BY DEF AirInv
<1>3. air.at = "earth-like" => percent[GasN2] >= 10 /\ percent[GasO2] \in 11..30
  BY DEF AirInv
<1> QED
  BY <1>1, <1>2, <1>3 DEF AtmosphereIsWhole

-----------------------------------------------------------------------------
(* One planet: what the rolls for it can make.                              *)
LEMMA GravitiesAreInt ==
    ASSUME NEW diameter \in Int, NEW kind
    PROVE  Gravities(diameter, kind) \subseteq Int
<1>1. ASSUME NEW density \in Densities(kind) PROVE density * diameter \in Int
  <2>1. /\ \A x \in 60..170 : x \in Int
        /\ \A x \in 370..570 : x \in Int
    OBVIOUS
  <2>2. density \in 60..170 \/ density \in 370..570
    BY Zenon DEF Densities
  <2>3. density \in Int
    BY <2>1, <2>2
  <2> QED
    BY <2>3
<1>2. \A p \in Int : p \div 720 \in Int /\ p \div 720 - 1 \in Int
  OBVIOUS
<1>3. ASSUME NEW g \in Gravities(diameter, kind) PROVE g \in Int
  <2>1. PICK density \in Densities(kind) :
            LET p == density * diameter IN
            g \in {p \div 720} \cup IF p % 720 = 0 THEN {p \div 720 - 1} ELSE {}
    BY DEF Gravities
  <2> DEFINE p == density * diameter
  <2>2. p \in Int
    BY <1>1
  <2>3. g = p \div 720 \/ g = p \div 720 - 1
    BY <2>1
  <2> HIDE DEF p
  <2> QED
    BY <1>2, <2>2, <2>3
<1> QED
  BY <1>3

LEMMA PressuresClamped ==
    ASSUME NEW diameter \in Int, NEW kind
    PROVE  /\ Pressures(diameter, kind) \subseteq 0..29
           /\ kind = "gas giant" => Pressures(diameter, kind) \subseteq 11..29
<1> DEFINE least == IF kind = "gas giant" THEN 11 ELSE 0
           most == IF kind = "gas giant" THEN 29 ELSE 12
           rolled == UNION {UNION {Swayed(g, n) : n \in 3..9} : g \in Gravities(diameter, kind)}
<1>1. /\ least \in Int /\ most \in Int /\ least >= 0 /\ most <= 29 /\ most - 3 >= least
  OBVIOUS
<1>0. kind = "gas giant" => least = 11
  OBVIOUS
<1>2. rolled \subseteq Int
  <2>1. ASSUME NEW g \in Gravities(diameter, kind), NEW n \in 3..9
        PROVE  Swayed(g, n) \subseteq Int
    <3>1. g \in Int
      BY GravitiesAreInt
    <3> QED
      BY <3>1, SwayedIsInt
  <2> QED
    BY <2>1
<1>3. ASSUME NEW p \in Pressures(diameter, kind) PROVE p \in least..29
  <2>0. p \in UNION {LoweredTo(most, 3, v) : v \in UNION {RaisedTo(least, 3, w) : w \in rolled}}
    BY DEF Pressures
  <2> HIDE DEF least, most, rolled
  <2>1. PICK w \in rolled : \E v \in RaisedTo(least, 3, w) : p \in LoweredTo(most, 3, v)
    BY <2>0
  <2>2. PICK v \in RaisedTo(least, 3, w) : p \in LoweredTo(most, 3, v)
    BY <2>1
  <2>3. w \in Int
    BY <1>2
  <2>4. v \in Int /\ v >= least
    BY <1>1, <2>2, <2>3, Raised
  <2> QED
    BY <1>1, <2>2, <2>4, Lowered
<1> HIDE DEF least, most, rolled
<1>4. Pressures(diameter, kind) \subseteq 0..29
  BY <1>1, <1>3
<1> QED
  BY <1>0, <1>3, <1>4

(* Names for the ranges of a difficulty, and for a cluster, where the factor *)
(* has been applied to it.                                                   *)
Mds == 0..(500 * 11)
Fudgeds == (5 * 88)..(5 * 1100)

(* The retries for a mining difficulty can end: a factor of 0 fits always.  *)
LEMMA SomeDifficultyFits ==
    ASSUME NEW diameter \in 3..283
    PROVE  /\ MiningDifficulties(TRUE, diameter) # {}
           /\ MiningDifficulties(FALSE, diameter) # {}
<1>1. 1 \in 1..diameter /\ 30 - 0 * 1 = 30 /\ 40 - 0 * 1 = 40
  OBVIOUS
<1>2. 30 \in MiningDifficulties(TRUE, diameter)
  <2>1. 0 \in (-1)..8 /\ 30 \in 2..40 /\ 30 \in 30..1000
    OBVIOUS
  <2> QED
    BY <1>1, <2>1 DEF MiningDifficulties
<1>3. 40 \in MiningDifficulties(FALSE, diameter)
  <2>1. 0 \in (-2)..5 /\ 40 \in 2..60 /\ 40 \in 40..500
    OBVIOUS
  <2> QED
    BY <1>1, <2>1 DEF MiningDifficulties
<1> QED
  BY <1>2, <1>3

LEMMA FudgedIsBounded ==
    ASSUME NEW diameter
    PROVE  /\ \A md \in MiningDifficulties(TRUE, diameter) : Fudged(TRUE, md) \in Mds
           /\ \A md \in MiningDifficulties(FALSE, diameter) :
                 Fudged(FALSE, md) \in Mds /\ Fudged(FALSE, md) \in Fudgeds
<1>1. ASSUME NEW md \in MiningDifficulties(TRUE, diameter) PROVE Fudged(TRUE, md) \in Mds
  <2>1. md \in 30..1000
    BY DEF MiningDifficulties
  <2>2. Fudged(TRUE, md) = md
    BY DEF Fudged
  <2>3. \A x \in 30..1000 : x \in Mds
    BY DEF Mds
  <2> QED
    BY <2>1, <2>2, <2>3, ZenonT(60)
<1>2. ASSUME NEW md \in MiningDifficulties(FALSE, diameter)
      PROVE  Fudged(FALSE, md) \in Mds /\ Fudged(FALSE, md) \in Fudgeds
  <2>1. md \in 40..500
    BY DEF MiningDifficulties
  <2>2. Fudged(FALSE, md) = 11 * md
    BY DEF Fudged
  <2>3. \A x \in 40..500 : 11 * x \in Mds /\ 11 * x \in Fudgeds
    BY DEF Mds, Fudgeds
  <2> QED
    BY <2>1, <2>2, <2>3
<1> QED
  BY <1>1, <1>2

(* The tables of the deposits.                                              *)
Ore == [resource : Resource, quantity : 0..1980, yield : 0..100]

IsHard(md) == md >= 5 * 500

Sound(d, md) ==
    d \in Ore /\ Plenty(d) /\ (Positive(d) \/ (d.resource = "gold" /\ ~IsHard(md)))

LEMMA Quantity ==
    /\ triangularQuantity(10, 99) \subseteq 2..1980
    /\ triangularQuantity(1, 10) \subseteq 2..1980
BY DEF triangularQuantity

LEMMA OresAreSound ==
    ASSUME NEW md \in Int, NEW r \in Resource, NEW Q, NEW Y,
           \A q \in Q : q \in 2..1980,
           \A y \in Y : y \in 0..100 /\ (y # 0 \/ (r = "gold" /\ ~IsHard(md))),
           NEW d \in Ores(r, Q, Y)
    PROVE  Sound(d, md)
<1>1. d = [resource |-> d.resource, quantity |-> d.quantity, yield |-> d.yield]
  BY DEF Ores
<1>2. d.resource = r /\ d.quantity \in Q /\ d.yield \in Y
  BY DEF Ores
<1>3. d.quantity \in 2..1980 /\ d.yield \in 0..100 /\ d.resource \in Resource
  BY <1>2
<1>4. d.quantity \in 0..1980
  BY <1>3
<1>5. d \in Ore
  BY <1>1, <1>3, <1>4 DEF Ore
<1>6. d.yield # 0 \/ (d.resource = "gold" /\ ~IsHard(md))
  BY <1>2
<1>7. d.yield # 0 => d.yield \in 1..100
  BY <1>3
<1> QED
  BY <1>3, <1>5, <1>6, <1>7 DEF Sound, Positive, Plenty

LEMMA TablesAreSound ==
    ASSUME NEW md \in Int, NEW d, d \in gasGiantDeposits \/ d \in rockyDeposits(IsHard(md))
    PROVE  Sound(d, md)
<1> DEFINE big == triangularQuantity(10, 99)  small == triangularQuantity(1, 10)
<1>1. \A q \in big : q \in 2..1980
  BY Quantity
<1>2. \A q \in small : q \in 2..1980
  BY Quantity
<1> HIDE DEF big, small
<1>3. ASSUME NEW r \in {"fuel", "gold", "metal", "non-metal"}, NEW Q \in {big, small}, NEW Y,
             \A y \in Y : y \in 1..100, d \in Ores(r, Q, Y)
      PROVE  Sound(d, md)
  <2>1. r \in Resource
    BY DEF Resource
  <2>2. \A q \in Q : q \in 2..1980
    BY <1>1, <1>2
  <2>3. \A y \in Y : y \in 0..100 /\ (y # 0 \/ (r = "gold" /\ ~IsHard(md)))
    BY <1>3
  <2> QED
    BY <1>3, <2>1, <2>2, <2>3, OresAreSound, SMTT(30)
<1>4. CASE d \in gasGiantDeposits
  <2>1. \/ d \in Ores("fuel", big, 8..38)
        \/ \E r \in {"metal", "non-metal"} : d \in Ores(r, big, 10..60)
    BY <1>4 DEF gasGiantDeposits, big
  <2>2. /\ \A y \in 8..38 : y \in 1..100
        /\ \A y \in 10..60 : y \in 1..100
    OBVIOUS
  <2> QED
    BY <1>3, <2>1, <2>2
<1>5. CASE d \in rockyDeposits(IsHard(md))
  <2>1. \/ d \in Ores("gold", small, IF IsHard(md) THEN 1..3 ELSE 0..9)
        \/ d \in Ores("fuel", big, IF IsHard(md) THEN 8..38 ELSE 10..80)
        \/ \E r \in {"metal", "non-metal"} : d \in Ores(r, big, IF IsHard(md) THEN 10..60 ELSE 10..80)
    BY <1>5 DEF rockyDeposits, big, small
  <2>2. CASE d \in Ores("gold", small, IF IsHard(md) THEN 1..3 ELSE 0..9)
    <3>1. CASE IsHard(md)
      <4>1. \A y \in 1..3 : y \in 1..100
        OBVIOUS
      <4> QED
        BY <1>3, <2>2, <3>1, <4>1
    <3>2. CASE ~IsHard(md)
      <4>1. d \in Ores("gold", small, 0..9) /\ "gold" \in Resource
        BY <2>2, <3>2 DEF Resource
      <4>2. \A y \in 0..9 : y \in 0..100 /\ (y # 0 \/ ("gold" = "gold" /\ ~IsHard(md)))
        BY <3>2
      <4> QED
        BY <1>2, <4>1, <4>2, OresAreSound, SMTT(30)
    <3> QED
      BY <3>1, <3>2
  <2>3. ASSUME NEW r \in {"fuel", "metal", "non-metal"}, NEW Y \in {8..38, 10..60, 10..80},
               d \in Ores(r, big, Y)
        PROVE  Sound(d, md)
    <3>1. \A y \in Y : y \in 1..100
      BY <2>3
    <3> QED
      BY <1>3, <2>3, <3>1
  <2> QED
    BY <2>1, <2>2, <2>3
<1> QED
  BY <1>4, <1>5

(* The divisor of the score is positive: what oxygen takes off the number   *)
(* was added to it before.                                                  *)
LEMMA LifeSupportIsNatural ==
    ASSUME NEW c, NEW h, c.tc \in Int, h.tc \in Int, c.pressure \in Int, h.pressure \in Int,
           c.gases \subseteq AtmosphericGas
    PROVE  approximateLSN(c, h) \in Nat
<1>1. c.gases \ h.gases \in SUBSET AtmosphericGas
  OBVIOUS
<1>2. Cardinality(c.gases \ h.gases) \in Nat
  BY <1>1, GasesAreFinite
<1>3. /\ c.tc - h.tc \in Int /\ c.pressure - h.pressure \in Int
  OBVIOUS
<1>4. \A x \in Int : absInt(x) \in Nat
  BY DEF absInt
<1>5. absInt(c.tc - h.tc) \in Nat /\ absInt(c.pressure - h.pressure) \in Nat
  BY <1>3, <1>4
<1> QED
  BY <1>2, <1>5 DEF approximateLSN

LEMMA ContributionIsSmall ==
    \A l \in Nat : 20000 \div ((3 + l) * (50 + 30)) \in 0..83
<1> SUFFICES ASSUME NEW l \in Nat PROVE 20000 \div ((3 + l) * (50 + 30)) \in 0..83
  OBVIOUS
<1> DEFINE d == (3 + l) * 80
<1>1. d \in Nat \ {0} /\ d >= 240 /\ (3 + l) * (50 + 30) = d
  OBVIOUS
<1> HIDE DEF d
<1>2. 20000 \div d \in Nat /\ d * (20000 \div d) <= 20000
  BY <1>1, DivisionRoundsDown
<1>3. \A a, b \in Nat : a >= 240 /\ b >= 84 => a * b >= 240 * 84
  OBVIOUS
<1>4. ~(20000 \div d >= 84)
  BY <1>1, <1>2, <1>3
<1> QED
  BY <1>1, <1>2, <1>4

LEMMA HomeWorldScores ==
    \A md \in 210..230 : 20000 \div ((3 + 0) * (50 + md)) \in 23..25
<1> SUFFICES ASSUME NEW md \in 210..230 PROVE 20000 \div (3 * (50 + md)) \in 23..25
  OBVIOUS
<1> DEFINE d == 3 * (50 + md)
<1>1. d \in 780..840
  OBVIOUS
<1> HIDE DEF d
<1>2. \A e \in 780..840 : 20000 \div e \in Nat /\ e * (20000 \div e) <= 20000 /\ 20000 < e * (20000 \div e) + e
  OBVIOUS
<1> DEFINE q == 20000 \div d
<1>3. q \in Nat /\ d * q <= 20000 /\ 20000 < d * q + d
  BY <1>1, <1>2
<1> HIDE DEF q
<1>4. q < 26
  <2>1. q >= 26 => d * q >= 780 * 26
    BY <1>1, <1>3
  <2> QED
    BY <1>1, <1>3, <2>1
<1>5. q > 22
  <2>1. q <= 22 => d * q + d <= 840 * 22 + 840
    BY <1>1, <1>3
  <2> QED
    BY <1>1, <1>3, <2>1
<1> QED
  BY <1>3, <1>4, <1>5 DEF q, d

(* How far the planet is, and what that says of its gases; what a planet has *)
(* while it is rolled; what the deposit is.                                  *)
Stage(g, a) ==
    /\ g.at \in {"none", "sized", "pressed", "mined"} => a = "none"
    /\ a \in {"choosing", "chosen"} => g.at = "breathing"
    /\ a = "earth-like" => g.at = "done" /\ g.md \in 210..230
Body(g) == g.at \in {"sized", "pressed"} => g.diameter \in 3..283 /\ g.tc \in 1..30
Pressed(g) == g.at = "pressed" /\ planetKind(g.diameter) = "gas giant" =>
                 (g.pressure \in 11..29 \/ Airless(g.template, g.tc))
Mined(g) == g.at = "mined" => g.md \in Fudgeds
Dug(g) == g.deposit # NoDeposit => g.at = "done" /\ Sound(g.deposit, g.md)

GroundInv ==
    /\ SurfaceTypeOK
    /\ Stage(ground, air.at)
    /\ Body(ground)
    /\ Pressed(ground)
    /\ Mined(ground)
    /\ Dug(ground)

SurfaceInv == AirInv /\ GroundInv

Ground == [at : {"none", "sized", "pressed", "breathing", "mined", "done"},
           template : BOOLEAN, diameter : 0..283, tc : 0..30,
           pressure : 0..29, md : Mds, deposit : Ore]

(* A record stays in its set when a field is given a value of that field.    *)
LEMMA Fields ==
    ASSUME NEW A, NEW T, NEW D, NEW C, NEW P, NEW M, NEW O,
           NEW g \in [at : A, template : T, diameter : D, tc : C, pressure : P, md : M, deposit : O]
    PROVE  /\ g.at \in A /\ g.template \in T /\ g.diameter \in D /\ g.tc \in C
           /\ g.pressure \in P /\ g.md \in M /\ g.deposit \in O
           /\ DOMAIN g = {"at", "template", "diameter", "tc", "pressure", "md", "deposit"}
OBVIOUS

LEMMA Edits ==
    ASSUME NEW A, NEW T, NEW D, NEW C, NEW P, NEW M, NEW O, NEW R,
           R = [at : A, template : T, diameter : D, tc : C, pressure : P, md : M, deposit : O],
           NEW g \in R
    PROVE  /\ \A x \in A : [g EXCEPT !.at = x] \in R
           /\ \A x \in T : [g EXCEPT !.template = x] \in R
           /\ \A x \in D : [g EXCEPT !.diameter = x] \in R
           /\ \A x \in C : [g EXCEPT !.tc = x] \in R
           /\ \A x \in P : [g EXCEPT !.pressure = x] \in R
           /\ \A x \in M : [g EXCEPT !.md = x] \in R
           /\ \A x \in O : [g EXCEPT !.deposit = x] \in R
OBVIOUS

LEMMA MdsAreInt == \A x \in Mds : x \in Int
BY DEF Mds

LEMMA GroundFields ==
    ASSUME NEW g \in Ground
    PROVE  /\ g.at \in {"none", "sized", "pressed", "breathing", "mined", "done"}
           /\ g.template \in BOOLEAN /\ g.diameter \in 0..283 /\ g.tc \in 0..30
           /\ g.pressure \in 0..29 /\ g.md \in Mds /\ g.deposit \in Ore
BY Fields, Zenon DEF Ground

LEMMA GroundEdits ==
    ASSUME NEW g \in Ground
    PROVE  /\ \A x \in {"none", "sized", "pressed", "breathing", "mined", "done"} :
                 [g EXCEPT !.at = x] \in Ground
           /\ \A x \in BOOLEAN : [g EXCEPT !.template = x] \in Ground
           /\ \A x \in 0..283 : [g EXCEPT !.diameter = x] \in Ground
           /\ \A x \in 0..30 : [g EXCEPT !.tc = x] \in Ground
           /\ \A x \in 0..29 : [g EXCEPT !.pressure = x] \in Ground
           /\ \A x \in Mds : [g EXCEPT !.md = x] \in Ground
           /\ \A x \in Ore : [g EXCEPT !.deposit = x] \in Ground
<1> DEFINE A == {"none", "sized", "pressed", "breathing", "mined", "done"}
           T == BOOLEAN
           D == 0..283
           C == 0..30
           P == 0..29
           M == Mds
<1>1. Ground = [at : A, template : T, diameter : D, tc : C, pressure : P, md : M,
                deposit : Ore]
  BY DEF Ground
<1> HIDE DEF A, T, D, C, P, M
<1>2. /\ \A x \in A : [g EXCEPT !.at = x] \in Ground
      /\ \A x \in T : [g EXCEPT !.template = x] \in Ground
      /\ \A x \in D : [g EXCEPT !.diameter = x] \in Ground
      /\ \A x \in C : [g EXCEPT !.tc = x] \in Ground
      /\ \A x \in P : [g EXCEPT !.pressure = x] \in Ground
      /\ \A x \in M : [g EXCEPT !.md = x] \in Ground
      /\ \A x \in Ore : [g EXCEPT !.deposit = x] \in Ground
  BY <1>1, Edits, Zenon
<1> QED
  BY <1>2, Zenon DEF A, T, D, C, P, M
LEMMA GroundTyped == SurfaceTypeOK <=> AirTypeOK /\ ground \in Ground
BY Zenon DEF SurfaceTypeOK, Ground, Mds, Ore

LEMMA GroundTypedNext == SurfaceTypeOK' <=> AirTypeOK' /\ ground' \in Ground
BY Zenon DEF SurfaceTypeOK, Ground, Mds, Ore

(* What a step has to show.                                                  *)
LEMMA Packed ==
    ASSUME AirInv', ground' \in Ground, Stage(ground', air'.at), Body(ground'),
           Pressed(ground'), Mined(ground'), Dug(ground')
    PROVE  SurfaceInv'
<1>1. SurfaceTypeOK'
  BY GroundTypedNext DEF AirInv
<1> QED
  BY <1>1 DEF SurfaceInv, GroundInv

LEMMA Unpacked ==
    ASSUME SurfaceInv
    PROVE  /\ AirInv /\ ground \in Ground /\ Stage(ground, air.at) /\ Body(ground)
           /\ Pressed(ground) /\ Mined(ground) /\ Dug(ground)
<1>1. SurfaceTypeOK /\ AirInv
  BY DEF SurfaceInv, GroundInv
<1> QED
  BY <1>1, GroundTyped DEF SurfaceInv, GroundInv

(* Before there is a deposit, four of the parts say nothing.                 *)
LEMMA NotYet ==
    ASSUME NEW g, g.deposit = NoDeposit
    PROVE  /\ Dug(g)
           /\ g.at # "pressed" => Pressed(g)
           /\ g.at # "mined" => Mined(g)
           /\ g.at \notin {"sized", "pressed"} => Body(g)
BY Zenon DEF Dug, Pressed, Mined, Body

LEMMA NoneDug ==
    ASSUME NEW g, Dug(g), g.at # "done" PROVE g.deposit = NoDeposit
BY Zenon DEF Dug

LEMMA SameAir == AirInv /\ UNCHANGED airVars => AirInv' /\ air' = air
BY DEF AirInv, AirTypeOK, Found, airVars

LEMMA NoGroundShape ==
    /\ NoGround \in Ground /\ NoGround.at = "none" /\ NoGround.deposit = NoDeposit
    /\ NoGround.diameter = 0
<1>1. NoDeposit \in Ore
  <2>1. 0 \in 0..1980 /\ 0 \in 0..100
    OBVIOUS
  <2> QED
    BY <2>1 DEF NoDeposit, Ore, Resource
<1>2. /\ 0 \in 0..283 /\ 0 \in 0..30 /\ 0 \in 0..29 /\ 0 \in Mds
  BY DEF Mds
<1> QED
  BY <1>1, <1>2 DEF NoGround, Ground

LEMMA SurfaceInitially == SurfaceInit => SurfaceInv
<1> SUFFICES ASSUME SurfaceInit PROVE SurfaceInv
  OBVIOUS
<1>1. AirInv /\ ground = NoGround /\ air.at = "none"
  BY AirInitially DEF SurfaceInit, AirInit, NoAir
<1>2. SurfaceTypeOK
  BY <1>1, NoGroundShape, GroundTyped DEF AirInv
<1>3. Dug(ground) /\ Pressed(ground) /\ Mined(ground) /\ Body(ground)
  BY <1>1, NoGroundShape, NotYet
<1>4. Stage(ground, air.at)
  BY <1>1, NoGroundShape DEF Stage
<1> QED
  BY <1>1, <1>2, <1>3, <1>4 DEF SurfaceInv, GroundInv

LEMMA RollBodyStep == SurfaceInv /\ RollBody => SurfaceInv'
<1> SUFFICES ASSUME SurfaceInv, RollBody PROVE SurfaceInv'
  OBVIOUS
<1>1. PICK b \in Bodies, template \in BOOLEAN :
        ground' = [ground EXCEPT !.at = "sized", !.template = template,
                                 !.diameter = b[1], !.tc = b[2]]
  BY DEF RollBody
<1>2. ground.at = "none" /\ UNCHANGED airVars
  BY DEF RollBody
<1>3. b[1] \in 3..283 /\ b[2] \in 1..30
  BY BodyAssumption
<1>4. b[1] \in 0..283 /\ b[2] \in 0..30
  BY <1>3
<1>5. /\ ground \in Ground /\ AirInv /\ Stage(ground, air.at) /\ ground.deposit = NoDeposit
  BY <1>2, Unpacked, NoneDug
<1>6. /\ ground'.at = "sized" /\ ground'.diameter = b[1] /\ ground'.tc = b[2]
      /\ ground'.deposit = ground.deposit
  BY <1>1, <1>5 DEF Ground
<1>7. ground' \in Ground
  <2>1. [ground EXCEPT !.at = "sized"] \in Ground
    BY <1>5, GroundEdits, Zenon
  <2>2. [ground EXCEPT !.at = "sized", !.template = template] \in Ground
    BY <2>1, GroundEdits, Zenon
  <2>3. [ground EXCEPT !.at = "sized", !.template = template, !.diameter = b[1]] \in Ground
    BY <1>4, <2>2, GroundEdits, Zenon
  <2> QED
    BY <1>1, <1>4, <2>3, GroundEdits, Zenon
<1>8. AirInv' /\ air' = air
  BY <1>2, <1>5, SameAir
<1>9. air.at = "none"
  BY <1>2, <1>5 DEF Stage
<1>10. Stage(ground', air'.at)
  BY <1>6, <1>8, <1>9 DEF Stage
<1>11. Body(ground')
  BY <1>3, <1>6 DEF Body
<1>12. Dug(ground') /\ Pressed(ground') /\ Mined(ground')
  BY <1>5, <1>6, NotYet
<1> QED
  BY <1>7, <1>8, <1>10, <1>11, <1>12, Packed

LEMMA RollPressureStep == SurfaceInv /\ RollPressure => SurfaceInv'
<1> SUFFICES ASSUME SurfaceInv, RollPressure PROVE SurfaceInv'
  OBVIOUS
<1> DEFINE kind == planetKind(ground.diameter)
           airless == Airless(ground.template, ground.tc)
<1>1. PICK p \in Pressures(ground.diameter, kind) :
        ground' = [ground EXCEPT !.at = "pressed", !.pressure = IF airless THEN 0 ELSE p]
  BY DEF RollPressure
<1>2. ground.at = "sized" /\ UNCHANGED airVars
  BY DEF RollPressure
<1>3. /\ ground \in Ground /\ AirInv /\ Stage(ground, air.at) /\ ground.deposit = NoDeposit
      /\ Body(ground)
  BY <1>2, Unpacked, NoneDug
<1>4. ground.diameter \in 3..283 /\ ground.tc \in 1..30
  BY <1>2, <1>3 DEF Body
<1>5. ground.diameter \in Int
  BY <1>4
<1>6. p \in 0..29 /\ (kind = "gas giant" => p \in 11..29)
  <2> HIDE DEF kind
  <2> QED
    BY <1>5, PressuresClamped
<1>7. PICK q : /\ ground' = [ground EXCEPT !.at = "pressed", !.pressure = q]
               /\ q = p \/ (q = 0 /\ airless)
  <2> HIDE DEF airless, kind
  <2>1. CASE airless
    BY <1>1, <2>1
  <2>2. CASE ~airless
    BY <1>1, <2>2
  <2> QED
    BY <2>1, <2>2
<1>8. q \in 0..29
  <2>1. 0 \in 0..29
    OBVIOUS
  <2> QED
    BY <1>6, <1>7, <2>1, Zenon
<1>9. kind = "gas giant" => (q \in 11..29 \/ airless)
  BY <1>6, <1>7, Zenon
<1>10. /\ ground'.at = "pressed" /\ ground'.pressure = q /\ ground'.diameter = ground.diameter
       /\ ground'.tc = ground.tc /\ ground'.deposit = ground.deposit
       /\ ground'.template = ground.template
  BY <1>3, <1>7, Zenon DEF Ground
<1>11. ground' \in Ground
  <2>1. [ground EXCEPT !.at = "pressed"] \in Ground
    BY <1>3, GroundEdits, Zenon
  <2> QED
    BY <1>7, <1>8, <2>1, GroundEdits, Zenon
<1>12. AirInv' /\ air' = air
  BY <1>2, <1>3, SameAir
<1>13. air.at = "none"
  BY <1>2, <1>3 DEF Stage
<1>14. Stage(ground', air'.at)
  BY <1>10, <1>12, <1>13 DEF Stage
<1>15. Body(ground')
  BY <1>4, <1>10 DEF Body
<1>16. Pressed(ground')
  BY <1>9, <1>10, Zenon DEF Pressed
<1>17. Dug(ground') /\ Mined(ground')
  BY <1>3, <1>10, NotYet
<1> QED
  BY <1>11, <1>12, <1>14, <1>15, <1>16, <1>17, Packed

LEMMA BreatheStep == SurfaceInv /\ Breathe => SurfaceInv'
<1> SUFFICES ASSUME SurfaceInv, Breathe PROVE SurfaceInv'
  OBVIOUS
<1>1. /\ ground.at = "pressed" /\ StartGases(ground.tc)
      /\ ground' = [NoGround EXCEPT !.at = "breathing", !.template = ground.template,
                                    !.tc = ground.tc, !.pressure = ground.pressure]
  BY DEF Breathe
<1>2. /\ ground \in Ground /\ AirInv /\ ground.deposit = NoDeposit
  BY <1>1, Unpacked, NoneDug
<1>3. /\ ground.template \in BOOLEAN /\ ground.tc \in 0..30 /\ ground.pressure \in 0..29
  BY <1>2, GroundFields, ZenonT(60)
<1>4. /\ ground'.at = "breathing" /\ ground'.deposit = NoDeposit
  BY <1>1, NoGroundShape DEF Ground
<1>5. ground' \in Ground
  <2>1. [NoGround EXCEPT !.at = "breathing"] \in Ground
    BY NoGroundShape, GroundEdits, Zenon
  <2>2. [NoGround EXCEPT !.at = "breathing", !.template = ground.template] \in Ground
    BY <1>3, <2>1, GroundEdits, Zenon
  <2>3. [NoGround EXCEPT !.at = "breathing", !.template = ground.template,
                         !.tc = ground.tc] \in Ground
    BY <1>3, <2>2, GroundEdits, Zenon
  <2> QED
    BY <1>1, <1>3, <2>3, GroundEdits, Zenon
<1>6. AirInv' /\ air'.at = "choosing"
  BY <1>1, <1>2, <1>3, StartGasesStep
<1>7. Stage(ground', air'.at)
  BY <1>4, <1>6 DEF Stage
<1>8. Dug(ground') /\ Pressed(ground') /\ Mined(ground') /\ Body(ground')
  BY <1>4, NotYet
<1> QED
  BY <1>5, <1>6, <1>7, <1>8, Packed

LEMMA BreathingStep ==
    SurfaceInv /\ ground.at = "breathing" /\ ChooseGases /\ UNCHANGED ground => SurfaceInv'
<1> SUFFICES ASSUME SurfaceInv, ground.at = "breathing", ChooseGases, UNCHANGED ground
             PROVE  SurfaceInv'
  OBVIOUS
<1>1. /\ ground \in Ground /\ AirInv /\ ground.deposit = NoDeposit
  BY Unpacked, NoneDug
<1>2. AirInv' /\ air'.at \in {"choosing", "chosen"}
  BY <1>1, ChooseStep
<1>3. Stage(ground', air'.at)
  BY <1>2 DEF Stage
<1>4. Dug(ground') /\ Pressed(ground') /\ Mined(ground') /\ Body(ground')
  BY <1>1, NotYet
<1> QED
  BY <1>1, <1>2, <1>3, <1>4, Packed

LEMMA RollHomeWorldStep == SurfaceInv /\ RollHomeWorld => SurfaceInv'
<1> SUFFICES ASSUME SurfaceInv, RollHomeWorld PROVE SurfaceInv'
  OBVIOUS
<1>1. PICK tc \in 10..12, p \in 9..11, md \in 210..230 :
        ground' = [ground EXCEPT !.at = "done", !.template = TRUE, !.diameter = 12,
                                 !.tc = tc, !.pressure = p, !.md = md]
  BY DEF RollHomeWorld
<1>2. ground.at = "none" /\ buildEarthLikeAtmosphere
  BY DEF RollHomeWorld
<1>3. ground \in Ground /\ AirInv /\ ground.deposit = NoDeposit
  BY <1>2, Unpacked, NoneDug
<1>4. tc \in 0..30 /\ p \in 0..29 /\ md \in Mds /\ 12 \in 0..283
  BY DEF Mds
<1>5. /\ ground'.at = "done" /\ ground'.md = md /\ ground'.deposit = ground.deposit
  BY <1>1, <1>3 DEF Ground
<1>6. ground' \in Ground
  <2>1. [ground EXCEPT !.at = "done"] \in Ground
    BY <1>3, GroundEdits, Zenon
  <2>2. [ground EXCEPT !.at = "done", !.template = TRUE] \in Ground
    BY <2>1, GroundEdits, Zenon
  <2>3. [ground EXCEPT !.at = "done", !.template = TRUE, !.diameter = 12] \in Ground
    BY <1>4, <2>2, GroundEdits, Zenon
  <2>4. [ground EXCEPT !.at = "done", !.template = TRUE, !.diameter = 12, !.tc = tc] \in Ground
    BY <1>4, <2>3, GroundEdits, Zenon
  <2>5. [ground EXCEPT !.at = "done", !.template = TRUE, !.diameter = 12, !.tc = tc,
                       !.pressure = p] \in Ground
    BY <1>4, <2>4, GroundEdits, Zenon
  <2> QED
    BY <1>1, <1>4, <2>5, GroundEdits, Zenon
<1>7. AirInv' /\ air'.at = "earth-like"
  BY <1>2, <1>3, EarthLikeStep
<1>8. Stage(ground', air'.at)
  BY <1>5, <1>7 DEF Stage
<1>9. Dug(ground') /\ Pressed(ground') /\ Mined(ground') /\ Body(ground')
  BY <1>3, <1>5, NotYet
<1> QED
  BY <1>6, <1>7, <1>8, <1>9, Packed

LEMMA RollMiningDifficultyStep == SurfaceInv /\ RollMiningDifficulty => SurfaceInv'
<1> SUFFICES ASSUME SurfaceInv, RollMiningDifficulty PROVE SurfaceInv'
  OBVIOUS
<1>1. PICK md \in MiningDifficulties(ground.template, ground.diameter) :
        ground' = [NoGround EXCEPT !.at = IF ground.template THEN "done" ELSE "mined",
                                   !.template = ground.template,
                                   !.diameter = IF ground.diameter > 40 THEN 41 ELSE 3,
                                   !.md = Fudged(ground.template, md)]
  BY DEF RollMiningDifficulty
<1>2. ground.at = "pressed" /\ UNCHANGED airVars
  BY DEF RollMiningDifficulty
<1>3. /\ ground \in Ground /\ AirInv /\ Stage(ground, air.at) /\ Body(ground)
  BY <1>2, Unpacked
<1>4. ground.diameter \in 3..283 /\ air.at = "none"
  BY <1>2, <1>3 DEF Body, Stage
<1>5. ground.template \in BOOLEAN
  BY <1>3, Zenon DEF Ground
<1> DEFINE template == ground.template
           at == IF template THEN "done" ELSE "mined"
           size == IF ground.diameter > 40 THEN 41 ELSE 3
           total == Fudged(template, md)
<1>6. /\ total \in Mds
      /\ ~template => total \in Fudgeds
  <2> DEFINE t == template
  <2>1. md \in MiningDifficulties(t, ground.diameter) /\ total = Fudged(t, md)
    OBVIOUS
  <2>2. t = TRUE \/ t = FALSE
    BY <1>5, Zenon
  <2>5. ground.diameter \in 3..283
    BY <1>4
  <2> HIDE DEF t, total
  <2>3. CASE t = TRUE
    <3>1. total \in Mds
      BY <2>1, <2>3, <2>5, FudgedIsBounded
    <3> QED
      BY <2>3, <3>1, Zenon DEF t
  <2>4. CASE t = FALSE
    <3>1. total \in Mds /\ total \in Fudgeds
      BY <2>1, <2>4, <2>5, FudgedIsBounded
    <3> QED
      BY <3>1, Zenon
  <2> QED
    BY <2>2, <2>3, <2>4, Zenon
<1>7. size \in 0..283
  OBVIOUS
<1>8. ground' = [NoGround EXCEPT !.at = at, !.template = template, !.diameter = size,
                                 !.md = total]
  BY <1>1
<1> HIDE DEF size, total, template
<1>9. at \in {"done", "mined"} /\ (at = "mined" => ~template)
  BY <1>5 DEF template
<1> HIDE DEF at
<1>10. at = "mined" => total \in Fudgeds
  BY <1>6, <1>9, Zenon
<1>11. template \in BOOLEAN
  BY <1>5 DEF template
<1>12. /\ ground'.at = at /\ ground'.md = total /\ ground'.deposit = NoDeposit
  BY <1>8, NoGroundShape DEF Ground
<1>13. ground' \in Ground
  <2>1. [NoGround EXCEPT !.at = at] \in Ground
    BY <1>9, NoGroundShape, GroundEdits, Zenon
  <2>2. [NoGround EXCEPT !.at = at, !.template = template] \in Ground
    BY <1>11, <2>1, GroundEdits, Zenon
  <2>3. [NoGround EXCEPT !.at = at, !.template = template, !.diameter = size] \in Ground
    BY <1>7, <2>2, GroundEdits, Zenon
  <2> QED
    BY <1>6, <1>8, <2>3, GroundEdits, Zenon
<1>14. AirInv' /\ air' = air
  BY <1>2, <1>3, SameAir
<1>15. Stage(ground', air'.at)
  BY <1>4, <1>14 DEF Stage
<1>16. Mined(ground')
  BY <1>10, <1>12 DEF Mined
<1>17. Dug(ground') /\ Pressed(ground') /\ Body(ground')
  <2>1. ground'.at # "pressed" /\ ground'.at \notin {"sized", "pressed"}
    BY <1>9, <1>12
  <2> QED
    BY <1>12, <2>1, NotYet
<1> QED
  BY <1>13, <1>14, <1>15, <1>16, <1>17, Packed

LEMMA RollDepositStep == SurfaceInv /\ RollDeposit => SurfaceInv'
<1> SUFFICES ASSUME SurfaceInv, RollDeposit PROVE SurfaceInv'
  OBVIOUS
<1>1. PICK d : /\ d \in gasGiantDeposits \/ d \in rockyDeposits(Hard)
               /\ ground' = [ground EXCEPT !.at = "done", !.deposit = d,
                                           !.md = IF Hard THEN 5 * 500 ELSE 5 * 88]
  <2>1. PICK d \in IF planetKind(ground.diameter) = "gas giant" THEN gasGiantDeposits
                                                              ELSE rockyDeposits(Hard) :
               ground' = [ground EXCEPT !.at = "done", !.deposit = d,
                                        !.md = IF Hard THEN 5 * 500 ELSE 5 * 88]
    BY Zenon DEF RollDeposit
  <2>2. d \in gasGiantDeposits \/ d \in rockyDeposits(Hard)
    BY <2>1, Zenon
  <2> QED
    BY <2>1, <2>2, Zenon
<1>2. ground.at = "mined" /\ UNCHANGED airVars
  BY Zenon DEF RollDeposit
<1>3. /\ ground \in Ground /\ AirInv /\ Stage(ground, air.at)
  BY <1>2, Unpacked
<1>4. air.at = "none"
  BY <1>2, <1>3 DEF Stage
<1>5. PICK md \in Mds :
        /\ ground' = [ground EXCEPT !.at = "done", !.deposit = d, !.md = md]
        /\ IsHard(md) <=> Hard
  <2> DEFINE new == IF Hard THEN 5 * 500 ELSE 5 * 88
  <2>1. new \in Mds /\ (IsHard(new) <=> Hard)
    BY DEF Mds, IsHard
  <2>2. ground' = [ground EXCEPT !.at = "done", !.deposit = d, !.md = new]
    BY <1>1, Zenon
  <2> QED
    BY <2>1, <2>2, Zenon
<1>6. Sound(d, md) /\ d \in Ore
  <2>1. ground.md \in Mds
    BY <1>3, GroundFields, Zenon
  <2>2. ground.md \in Int
    BY <2>1, MdsAreInt, Zenon
  <2>3. Sound(d, ground.md)
    BY <1>1, <2>2, TablesAreSound, Zenon DEF Hard, IsHard
  <2>4. Sound(d, md)
    <3>1. IsHard(md) <=> IsHard(ground.md)
      BY <1>5, Zenon DEF Hard, IsHard
    <3> QED
      BY <2>3, <3>1, Zenon DEF Sound
  <2> QED
    BY <2>4, Zenon DEF Sound
<1>7. md \in Mds
  BY <1>5
<1>8. /\ ground'.at = "done" /\ ground'.md = md /\ ground'.deposit = d
  BY <1>3, <1>5 DEF Ground
<1>9. ground' \in Ground
  <2>1. [ground EXCEPT !.at = "done"] \in Ground
    BY <1>3, GroundEdits, Zenon
  <2>2. [ground EXCEPT !.at = "done", !.deposit = d] \in Ground
    BY <1>6, <2>1, GroundEdits, Zenon
  <2> QED
    BY <1>5, <1>7, <2>2, GroundEdits, Zenon
<1>10. Dug(ground')
  BY <1>6, <1>8, Zenon DEF Dug
<1>11. AirInv' /\ air' = air
  BY <1>2, <1>3, SameAir
<1>12. Stage(ground', air'.at)
  BY <1>4, <1>8, <1>11 DEF Stage
<1>13. Pressed(ground') /\ Mined(ground') /\ Body(ground')
  BY <1>8 DEF Mined, Body, Pressed
<1> QED
  BY <1>9, <1>10, <1>11, <1>12, <1>13, Packed

LEMMA SurfaceInWorld == SurfaceInv /\ [WorldNext]_worldVars => SurfaceInv'
<1>1. SurfaceInv /\ UNCHANGED surfaceVars => SurfaceInv'
  <2> SUFFICES ASSUME SurfaceInv, UNCHANGED surfaceVars PROVE SurfaceInv'
    OBVIOUS
  <2>1. UNCHANGED airVars /\ ground' = ground
    BY DEF surfaceVars
  <2>2. AirInv' /\ air' = air
    BY <2>1, Unpacked, SameAir
  <2> QED
    BY <2>1, <2>2, Unpacked, Packed
<1>2. [WorldNext]_worldVars => SurfaceNext \/ UNCHANGED surfaceVars
  BY DEF WorldNext, worldVars, GenerateCluster
<1>3. SurfaceInv /\ SurfaceNext => SurfaceInv'
  BY RollBodyStep, RollPressureStep, BreatheStep, BreathingStep, RollHomeWorldStep,
     RollMiningDifficultyStep, RollDepositStep DEF SurfaceNext
<1> QED
  BY <1>1, <1>2, <1>3

(* buildEarthLikeAtmosphere, rollNonEarthAtmosphere and rollPlanet: the gases*)
(* of a planet make up one hundred percent and are one to four of one window,*)
(* helium only in the cold.                                                  *)
THEOREM AtmospheresAreWhole == WorldSpec => []AtmosphereIsWhole
<1>1. WorldInit => SurfaceInv
  BY SurfaceInitially DEF WorldInit
<1>2. SurfaceInv => AtmosphereIsWhole
  BY AirIsWhole DEF SurfaceInv
<1> QED
  BY <1>1, <1>2, SurfaceInWorld, PTL DEF WorldSpec

LEMMA HereShape ==
    ASSUME SurfaceInv
    PROVE  /\ Here.tc = ground.tc /\ Here.pressure = ground.pressure
           /\ ground.tc \in Int /\ ground.pressure \in Int /\ ground.md \in Int
           /\ Here.gases \subseteq AtmosphericGas
           /\ HomeWorld => Here.gases = {g \in AtmosphericGas : percent[g] # 0}
<1>1. /\ ground.tc \in Int /\ ground.pressure \in Int /\ ground.md \in Int
  <2>1. ground \in Ground
    BY Unpacked
  <2>2. ground.tc \in 0..30 /\ ground.pressure \in 0..29 /\ ground.md \in Mds
    BY <2>1, GroundFields, ZenonT(40)
  <2>3. /\ \A x \in 0..30 : x \in Int
        /\ \A x \in 0..29 : x \in Int
    OBVIOUS
  <2> QED
    BY <2>2, <2>3, MdsAreInt, Zenon
<1>2. AirInv
  BY Unpacked
<1> QED
  BY <1>1, <1>2, FoundAreGases DEF Here

LEMMA ScoresAreBounded == SurfaceInv => ScoreIsBounded
<1> SUFFICES ASSUME SurfaceInv PROVE ScoreIsBounded
  OBVIOUS
<1>1. ASSUME HomeWorld PROVE Contribution(Here, Here, ground.md) \in 23..25
  <2>1. ground.md \in 210..230 /\ percent[GasO2] \in 11..30
    BY <1>1, Unpacked DEF HomeWorld, Stage, AirInv
  <2>2. GasO2 \in Here.gases
    BY <1>1, <2>1, HereShape DEF GasO2, AtmosphericGas
  <2>3. Here.gases \ Here.gases = {}
    OBVIOUS
  <2>4. Cardinality(Here.gases \ Here.gases) = 0
    BY <2>3, FS_EmptySet
  <2>5. Here.tc - Here.tc = 0 /\ Here.pressure - Here.pressure = 0 /\ absInt(0) = 0
    BY HereShape DEF absInt
  <2>6. approximateLSN(Here, Here) = 0
    BY <2>2, <2>4, <2>5 DEF approximateLSN
  <2> QED
    BY <2>1, <2>6, HomeWorldScores DEF Contribution
<1>2. ASSUME NEW home \in Homes PROVE Contribution(Here, home, 30) \in 0..83
  <2>1. home.tc \in Int /\ home.pressure \in Int
    BY DEF Homes
  <2>2. approximateLSN(Here, home) \in Nat
    BY <2>1, HereShape, LifeSupportIsNatural
  <2> QED
    BY <2>2, ContributionIsSmall DEF Contribution
<1> QED
  BY <1>1, <1>2 DEF ScoreIsBounded

(* rollPlanet, the attempts of templates.go and deposits.go: pressure, mining*)
(* difficulty, deposits and the score of a planet stay within their bounds,  *)
(* and no retry is without a way out.                                        *)
THEOREM SurfacesAreSound == WorldSpec => []SurfaceIsSound
<1>1. WorldInit => SurfaceInv
  BY SurfaceInitially DEF WorldInit
<1>2. SurfaceInv => SurfaceIsSound
  <2> SUFFICES ASSUME SurfaceInv PROVE SurfaceIsSound
    OBVIOUS
  <2>1. ground.at = "pressed" => MiningDifficulties(ground.template, ground.diameter) # {}
    <3>1. ground.template \in BOOLEAN
      BY Unpacked, Zenon DEF Ground
    <3>2. ground.at = "pressed" => ground.diameter \in 3..283
      BY Unpacked DEF Body
    <3>3. ground.template = TRUE \/ ground.template = FALSE
      BY <3>1, Zenon
    <3> QED
      BY <3>2, <3>3, SomeDifficultyFits, Zenon
  <2>2. DepositIsSound
    <3>1. ground.deposit # NoDeposit => Sound(ground.deposit, ground.md)
      BY Unpacked, Zenon DEF Dug
    <3>2. ground.deposit # NoDeposit =>
              /\ Plenty(ground.deposit)
              /\ Positive(ground.deposit) \/ (ground.deposit.resource = "gold" /\ ~Hard)
      BY <3>1, Zenon DEF Sound, Hard, IsHard
    <3> QED
      BY <3>2, Zenon DEF DepositIsSound
  <2>3. PressureIsSound
    BY Unpacked, Zenon DEF PressureIsSound, Pressed
  <2>4. DifficultyIsSound
    BY <2>1, Unpacked, Zenon DEF DifficultyIsSound, Mined, Fudgeds
  <2>5. SurfaceTypeOK
    BY DEF SurfaceInv, GroundInv
  <2> QED
    BY <2>2, <2>3, <2>4, <2>5, ScoresAreBounded DEF SurfaceIsSound
<1> QED
  BY <1>1, <1>2, SurfaceInWorld, PTL DEF WorldSpec

-----------------------------------------------------------------------------
(* How far the slices are, and how they refer to each other.  Positions and *)
(* ids are the same.                                                        *)
SystemRow == [ID : Nat]
StarRow == [ID : Nat, SystemID : Nat, NumPlanets : 1..9]
PlanetRow == [ID : Nat, StarID : Nat, Orbit : 1..9]
DepositRow == [ID : Nat, PlanetID : Nat, n : 1..40]

Numbered(s) == \A i \in 1..Len(s) : s[i].ID = i

Family(st, k) == {i \in 1..Len(st) : st[i].SystemID = k}

(* The systems before the last have their stars, the last at most that many.*)
Families(st, m, p) ==
    /\ \A i \in 1..Len(st) : st[i].SystemID \in 1..m
    /\ \A k \in 1..m : /\ Cardinality(Family(st, k)) <= p[k]
                       /\ k < m => Cardinality(Family(st, k)) = p[k]

(* The planets of star i are the n after position b, in the order of orbits. *)
Block(ps, i, b, n) ==
    /\ b \in Nat /\ b + n <= Len(ps)
    /\ \A j \in 1..Len(ps) : /\ ps[j].StarID = i <=> (b < j /\ j <= b + n)
                             /\ ps[j].StarID = i => ps[j].Orbit = j - b

Blocks(st, ps) ==
    /\ \A j \in 1..Len(ps) : ps[j].StarID \in 1..Len(st)
    /\ \A i \in 1..Len(st) : \E b \in Nat : Block(ps, i, b, st[i].NumPlanets)

Packed100(ds) ==
    /\ \A d \in 1..Len(ds) : ds[d].ID = 100 * ds[d].PlanetID + ds[d].n
    /\ \A d, e \in 1..Len(ds) : ds[d].PlanetID = ds[e].PlanetID /\ ds[d].n = ds[e].n => d = e

TreeInv ==
    /\ placements \in Seq(1..5)
    /\ /\ Systems \in Seq(SystemRow) /\ Stars \in Seq(StarRow)
       /\ Planets \in Seq(PlanetRow) /\ Deposits \in Seq(DepositRow)
    /\ /\ next.system = Len(Systems) + 1 /\ next.star = Len(Stars) + 1
       /\ next.planet = Len(Planets) + 1
       /\ next \in [system : Nat, star : Nat, planet : Nat]
    /\ Numbered(Systems) /\ Numbered(Stars) /\ Numbered(Planets)
    /\ Len(Systems) <= Len(placements)
    /\ Families(Stars, Len(Systems), placements)
    /\ Blocks(Stars, Planets)
    /\ Packed100(Deposits)

(* Before its stage there is no cluster.                                    *)
ClusterInv ==
    /\ TreeInv
    /\ stage # "cluster" => Systems = <<>> /\ Stars = <<>> /\ Planets = <<>> /\ Deposits = <<>>
                            /\ next = [system |-> 1, star |-> 1, planet |-> 1]

LEMMA FamilyIsFinite ==
    ASSUME NEW st \in Seq(StarRow), NEW k
    PROVE  IsFiniteSet(Family(st, k)) /\ Cardinality(Family(st, k)) \in Nat
<1>1. Len(st) \in Nat
  BY LenProperties
<1>2. IsFiniteSet(1..Len(st))
  BY <1>1, FS_Interval
<1>3. Family(st, k) \subseteq 1..Len(st)
  BY DEF Family
<1> QED
  BY <1>2, <1>3, FS_Subset, FS_CardinalityType

LEMMA NothingYet ==
    ASSUME NEW p
    PROVE  /\ Numbered(<<>>) /\ Families(<<>>, 0, p) /\ Blocks(<<>>, <<>>) /\ Packed100(<<>>)
<1>1. Len(<<>>) = 0 /\ 1..0 = {}
  OBVIOUS
<1> QED
  BY <1>1 DEF Numbered, Families, Blocks, Packed100

LEMMA EmptyTree ==
    ASSUME placements \in Seq(1..5), Systems = <<>>, Stars = <<>>, Planets = <<>>,
           Deposits = <<>>, next = [system |-> 1, star |-> 1, planet |-> 1]
    PROVE  TreeInv
<1>1. Len(<<>>) = 0 /\ Len(placements) \in Nat
  BY LenProperties
<1>2. <<>> \in Seq(SystemRow) /\ <<>> \in Seq(StarRow) /\ <<>> \in Seq(PlanetRow)
      /\ <<>> \in Seq(DepositRow)
  BY EmptySeq
<1>3. next \in [system : Nat, star : Nat, planet : Nat]
  OBVIOUS
<1> QED
  BY <1>1, <1>2, <1>3, NothingYet DEF TreeInv

LEMMA EmptyTreeNext ==
    ASSUME placements' \in Seq(1..5), Systems' = <<>>, Stars' = <<>>, Planets' = <<>>,
           Deposits' = <<>>, next' = [system |-> 1, star |-> 1, planet |-> 1]
    PROVE  TreeInv'
<1>1. Len(<<>>) = 0 /\ Len(placements') \in Nat
  BY LenProperties
<1>2. <<>> \in Seq(SystemRow) /\ <<>> \in Seq(StarRow) /\ <<>> \in Seq(PlanetRow)
      /\ <<>> \in Seq(DepositRow)
  BY EmptySeq
<1>3. next' \in [system : Nat, star : Nat, planet : Nat]
  OBVIOUS
<1> QED
  BY <1>1, <1>2, <1>3, NothingYet DEF TreeInv

LEMMA ClusterInitially == ClusterInit => ClusterInv
<1> SUFFICES ASSUME ClusterInit PROVE ClusterInv
  OBVIOUS
<1>1. placements \in Seq(1..5)
  BY EmptySeq DEF ClusterInit
<1> QED
  BY <1>1, EmptyTree DEF ClusterInit, ClusterInv

LEMMA AddSystemStep == TreeInv /\ AddSystem => TreeInv'
<1> SUFFICES ASSUME TreeInv, AddSystem PROVE TreeInv'
  OBVIOUS
<1> DEFINE m == Len(Systems)
           row == [ID |-> next.system]
<1>1. /\ m < Len(placements) /\ Complete
      /\ Systems' = Append(Systems, row)
      /\ next' = [next EXCEPT !.system = @ + 1]
      /\ UNCHANGED <<placements, Stars, Planets, Deposits>>
  BY DEF AddSystem
<1>2. /\ placements \in Seq(1..5) /\ Systems \in Seq(SystemRow) /\ Stars \in Seq(StarRow)
      /\ next.system = m + 1 /\ next \in [system : Nat, star : Nat, planet : Nat]
      /\ next.star = Len(Stars) + 1 /\ next.planet = Len(Planets) + 1
      /\ Numbered(Systems) /\ Families(Stars, m, placements)
  BY DEF TreeInv
<1>3. m \in Nat /\ Len(placements) \in Nat /\ Len(Stars) \in Nat
  BY <1>2, LenProperties
<1>4. row \in SystemRow /\ row.ID = m + 1
  BY <1>2 DEF SystemRow
<1> HIDE DEF row
<1>5. /\ Systems' \in Seq(SystemRow) /\ Len(Systems') = m + 1
      /\ \A i \in 1..m : Systems'[i] = Systems[i]
      /\ Systems'[m + 1] = row
  BY <1>1, <1>2, <1>4, AppendProperties
<1>6. Numbered(Systems')
  BY <1>2, <1>3, <1>4, <1>5 DEF Numbered
<1>7. /\ next'.system = Len(Systems') + 1 /\ next'.star = next.star /\ next'.planet = next.planet
      /\ next' \in [system : Nat, star : Nat, planet : Nat]
  <2>1. next' = [next EXCEPT !.system = m + 2] /\ m + 2 \in Nat
    <3>1. next.system + 1 = m + 2 /\ m + 2 \in Nat
      BY <1>2, <1>3
    <3> QED
      BY <1>1, <3>1
  <2> HIDE DEF m
  <2>2. /\ next'.system = m + 2 /\ next'.star = next.star /\ next'.planet = next.planet
        /\ next' \in [system : Nat, star : Nat, planet : Nat]
    BY <1>2, <2>1
  <2>3. Len(Systems') + 1 = m + 2
    BY <1>3, <1>5
  <2> QED
    BY <2>2, <2>3
<1>8. m # 0 => Cardinality(Family(Stars, m)) = placements[m]
  <2> SUFFICES ASSUME m # 0 PROVE Cardinality(Family(Stars, m)) = placements[m]
    OBVIOUS
  <2>1. Systems[m].ID = m
    BY <1>2, <1>3 DEF Numbered
  <2>2. StarsForSystem(m) = Family(Stars, m)
    BY DEF StarsForSystem, Family
  <2> QED
    BY <1>1, <2>1, <2>2 DEF Complete
<1>9. Family(Stars, m + 1) = {}
  BY <1>2, <1>3 DEF Families, Family
<1>10. Cardinality(Family(Stars, m + 1)) = 0
  BY <1>9, FS_EmptySet
<1>11. placements[m + 1] \in 1..5
  BY <1>1, <1>2, <1>3, ElementOfSeq
<1>12. Families(Stars, m + 1, placements)
  <2>1. \A i \in 1..Len(Stars) : Stars[i].SystemID \in 1..(m + 1)
    BY <1>2, <1>3 DEF Families
  <2>2. ASSUME NEW k \in 1..(m + 1)
        PROVE  /\ Cardinality(Family(Stars, k)) <= placements[k]
               /\ k < m + 1 => Cardinality(Family(Stars, k)) = placements[k]
    <3>1. CASE k < m
      BY <1>2, <1>3, <3>1 DEF Families
    <3>2. CASE k = m
      BY <1>2, <1>3, <1>8, <3>2 DEF Families
    <3>3. CASE k = m + 1
      BY <1>3, <1>10, <1>11, <3>3
    <3> QED
      BY <1>3, <3>1, <3>2, <3>3
  <2> QED
    BY <2>1, <2>2 DEF Families
<1>13. m + 1 <= Len(placements)
  BY <1>1, <1>3
<1> QED
  BY <1>1, <1>2, <1>5, <1>6, <1>7, <1>12, <1>13 DEF TreeInv

(* The planets of one star are appended in the order of their orbits.       *)
LEMMA PlanetsOfShape ==
    ASSUME NEW n \in 1..9, next.planet \in Nat \ {0}, next.star \in Nat
    PROVE  /\ PlanetsOf(n) \in Seq(PlanetRow) /\ Len(PlanetsOf(n)) = n
           /\ \A o \in 1..n : /\ PlanetsOf(n)[o].ID = next.planet + o - 1
                              /\ PlanetsOf(n)[o].StarID = next.star
                              /\ PlanetsOf(n)[o].Orbit = o
<1> DEFINE row(o) == [ID |-> next.planet + o - 1, StarID |-> next.star, Orbit |-> o]
<1>1. n \in Nat
  OBVIOUS
<1>2. ASSUME NEW o \in 1..n PROVE row(o) \in PlanetRow
  <2>1. o \in 1..9 /\ next.planet + o - 1 \in Nat
    OBVIOUS
  <2> QED
    BY <2>1 DEF PlanetRow
<1>3. PlanetsOf(n) = [o \in 1..n |-> row(o)]
  BY DEF PlanetsOf
<1>4. /\ \A o \in 1..n : PlanetsOf(n)[o] = row(o)
      /\ DOMAIN PlanetsOf(n) = 1..n
  BY <1>3
<1>5. \A o \in 1..n : /\ row(o).ID = next.planet + o - 1 /\ row(o).StarID = next.star
                      /\ row(o).Orbit = o
  OBVIOUS
<1> HIDE DEF row
<1>6. PlanetsOf(n) \in [1..n -> PlanetRow]
  BY <1>2, <1>3
<1>7. PlanetsOf(n) \in Seq(PlanetRow)
  BY <1>1, <1>6, SeqDef
<1>8. Len(PlanetsOf(n)) = n
  BY <1>1, <1>4, <1>7, LenProperties
<1> QED
  BY <1>4, <1>5, <1>7, <1>8

(* A star more in the last system, which is not complete.                   *)
LEMMA FamiliesGrow ==
    ASSUME NEW st \in Seq(StarRow), NEW row \in StarRow, NEW m \in Nat, NEW p \in Seq(1..5),
           m # 0, m <= Len(p), row.SystemID = m, Families(st, m, p),
           Cardinality(Family(st, m)) # p[m]
    PROVE  Families(Append(st, row), m, p)
<1> DEFINE more == Append(st, row)
           l == Len(st)
<1>1. l \in Nat
  BY LenProperties
<1>2. /\ Len(more) = l + 1 /\ more[l + 1] = row
      /\ \A i \in 1..l : more[i] = st[i]
  BY AppendProperties
<1> HIDE DEF more, l
<1>3. \A i \in 1..l : st[i].SystemID \in 1..m
  BY DEF Families, l
<1>4. ASSUME NEW k \in 1..m, k # m PROVE Family(more, k) = Family(st, k)
  <2>1. \A i \in 1..(l + 1) : more[i].SystemID = k <=> i \in 1..l /\ st[i].SystemID = k
    BY <1>1, <1>2, <1>4
  <2>2. \A i \in 1..l : i \in 1..(l + 1)
    BY <1>1
  <2> QED
    BY <1>2, <2>1, <2>2 DEF Family, l
<1>5. Family(more, m) = Family(st, m) \cup {l + 1}
  <2>1. \A i \in 1..(l + 1) : more[i].SystemID = m <=> (i \in 1..l /\ st[i].SystemID = m) \/ i = l + 1
    BY <1>1, <1>2
  <2>2. l + 1 \in 1..(l + 1) /\ \A i \in 1..l : i \in 1..(l + 1)
    BY <1>1
  <2> QED
    BY <1>2, <2>1, <2>2 DEF Family, l
<1>6. l + 1 \notin Family(st, m)
  BY <1>1 DEF Family, l
<1>7. IsFiniteSet(Family(st, m)) /\ Cardinality(Family(st, m)) \in Nat
  BY FamilyIsFinite
<1>8. Cardinality(Family(more, m)) = Cardinality(Family(st, m)) + 1
  BY <1>5, <1>6, <1>7, FS_AddElement
<1>9. p[m] \in 1..5
  <2>1. m \in 1..Len(p)
    BY LenProperties
  <2> QED
    BY <2>1, ElementOfSeq
<1>10. Cardinality(Family(st, m)) <= p[m]
  BY DEF Families
<1>11. Cardinality(Family(more, m)) <= p[m]
  BY <1>7, <1>8, <1>9, <1>10
<1>12. \A i \in 1..Len(more) : more[i].SystemID \in 1..m
  BY <1>1, <1>2, <1>3
<1>13. ASSUME NEW k \in 1..m
       PROVE  /\ Cardinality(Family(more, k)) <= p[k]
              /\ k < m => Cardinality(Family(more, k)) = p[k]
  <2>1. CASE k = m
    BY <1>11, <2>1
  <2>2. CASE k # m
    BY <1>4, <2>2 DEF Families
  <2> QED
    BY <2>1, <2>2
<1> QED
  BY <1>12, <1>13 DEF Families, more

(* A star more and its planets after all others.                            *)
LEMMA BlocksGrow ==
    ASSUME NEW st \in Seq(StarRow), NEW row \in StarRow, NEW ps \in Seq(PlanetRow),
           NEW qs \in Seq(PlanetRow), Blocks(st, ps), Len(qs) = row.NumPlanets,
           \A o \in 1..Len(qs) : qs[o].StarID = Len(st) + 1 /\ qs[o].Orbit = o
    PROVE  Blocks(Append(st, row), ps \o qs)
<1> DEFINE more == Append(st, row)  all == ps \o qs
           l == Len(st)  a == Len(ps)  c == Len(qs)
<1>1. l \in Nat /\ a \in Nat /\ c \in Nat
  BY LenProperties
<1>2. /\ Len(more) = l + 1 /\ more[l + 1] = row
      /\ \A i \in 1..l : more[i] = st[i]
  BY AppendProperties
<1>3. Len(all) = a + c /\ \A j \in 1..(a + c) : all[j] = IF j <= a THEN ps[j] ELSE qs[j - a]
  BY ConcatProperties
<1>4. \A o \in 1..c : qs[o].StarID = l + 1 /\ qs[o].Orbit = o
  OBVIOUS
<1>5. row.NumPlanets = c
  OBVIOUS
<1>6. \A j \in 1..a : ps[j].StarID \in 1..l
  BY DEF Blocks
<1>7. \A i \in 1..l : \E b \in Nat : Block(ps, i, b, st[i].NumPlanets)
  BY DEF Blocks
<1>8. ASSUME NEW i \in 1..l PROVE st[i].NumPlanets \in Nat
  <2>1. st[i] \in StarRow
    BY ElementOfSeq
  <2>2. st[i].NumPlanets \in 1..9
    BY <2>1 DEF StarRow
  <2> QED
    BY <2>2
<1> HIDE DEF more, all, l, c
<1>9. ASSUME NEW j \in 1..(a + c)
      PROVE  \/ j \in 1..a /\ all[j] = ps[j] /\ all[j].StarID \in 1..l
             \/ j > a /\ all[j].StarID = l + 1 /\ all[j].Orbit = j - a
  <2>1. CASE j <= a
    <3>1. j \in 1..a
      BY <1>1, <2>1
    <3> QED
      BY <1>3, <1>6, <2>1, <3>1
  <2>2. CASE ~(j <= a)
    <3>1. j - a \in 1..c /\ j > a
      BY <1>1, <2>2
    <3> QED
      BY <1>3, <1>4, <2>2, <3>1
  <2> QED
    BY <2>1, <2>2
<1>10. \A j \in 1..Len(all) : all[j].StarID \in 1..Len(more)
  BY <1>1, <1>2, <1>3, <1>9
<1>11. ASSUME NEW i \in 1..l PROVE \E b \in Nat : Block(all, i, b, more[i].NumPlanets)
  <2>1. PICK b \in Nat : Block(ps, i, b, st[i].NumPlanets)
    BY <1>7
  <2>2. PICK n \in Nat : n = st[i].NumPlanets /\ n = more[i].NumPlanets
    BY <1>2, <1>8
  <2>3. b + n <= a + c
    BY <1>1, <2>1, <2>2 DEF Block
  <2>4. ASSUME NEW j \in 1..(a + c)
        PROVE  /\ all[j].StarID = i <=> (b < j /\ j <= b + n)
               /\ all[j].StarID = i => all[j].Orbit = j - b
    <3>1. CASE j \in 1..a /\ all[j] = ps[j]
      BY <2>1, <2>2, <3>1 DEF Block
    <3>2. CASE j > a /\ all[j].StarID = l + 1
      <4>1. b + n <= a
        BY <2>1, <2>2 DEF Block
      <4> QED
        BY <1>1, <3>2, <4>1
    <3> QED
      BY <1>9, <3>1, <3>2
  <2>5. Block(all, i, b, n)
    BY <1>3, <2>3, <2>4 DEF Block
  <2> QED
    BY <2>2, <2>5
<1>12. Block(all, l + 1, a, c)
  <2>1. ASSUME NEW j \in 1..(a + c)
        PROVE  /\ all[j].StarID = l + 1 <=> (a < j /\ j <= a + c)
               /\ all[j].StarID = l + 1 => all[j].Orbit = j - a
    BY <1>1, <1>9, SMTT(30)
  <2> QED
    BY <1>1, <1>3, <2>1 DEF Block
<1>13. ASSUME NEW i \in 1..Len(more) PROVE \E b \in Nat : Block(all, i, b, more[i].NumPlanets)
  <2>1. CASE i = l + 1
    BY <1>1, <1>2, <1>5, <1>12, <2>1
  <2>2. CASE i # l + 1
    <3>1. i \in 1..l
      BY <1>1, <1>2, <2>2
    <3> QED
      BY <1>11, <3>1
  <2> QED
    BY <2>1, <2>2
<1> QED
  BY <1>10, <1>13 DEF Blocks, more, all

LEMMA AddStarStep == StarInv /\ TreeInv /\ AddStar => TreeInv'
<1> SUFFICES ASSUME StarInv, TreeInv, AddStar PROVE TreeInv'
  OBVIOUS
<1> DEFINE m == Len(Systems)  l == Len(Stars)  a == Len(Planets)  n == NumPlanets
           row == [ID |-> next.star, NumPlanets |-> n, SystemID |-> Systems[m].ID]
           qs == PlanetsOf(n)
<1>1. /\ ~Complete /\ StarRolled
      /\ Stars' = Append(Stars, row) /\ Planets' = Planets \o qs
      /\ next' = [next EXCEPT !.star = @ + 1, !.planet = @ + n]
      /\ UNCHANGED <<placements, Systems, Deposits>>
  BY DEF AddStar, TakeStar
<1>2. /\ placements \in Seq(1..5) /\ Systems \in Seq(SystemRow) /\ Stars \in Seq(StarRow)
      /\ Planets \in Seq(PlanetRow)
      /\ next.system = m + 1 /\ next.star = l + 1 /\ next.planet = a + 1
      /\ next \in [system : Nat, star : Nat, planet : Nat]
      /\ Numbered(Systems) /\ Numbered(Stars) /\ Numbered(Planets)
      /\ m <= Len(placements) /\ Families(Stars, m, placements) /\ Blocks(Stars, Planets)
  BY DEF TreeInv
<1>3. m \in Nat /\ l \in Nat /\ a \in Nat
  BY <1>2, LenProperties
<1>4. n \in 1..9
  BY <1>1 DEF StarInv, StarTypeOK, StarRolled
<1>5. m # 0 /\ Cardinality(StarsForSystem(Systems[m].ID)) # placements[m]
  BY <1>1 DEF Complete
<1>6. Systems[m].ID = m
  BY <1>2, <1>3, <1>5 DEF Numbered
<1>7. Cardinality(Family(Stars, m)) # placements[m]
  <2>1. StarsForSystem(m) = Family(Stars, m)
    BY DEF StarsForSystem, Family
  <2> QED
    BY <1>5, <1>6, <2>1
<1>8. row \in StarRow /\ row.ID = l + 1 /\ row.SystemID = m /\ row.NumPlanets = n
  <2>1. next.star \in Nat /\ m \in Nat
    BY <1>2, <1>3
  <2> QED
    BY <1>2, <1>4, <1>6, <2>1 DEF StarRow
<1>9. /\ qs \in Seq(PlanetRow) /\ Len(qs) = n
      /\ \A o \in 1..n : /\ qs[o].ID = a + o /\ qs[o].StarID = l + 1 /\ qs[o].Orbit = o
  <2>1. next.planet \in Nat \ {0} /\ next.star \in Nat
    BY <1>2, <1>3
  <2>2. \A o \in 1..n : next.planet + o - 1 = a + o
    BY <1>2, <1>3
  <2> QED
    BY <1>2, <1>4, <2>1, <2>2, PlanetsOfShape
<1> HIDE DEF row, qs, n
<1>10. /\ Stars' \in Seq(StarRow) /\ Len(Stars') = l + 1 /\ Stars'[l + 1] = row
       /\ \A i \in 1..l : Stars'[i] = Stars[i]
  BY <1>1, <1>2, <1>8, AppendProperties
<1>11. /\ Planets' \in Seq(PlanetRow) /\ Len(Planets') = a + n
       /\ \A j \in 1..(a + n) : Planets'[j] = IF j <= a THEN Planets[j] ELSE qs[j - a]
  <2> DEFINE all == Planets \o qs
  <2>1. /\ all \in Seq(PlanetRow) /\ Len(all) = Len(Planets) + Len(qs)
        /\ \A j \in 1..(Len(Planets) + Len(qs)) :
              all[j] = IF j <= Len(Planets) THEN Planets[j] ELSE qs[j - Len(Planets)]
    BY <1>2, <1>9, ConcatProperties
  <2>2. Planets' = all /\ Len(qs) = n
    BY <1>1, <1>9
  <2> HIDE DEF all
  <2> QED
    BY <2>1, <2>2
<1>12. Numbered(Stars')
  <2>1. ASSUME NEW i \in 1..(l + 1) PROVE Stars'[i].ID = i
    <3>1. CASE i = l + 1
      BY <1>8, <1>10, <3>1
    <3>2. CASE i # l + 1
      <4>1. i \in 1..l
        BY <1>3, <3>2
      <4>2. Stars'[i] = Stars[i] /\ Stars[i].ID = i
        BY <1>2, <1>10, <4>1 DEF Numbered
      <4> QED
        BY <4>2
    <3> QED
      BY <3>1, <3>2
  <2> QED
    BY <1>10, <2>1 DEF Numbered
<1>13. Numbered(Planets')
  <2>1. ASSUME NEW j \in 1..(a + n) PROVE Planets'[j].ID = j
    <3>1. CASE j <= a
      BY <1>2, <1>3, <1>11, <3>1 DEF Numbered
    <3>2. CASE ~(j <= a)
      <4>1. j - a \in 1..n
        BY <1>3, <1>4, <3>2
      <4>2. qs[j - a].ID = a + (j - a)
        BY <1>9, <4>1
      <4> QED
        BY <1>3, <1>11, <3>2, <4>2
    <3> QED
      BY <3>1, <3>2
  <2> QED
    BY <1>11, <2>1 DEF Numbered
<1>14. Families(Stars', m, placements)
  BY <1>1, <1>2, <1>3, <1>5, <1>7, <1>8, FamiliesGrow
<1>15. Blocks(Stars', Planets')
  <2>1. \A o \in 1..Len(qs) : qs[o].StarID = Len(Stars) + 1 /\ qs[o].Orbit = o
    BY <1>9
  <2> QED
    BY <1>1, <1>2, <1>8, <1>9, <2>1, BlocksGrow
<1>16. /\ next'.system = m + 1 /\ next'.star = l + 2 /\ next'.planet = a + n + 1
       /\ next' \in [system : Nat, star : Nat, planet : Nat]
  <2>1. /\ next' = [next EXCEPT !.star = l + 2, !.planet = a + n + 1]
        /\ l + 2 \in Nat /\ a + n + 1 \in Nat
    <3>1. next.star + 1 = l + 2 /\ next.planet + n = a + n + 1
      BY <1>2, <1>3, <1>4
    <3>2. l + 2 \in Nat /\ a + n + 1 \in Nat
      BY <1>3, <1>4
    <3> QED
      BY <1>1, <3>1, <3>2
  <2> HIDE DEF m, l, a
  <2> QED
    BY <1>2, <2>1
<1>17. Len(Stars') + 1 = l + 2 /\ Len(Planets') + 1 = a + n + 1
  BY <1>3, <1>4, <1>10, <1>11
<1>18. /\ next'.system = Len(Systems') + 1 /\ next'.star = Len(Stars') + 1
       /\ next'.planet = Len(Planets') + 1
  BY <1>1, <1>16, <1>17
<1>19. /\ placements' \in Seq(1..5) /\ Systems' \in Seq(SystemRow) /\ Numbered(Systems')
       /\ Len(Systems') <= Len(placements') /\ Families(Stars', Len(Systems'), placements')
  BY <1>1, <1>2, <1>14
<1>20. Deposits' \in Seq(DepositRow) /\ Packed100(Deposits')
  BY <1>1 DEF TreeInv
<1> QED
  BY <1>10, <1>11, <1>12, <1>13, <1>15, <1>16, <1>18, <1>19, <1>20 DEF TreeInv

(* The deposits of a planet that had none.                                  *)
LEMMA DepositsGrow ==
    ASSUME NEW ds \in Seq(DepositRow), NEW id \in Nat, NEW count \in 1..40, Packed100(ds),
           \A d \in 1..Len(ds) : ds[d].PlanetID # id
    PROVE  LET qs == [k \in 1..count |-> [ID |-> DepositID(id, k), PlanetID |-> id, n |-> k]]
           IN  ds \o qs \in Seq(DepositRow) /\ Packed100(ds \o qs)
<1> DEFINE row(k) == [ID |-> DepositID(id, k), PlanetID |-> id, n |-> k]
           qs == [k \in 1..count |-> row(k)]
           all == ds \o qs  a == Len(ds)
<1>1. count \in Nat
  OBVIOUS
<1>2. ASSUME NEW k \in 1..count
      PROVE  /\ row(k) \in DepositRow /\ row(k).ID = 100 * id + k
             /\ row(k).PlanetID = id /\ row(k).n = k
  <2>1. k \in 1..40 /\ id * 100 + k \in Nat /\ id * 100 + k = 100 * id + k
    OBVIOUS
  <2> QED
    BY <2>1 DEF DepositRow, DepositID
<1>3. /\ \A k \in 1..count : qs[k] = row(k)
      /\ DOMAIN qs = 1..count
  OBVIOUS
<1>4. qs = [k \in 1..count |-> row(k)]
  OBVIOUS
<1> HIDE DEF row, qs
<1>5. qs \in [1..count -> DepositRow]
  BY <1>2, <1>4
<1>6. qs \in Seq(DepositRow)
  BY <1>1, <1>5, SeqDef
<1>7. Len(qs) = count
  BY <1>1, <1>3, <1>6, LenProperties
<1>8. \A k \in 1..count : /\ qs[k].ID = 100 * id + k /\ qs[k].PlanetID = id /\ qs[k].n = k
  BY <1>2, <1>3
<1>9. /\ all \in Seq(DepositRow) /\ Len(all) = a + count
      /\ \A d \in 1..(a + count) : all[d] = IF d <= a THEN ds[d] ELSE qs[d - a]
  BY <1>6, <1>7, ConcatProperties
<1>10. a \in Nat
  BY LenProperties
<1>11. /\ \A d \in 1..a : ds[d].ID = 100 * ds[d].PlanetID + ds[d].n
       /\ \A d, e \in 1..a : ds[d].PlanetID = ds[e].PlanetID /\ ds[d].n = ds[e].n => d = e
       /\ \A d \in 1..a : ds[d].PlanetID # id
  BY DEF Packed100
<1> HIDE DEF all, a
<1>12. ASSUME NEW d \in 1..(a + count)
       PROVE  \/ d \in 1..a /\ all[d] = ds[d]
              \/ d > a /\ d - a \in 1..count /\ all[d] = qs[d - a]
  <2>1. CASE d <= a
    BY <1>9, <1>10, <2>1
  <2>2. CASE ~(d <= a)
    BY <1>9, <1>10, <2>2
  <2> QED
    BY <2>1, <2>2
<1>13. ASSUME NEW d \in 1..(a + count) PROVE all[d].ID = 100 * all[d].PlanetID + all[d].n
  <2>1. CASE d \in 1..a /\ all[d] = ds[d]
    BY <1>11, <2>1
  <2>2. CASE d - a \in 1..count /\ all[d] = qs[d - a]
    BY <1>8, <2>2
  <2> QED
    BY <1>12, <2>1, <2>2
<1>14. ASSUME NEW d \in 1..(a + count), NEW e \in 1..(a + count),
              all[d].PlanetID = all[e].PlanetID, all[d].n = all[e].n
       PROVE  d = e
  <2>1. CASE d \in 1..a /\ all[d] = ds[d]
    <3>1. all[d].PlanetID # id
      BY <1>11, <2>1
    <3>2. e \in 1..a /\ all[e] = ds[e]
      BY <1>8, <1>12, <1>14, <3>1
    <3> QED
      BY <1>11, <1>14, <2>1, <3>2
  <2>2. CASE d > a /\ d - a \in 1..count /\ all[d] = qs[d - a]
    <3>1. all[d].PlanetID = id /\ all[d].n = d - a
      BY <1>8, <2>2
    <3>2. e > a /\ e - a \in 1..count /\ all[e] = qs[e - a]
      BY <1>11, <1>12, <1>14, <3>1
    <3>3. all[e].n = e - a
      BY <1>8, <3>2
    <3>4. d - a = e - a
      BY <1>14, <3>1, <3>3
    <3> QED
      BY <1>10, <3>4
  <2> QED
    BY <1>12, <2>1, <2>2
<1>15. Packed100(all)
  BY <1>9, <1>13, <1>14 DEF Packed100
<1> QED
  BY <1>9, <1>15 DEF all, qs, row

LEMMA GenerateDepositsStep == TreeInv /\ GenerateDeposits => TreeInv'
<1> SUFFICES ASSUME TreeInv, GenerateDeposits PROVE TreeInv'
  OBVIOUS
<1>1. PICK i \in 1..Len(Planets), count \in DepositCounts :
        /\ DepositsForPlanet(Planets[i].ID) = {}
        /\ Deposits' = Deposits \o [n \in 1..count |->
              [ID |-> DepositID(Planets[i].ID, n), PlanetID |-> Planets[i].ID, n |-> n]]
  BY DEF GenerateDeposits
<1>2. UNCHANGED <<placements, Systems, Stars, Planets, next>>
  BY DEF GenerateDeposits
<1>3. count \in 1..40
  BY CountAssumption
<1>4. /\ Deposits \in Seq(DepositRow) /\ Packed100(Deposits) /\ Planets[i].ID = i /\ i \in Nat
  BY DEF TreeInv, Numbered
<1>5. \A d \in 1..Len(Deposits) : Deposits[d].PlanetID # i
  BY <1>1, <1>4 DEF DepositsForPlanet
<1>6. Deposits' \in Seq(DepositRow) /\ Packed100(Deposits')
  BY <1>1, <1>3, <1>4, <1>5, DepositsGrow
<1> QED
  BY <1>2, <1>6 DEF TreeInv

LEMMA TreeInWorld == StarInv /\ ClusterInv /\ [WorldNext]_worldVars => ClusterInv'
<1> SUFFICES ASSUME StarInv, ClusterInv, [WorldNext]_worldVars PROVE ClusterInv'
  OBVIOUS
<1>1. ASSUME UNCHANGED clusterVars PROVE TreeInv'
  BY <1>1 DEF ClusterInv, TreeInv, clusterVars
<1>2. CASE stage = "cluster" /\ ClusterNext /\ UNCHANGED stage
  <2>1. TreeInv'
    BY <1>1, <1>2, AddSystemStep, AddStarStep, GenerateDepositsStep DEF ClusterInv, ClusterNext
  <2> QED
    BY <1>2, <2>1 DEF ClusterInv
<1>3. CASE GenerateCluster
  <2>1. /\ placements' \in Placements /\ stage' = "cluster" /\ stage = "placement"
        /\ UNCHANGED <<Systems, Stars, Planets, Deposits, next>>
    BY <1>3 DEF GenerateCluster
  <2>2. placements' \in Seq(1..5)
    BY <2>1, PlacementAssumption
  <2>3. /\ Systems' = <<>> /\ Stars' = <<>> /\ Planets' = <<>> /\ Deposits' = <<>>
        /\ next' = [system |-> 1, star |-> 1, planet |-> 1]
    BY <2>1 DEF ClusterInv
  <2>4. TreeInv'
    BY <2>2, <2>3, EmptyTreeNext
  <2> QED
    BY <2>1, <2>4 DEF ClusterInv
<1>4. CASE UNCHANGED clusterVars /\ UNCHANGED stage
  BY <1>1, <1>4 DEF ClusterInv, clusterVars
<1> QED
  BY <1>2, <1>3, <1>4 DEF WorldNext, worldVars

(* What the queries find.                                                   *)
LEMMA OrbitsFollow == TreeInv => OrbitsAreInOrder
<1> SUFFICES ASSUME TreeInv, NEW i \in 1..Len(Stars)
             PROVE  LET ps == PlanetsForStar(Stars[i].ID) IN
                    /\ {Planets[j].Orbit : j \in ps} = 1..Stars[i].NumPlanets
                    /\ \A j, k \in ps : j < k => Planets[j].Orbit < Planets[k].Orbit
  BY DEF OrbitsAreInOrder
<1> DEFINE ps == PlanetsForStar(Stars[i].ID)  a == Len(Planets)
<1>1. Stars[i].ID = i /\ a \in Nat
  BY LenProperties DEF TreeInv, Numbered
<1>2. PICK n \in 1..9 : n = Stars[i].NumPlanets
  <2>1. Stars[i] \in StarRow
    BY ElementOfSeq DEF TreeInv
  <2> QED
    BY <2>1 DEF StarRow
<1>3. PICK b \in Nat : Block(Planets, i, b, n)
  BY <1>2 DEF TreeInv, Blocks
<1>4. /\ b + n <= a
      /\ \A j \in 1..a : /\ Planets[j].StarID = i <=> (b < j /\ j <= b + n)
                         /\ Planets[j].StarID = i => Planets[j].Orbit = j - b
  BY <1>3 DEF Block
<1>5. ps = {j \in 1..a : Planets[j].StarID = i}
  BY <1>1 DEF PlanetsForStar
<1> HIDE DEF ps, a
<1>6. \A j \in ps : j \in Nat /\ b < j /\ j <= b + n /\ Planets[j].Orbit = j - b
  BY <1>1, <1>4, <1>5
<1>7. ASSUME NEW o \in 1..n PROVE \E j \in ps : Planets[j].Orbit = o
  <2>1. b + o \in 1..a /\ b < b + o /\ b + o <= b + n /\ (b + o) - b = o
    BY <1>1, <1>4
  <2>2. Planets[b + o].StarID = i /\ Planets[b + o].Orbit = o
    BY <1>4, <2>1
  <2> QED
    BY <1>5, <2>1, <2>2
<1>8. \A j \in ps : Planets[j].Orbit \in 1..n
  BY <1>6, SMTT(30)
<1>9. {Planets[j].Orbit : j \in ps} = 1..n
  BY <1>7, <1>8
<1>10. \A j, k \in ps : j < k => Planets[j].Orbit < Planets[k].Orbit
  BY <1>6
<1> QED
  BY <1>2, <1>9, <1>10 DEF ps

LEMMA FoundOnce == TreeInv => PlanetsAreFoundOnce
<1> SUFFICES ASSUME TreeInv, NEW j \in 1..Len(Planets)
             PROVE  /\ \E i \in 1..Len(Stars) :
                          \A k \in 1..Len(Stars) : j \in PlanetsForStar(Stars[k].ID) <=> k = i
                    /\ \E i \in 1..Len(Systems) :
                          \A k \in 1..Len(Systems) :
                              j \in PlanetsForSystem(Systems[k].ID) <=> k = i
  BY DEF PlanetsAreFoundOnce
<1>1. /\ \A k \in 1..Len(Stars) : Stars[k].ID = k
      /\ \A k \in 1..Len(Systems) : Systems[k].ID = k
  BY DEF TreeInv, Numbered
<1>2. PICK s \in 1..Len(Stars) : s = Planets[j].StarID
  BY DEF TreeInv, Blocks
<1>3. PICK y \in 1..Len(Systems) : y = Stars[s].SystemID
  BY DEF TreeInv, Families
<1>4. \A k \in 1..Len(Stars) : j \in PlanetsForStar(Stars[k].ID) <=> k = s
  BY <1>1, <1>2 DEF PlanetsForStar
<1>5. ASSUME NEW k \in 1..Len(Systems)
      PROVE  j \in PlanetsForSystem(Systems[k].ID) <=> k = y
  <2>1. j \in PlanetsForSystem(k) <=> \E i \in StarsForSystem(k) : Stars[i].ID = s
    BY <1>2 DEF PlanetsForSystem
  <2>2. \A i \in 1..Len(Stars) : i \in StarsForSystem(k) <=> Stars[i].SystemID = k
    BY DEF StarsForSystem
  <2>3. \A i \in StarsForSystem(k) : i \in 1..Len(Stars)
    BY DEF StarsForSystem
  <2>4. (\E i \in StarsForSystem(k) : Stars[i].ID = s) <=> s \in StarsForSystem(k)
    BY <1>1, <2>3
  <2> QED
    BY <1>1, <1>3, <2>1, <2>2, <2>4
<1> QED
  BY <1>4, <1>5

(* An id of a deposit tells the planet and the number since there are fewer *)
(* than a hundred deposits.                                                 *)
LEMMA UnpackId ==
    \A p \in Nat, n \in 1..40 : (100 * p + n) \div 100 = p /\ (100 * p + n) % 100 = n
OBVIOUS

LEMMA DepositIdsTell == TreeInv => DepositIdsTellThePlanet
<1> SUFFICES ASSUME TreeInv PROVE DepositIdsTellThePlanet
  OBVIOUS
<1>1. ASSUME NEW d \in 1..Len(Deposits)
      PROVE  /\ Deposits[d].PlanetID \in Nat /\ Deposits[d].n \in 1..40
             /\ Deposits[d].ID = 100 * Deposits[d].PlanetID + Deposits[d].n
  <2>1. Deposits[d] \in DepositRow
    BY ElementOfSeq DEF TreeInv
  <2>2. Deposits[d].PlanetID \in Nat /\ Deposits[d].n \in 1..40
    BY <2>1 DEF DepositRow
  <2> QED
    BY <2>2 DEF TreeInv, Packed100
<1>2. ASSUME NEW d \in 1..Len(Deposits)
      PROVE  /\ Deposits[d].ID \div 100 = Deposits[d].PlanetID
             /\ Deposits[d].ID % 100 = Deposits[d].n
  <2>1. PICK p \in Nat, k \in 1..40 : p = Deposits[d].PlanetID /\ k = Deposits[d].n
    BY <1>1
  <2>2. Deposits[d].ID = 100 * p + k
    BY <1>1, <2>1
  <2>3. Deposits[d].ID \div 100 = p /\ Deposits[d].ID % 100 = k
    BY <2>2, UnpackId
  <2> QED
    BY <2>1, <2>3
<1>3. ASSUME NEW d \in 1..Len(Deposits), NEW e \in 1..Len(Deposits),
             Deposits[d].ID = Deposits[e].ID
      PROVE  d = e
  <2>1. Deposits[d].PlanetID = Deposits[e].PlanetID /\ Deposits[d].n = Deposits[e].n
    <3>1. /\ Deposits[d].ID \div 100 = Deposits[e].ID \div 100
          /\ Deposits[d].ID % 100 = Deposits[e].ID % 100
      BY <1>3
    <3> QED
      BY <1>2, <3>1
  <2> QED
    BY <2>1 DEF TreeInv, Packed100
<1> QED
  BY <1>2, <1>3 DEF DepositIdsTellThePlanet, Distinct

LEMMA MultiStarsCounted ==
    ASSUME TreeInv, Len(Systems) = Len(placements), Complete
    PROVE  CountMultiStarSystems = Cardinality({i \in 1..Len(placements) : placements[i] > 1})
<1> DEFINE m == Len(Systems)
           found == {Stars[i].SystemID : i \in 1..Len(Stars)}
<1>1. m \in Nat /\ m = Len(placements) /\ Families(Stars, m, placements)
  BY LenProperties DEF TreeInv
<1>2. \A k : StarsForSystem(k) = Family(Stars, k)
  BY DEF StarsForSystem, Family
<1>3. ASSUME NEW k \in 1..m PROVE Cardinality(Family(Stars, k)) = placements[k]
  <2>1. CASE k < m
    BY <1>1, <2>1 DEF Families
  <2>2. CASE k = m
    <3>1. m # 0 /\ Systems[m].ID = m
      BY <1>1, <2>2 DEF TreeInv, Numbered
    <3>2. Cardinality(StarsForSystem(m)) = placements[m]
      BY <3>1 DEF Complete
    <3> QED
      BY <1>2, <2>2, <3>2
  <2> QED
    BY <1>1, <2>1, <2>2
<1>4. found \subseteq 1..m
  BY <1>1 DEF Families
<1>5. ASSUME NEW k \in 1..m, placements[k] > 1 PROVE k \in found
  <2>1. Family(Stars, k) # {}
    <3>1. CASE Family(Stars, k) = {}
      <4>1. Cardinality(Family(Stars, k)) = 0
        BY <3>1, FS_EmptySet
      <4>2. ~(0 > 1)
        OBVIOUS
      <4> QED
        BY <1>3, <1>5, <4>1, <4>2
    <3> QED
      BY <3>1
  <2> QED
    BY <2>1 DEF Family
<1>6. {id \in found : Cardinality(StarsForSystem(id)) > 1} = {i \in 1..m : placements[i] > 1}
  <2>1. \A id : id \in found /\ Cardinality(StarsForSystem(id)) > 1
                    <=> id \in 1..m /\ placements[id] > 1
    <3> HIDE DEF found, m
    <3> QED
      BY <1>2, <1>3, <1>4, <1>5
  <2> HIDE DEF found, m
  <2> QED
    BY <2>1
<1> QED
  BY <1>1, <1>6 DEF CountMultiStarSystems

(* GenerateCluster, GenerateDeposits and the queries of cluster.go: the flat*)
(* slices are a tree, and the ids of deposits tell their planets.           *)
THEOREM SlicesMakeATree == WorldSpec => []SlicesAreTree
<1>1. WorldInit => StarInv /\ ClusterInv
  BY StarInitially, ClusterInitially DEF WorldInit
<1>2. StarInv /\ ClusterInv /\ [WorldNext]_worldVars => StarInv' /\ ClusterInv'
  BY StarInvInWorld, TreeInWorld
<1>3. StarInv /\ ClusterInv => SlicesAreTree
  <2> SUFFICES ASSUME StarInv, ClusterInv PROVE SlicesAreTree
    OBVIOUS
  <2>1. TreeInv /\ StarTypeOK
    BY DEF ClusterInv, StarInv
  <2>2. ClusterTypeOK
    BY <2>1 DEF TreeInv, ClusterTypeOK, SystemRow, StarRow, PlanetRow, DepositRow
  <2>3. Distinct(Systems) /\ Distinct(Stars) /\ Distinct(Planets)
    BY <2>1 DEF TreeInv, Numbered, Distinct
  <2> QED
    BY <2>1, <2>2, <2>3, OrbitsFollow, FoundOnce, DepositIdsTell, MultiStarsCounted
    DEF SlicesAreTree
<1> QED
  BY <1>1, <1>2, <1>3, PTL DEF WorldSpec
=============================================================================
