------------------------------ MODULE Placement ------------------------------
(***************************************************************************)
(* placeHexSystems of internal/worldgen/placement.go, over the hexes of     *)
(* internal/hexes/axial.go: the candidates are the hexes of a disk in a     *)
(* random order, each is consumed once, and becomes a system, is merged     *)
(* into the nearest system or is dropped.                                   *)
(*                                                                          *)
(* A hex is the pair <<q, r>> of its axial coordinates.  The shuffle and    *)
(* the die are nondeterministic choices: todo holds the candidates that are *)
(* still to come, in any order.                                             *)
(***************************************************************************)
EXTENDS Integers, FiniteSets

CONSTANTS Radius,
          Counts,     \* values of n, the number of systems asked for
          Distances   \* values of minimumDistance

ASSUME RadiusAssumption == Radius \in Nat
ASSUME ArgumentAssumption == Counts \subseteq Nat /\ Distances \subseteq Nat

VARIABLES args,    \* n, minimumDistance and merge of the call
          todo,    \* the candidates not consumed yet
          stars,   \* the placements: the star count of each hex that is a system
          result   \* how the call returned

vars == <<args, todo, stars, result>>

Abs(n) == IF n < 0 THEN -n ELSE n
Largest(a, b) == IF a < b THEN b ELSE a

(* The third cube coordinate is S = -Q - R.                                  *)
Distance(h, j) ==
    Largest(Largest(Abs(h[1] - j[1]), Abs(h[2] - j[2])),
            Abs((h[1] + h[2]) - (j[1] + j[2])))

Disk == {h \in (-Radius..Radius) \X (-Radius..Radius) :
            -Radius <= h[1] + h[2] /\ h[1] + h[2] <= Radius}

Capacity == 1 + 3 * Radius * (Radius + 1)

Arguments == [n : Counts, minimumDistance : Distances, merge : BOOLEAN]

(* A hex that is no system has no stars.                                     *)
Placed == {h \in Disk : stars[h] # 0}
Consumed == Disk \ todo

(* The placements: no system gets more than five stars (placeHexSystems).    *)
TypeOK ==
    /\ args \in Arguments
    /\ todo \subseteq Disk
    /\ stars \in [Disk -> 0..5]
    /\ result \in {"none", "placed", "short", "refused"}

Init ==
    /\ args \in Arguments
    /\ todo = Disk
    /\ stars = [h \in Disk |-> 0]
    /\ result = "none"
-----------------------------------------------------------------------------
(* No systems wanted; or more than there are hexes, without merging.         *)
ReturnAtOnce ==
    /\ result = "none"
    /\ todo = Disk
    /\ \/ args.n = 0 /\ result' = "placed"
       \/ args.n > Capacity /\ ~args.merge /\ result' = "refused"
    /\ UNCHANGED <<args, todo, stars>>

Accepted == result = "none" /\ args.n # 0 /\ (args.n <= Capacity \/ args.merge)

(* Mutant of Within: the limit is exceeded by one.                           *)
WithinOneMore(h) == {j \in Placed : Distance(h, j) <= args.minimumDistance + 1}

(* nearestPlacementWithinDistance: the candidates for the tie-breaking roll. *)
Within(h) == {j \in Placed : Distance(h, j) <= args.minimumDistance}
Nearest(h) == {j \in Within(h) : \A i \in Within(h) : Distance(h, j) <= Distance(h, i)}

(* Mutant of MergeCandidate: merge is not looked at.                         *)
MergeAlways(h) ==
    /\ Accepted /\ h \in todo
    /\ \E j \in Nearest(h) :
          stars' = [stars EXCEPT ![j] = IF @ < 5 THEN @ + 1 ELSE @]
    /\ todo' = todo \ {h}
    /\ UNCHANGED <<args, result>>

(* The star goes to one of the nearest systems; five is the most it takes.   *)
MergeCandidate(h) ==
    /\ Accepted /\ h \in todo
    /\ \E j \in Nearest(h) :
          stars' = [stars EXCEPT ![j] = IF args.merge /\ @ < 5 THEN @ + 1 ELSE @]
    /\ todo' = todo \ {h}
    /\ UNCHANGED <<args, result>>

(* Mutant of PlaceCandidate: a merging placement is placed as well.          *)
PlaceAnyway(h) ==
    /\ Accepted /\ h \in todo
    /\ stars' = [stars EXCEPT ![h] = 1]
    /\ todo' = todo \ {h}
    /\ result' = IF Cardinality(Placed) + 1 = args.n THEN "placed" ELSE "none"
    /\ UNCHANGED args

(* A new system; the call returns when it is the n-th.                       *)
PlaceCandidate(h) ==
    /\ Accepted /\ h \in todo
    /\ Within(h) = {}
    /\ stars' = [stars EXCEPT ![h] = 1]
    /\ todo' = todo \ {h}
    /\ result' = IF Cardinality(Placed) + 1 = args.n THEN "placed" ELSE "none"
    /\ UNCHANGED args

(* "could only place %d systems": all candidates are consumed.               *)
Exhausted ==
    /\ Accepted
    /\ todo = {}
    /\ result' = "short"
    /\ UNCHANGED <<args, todo, stars>>

Next ==
    \/ ReturnAtOnce
    \/ \E h \in todo : MergeCandidate(h) \/ PlaceCandidate(h)
    \/ Exhausted

Spec == Init /\ [][Next]_vars
-----------------------------------------------------------------------------
(* Two systems are more than minimumDistance apart, whatever the order of    *)
(* the candidates.                                                           *)
Separated == \A h, j \in Placed : h # j => Distance(h, j) > args.minimumDistance

(* When the call gives up, no system could be added: every hex of the disk   *)
(* lies within minimumDistance of a system; and it returns as many as were   *)
(* asked for otherwise.                                                      *)
ShortIsFull ==
    /\ result = "short" => \A h \in Disk :
          \E j \in Placed : Distance(h, j) <= args.minimumDistance
    /\ result = "placed" => Cardinality(Placed) = args.n
    /\ result = "none" => Cardinality(Placed) < args.n \/ args.n = 0

(* Merging loses no candidate except to a system that is full: the stars are *)
(* the consumed candidates when no system has five.  Without merging every   *)
(* system has one.                                                           *)
StarsAreCandidates ==
    LET held(S) == {p \in S \X (1..6) : p[2] <= stars[p[1]]} IN
    /\ TypeOK
    /\ args.merge => /\ Cardinality(held(Placed)) <= Cardinality(Consumed)
                     /\ (\A h \in Placed : stars[h] < 5) =>
                            Cardinality(held(Placed)) = Cardinality(Consumed)
    /\ ~args.merge => \A h \in Placed : stars[h] = 1
=============================================================================
