-------------------------------- MODULE Dice --------------------------------
(***************************************************************************)
(* What the dice of internal/worldgen/generator.go and templates.go can     *)
(* make: the set of all the values that a sequence of rolls, or a clamping  *)
(* loop with random increments, can end with.                               *)
(***************************************************************************)
EXTENDS Integers

Color == {"blue", "blue-white", "white", "yellow-white", "yellow", "orange", "red"}
StarType == {"dwarf", "degenerate", "main-sequence", "giant"}
Kind == {"rocky", "gas giant"}

(* for v < least { v += Roll(1, step) }, and the loop the other way round:   *)
(* the last increment ends up to step - 1 past the bound.                    *)
RaisedTo(least, step, v) == IF v < least THEN least..(least + step - 1) ELSE {v}
LoweredTo(most, step, v) == IF v > most THEN (most - step + 1)..most ELSE {v}

(* n times plus or minus Roll(1, die), the die a quarter of the start value. *)
Swayed(v, n) == LET die == IF v \div 4 < 2 THEN 2 ELSE v \div 4
                IN (v - n * die)..(v + n * die)

sizeOfDie == [c \in Color |->
    CASE c = "blue" -> 8 [] c = "blue-white" -> 7 [] c = "white" -> 6
      [] c = "yellow-white" -> 5 [] c = "yellow" -> 4 [] c = "orange" -> 3
      [] c = "red" -> 2]

numberOfRolls == [k \in StarType |->
    CASE k = "dwarf" -> 1 [] k \in {"degenerate", "main-sequence"} -> 2
      [] k = "giant" -> 3]

(* star.NumPlanets: the sum of the rolls, less 2, and both clamping loops.   *)
PlanetCounts(k, c) ==
    LET sum == (numberOfRolls[k] - 2)..(numberOfRolls[k] * sizeOfDie[c] - 2) IN
    UNION {LoweredTo(9, 3, m) : m \in UNION {RaisedTo(1, 2, v) : v \in sum}}

(* The tables, from index 1 (Go's index 0 is a filler).                      *)
seedDiameter == <<5, 12, 13, 7, 20, 143, 121, 51, 49>>
seedTemperatureClass == <<29, 27, 11, 9, 8, 6, 5, 5, 3>>

seedIndex(n, o) == IF n <= 3 THEN 2 * o + 1 ELSE (9 * o) \div n

(* planetKindFromDiameter, and the kinds for the diameters there can be.     *)
planetKind(diameter) == IF diameter > 40 THEN "gas giant" ELSE "rocky"
Kinds(seed) == {planetKind(d) :
    d \in UNION {RaisedTo(3, 4, e) : e \in Swayed(seedDiameter[seed], 4)}}

(* In small systems the two inner planets are warmed up ...                  *)
Warmed(n, o, tc) == IF n < 4 /\ o < 3 THEN RaisedTo(12, 4, tc) ELSE {tc}

(* Mutant of Ordered: the comparison is the wrong way round.                *)
OrderedUpwards(o, previous, tc) ==
    IF o > 1 /\ previous > tc THEN previous ELSE tc

(* ... and no planet stays warmer than the one before it.                    *)
Ordered(o, previous, tc) ==
    IF o > 1 /\ previous < tc THEN previous ELSE tc
=============================================================================
