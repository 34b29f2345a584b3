------------------------------ MODULE StarRolls ------------------------------
(***************************************************************************)
(* rollStar and rollPlanet of internal/worldgen/generator.go: the number of *)
(* planets of a star, and the planets from the innermost outwards with      *)
(* their kind and temperature class; each depends on the one before it.     *)
(* Density, gravity, pressure, gases and mining difficulty decide nothing   *)
(* about the next planet and are left out.                                  *)
(*                                                                          *)
(* rollStar is called for the candidates of the home templates and for the  *)
(* stars of a cluster: TakeStar is its return to either of them.  A value   *)
(* that dice make is any of those module Dice says they can make.           *)
(***************************************************************************)
EXTENDS Dice

VARIABLES NumPlanets, \* of the star in the making; 0 when there is none
          orbit,      \* how many of its planets have been rolled
          planet      \* the planet rolled last

starVars == <<NumPlanets, orbit, planet>>

NoPlanet == [kind |-> "rocky", tc |-> 0]

StarTypeOK ==
    /\ NumPlanets \in 0..9
    /\ orbit \in 0..9
    /\ planet \in [kind : Kind, tc : 0..30]

StarInit == NumPlanets = 0 /\ orbit = 0 /\ planet = NoPlanet
-----------------------------------------------------------------------------
rollStar ==
    /\ NumPlanets = 0
    /\ \E k \in StarType, c \in Color : NumPlanets' \in PlanetCounts(k, c)
    /\ UNCHANGED <<orbit, planet>>

(* The temperature classes after the rolls and the clamp of the kind.        *)
Temperatures(seed, kind) ==
    LET least == IF kind = "gas giant" THEN 3 ELSE 1
        most == IF kind = "gas giant" THEN 7 ELSE 30
        rolled == UNION {Swayed(seedTemperatureClass[seed], n) : n \in 3..9} IN
    UNION {LoweredTo(most, 2, v) : v \in UNION {RaisedTo(least, 2, w) : w \in rolled}}

rollPlanet ==
    LET o == orbit + 1
        n == NumPlanets
        seed == seedIndex(n, o) IN
    /\ o <= n
    /\ orbit' = o
    /\ \E k \in Kinds(seed) : \E t \in Temperatures(seed, k) : \E w \in Warmed(n, o, t) :
          planet' = [kind |-> k, tc |-> Ordered(o, planet.tc, w)]
    /\ UNCHANGED NumPlanets

(* The star and all its planets are there, and the caller takes them.        *)
StarRolled == NumPlanets # 0 /\ orbit = NumPlanets

TakeStar ==
    /\ StarRolled
    /\ NumPlanets' = 0 /\ orbit' = 0 /\ planet' = NoPlanet
-----------------------------------------------------------------------------
(* reference/planet-generation.md: "Planets farther from the star must not   *)
(* be warmer than planets closer to it", through the caps of gas giants; and *)
(* the cut to the planet before never undoes the warming of the two inner    *)
(* planets of a small system.                                                *)
CoolsOutwards == [][
    orbit' = orbit + 1 =>
        /\ orbit # 0 => planet'.tc <= planet.tc
        /\ NumPlanets < 4 /\ orbit' < 3 => planet'.tc >= 12]_starVars
=============================================================================
