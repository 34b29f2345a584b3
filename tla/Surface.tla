------------------------------- MODULE Surface -------------------------------
(***************************************************************************)
(* What rollPlanet (internal/worldgen/generator.go) and the attempts of     *)
(* templates.go roll for a planet once its size and its temperature class   *)
(* are known, and decides nothing about the next planet: pressure, gases,   *)
(* mining difficulty, one of its deposits (deposits.go), and what a planet  *)
(* of a template adds to the viability score.                               *)
(*                                                                          *)
(* Quantities count in units of 50,000, yields in hundredths, and mining    *)
(* difficulties of a cluster in fifths (md * 11 / 5 is no integer).         *)
(***************************************************************************)
EXTENDS Atmosphere, Dice

CONSTANT Bodies  \* the planets looked at: pairs of diameter and temperature class

ASSUME BodyAssumption == Bodies \subseteq (3..283) \X (1..30)

VARIABLE ground  \* the planet, and how far it is

surfaceVars == <<airVars, ground>>

Resource == {"none", "fuel", "gold", "metal", "non-metal"}
NoDeposit == [resource |-> "none", quantity |-> 0, yield |-> 0]
NoGround == [at |-> "none", template |-> FALSE, diameter |-> 0, tc |-> 0,
             pressure |-> 0, md |-> 0, deposit |-> NoDeposit]

SurfaceTypeOK ==
    /\ AirTypeOK
    /\ ground \in [at : {"none", "sized", "pressed", "breathing", "mined", "done"},
                   template : BOOLEAN, diameter : 0..283, tc : 0..30,
                   pressure : 0..29, md : 0..(500 * 11),
                   deposit : [resource : Resource, quantity : 0..1980, yield : 0..100]]

SurfaceInit == AirInit /\ ground = NoGround
-----------------------------------------------------------------------------
RollBody == \E b \in Bodies, template \in BOOLEAN :
    /\ ground.at = "none"
    /\ ground' = [ground EXCEPT !.at = "sized", !.template = template,
                                !.diameter = b[1], !.tc = b[2]]
    /\ UNCHANGED airVars

(* Density times 100.                                                        *)
Densities(kind) == IF kind = "gas giant" THEN 60..170 ELSE 370..570

(* floor(gravity * 10); where the quotient is whole, the floating point      *)
(* product may fall below it.                                                *)
Gravities(diameter, kind) == UNION {
    LET p == density * diameter IN {p \div 720} \cup IF p % 720 = 0 THEN {p \div 720 - 1} ELSE {}
    : density \in Densities(kind)}

Pressures(diameter, kind) ==
    LET least == IF kind = "gas giant" THEN 11 ELSE 0
        most == IF kind = "gas giant" THEN 29 ELSE 12
        rolled == UNION {UNION {Swayed(g, n) : n \in 3..9} : g \in Gravities(diameter, kind)} IN
    UNION {LoweredTo(most, 3, v) : v \in UNION {RaisedTo(least, 3, w) : w \in rolled}}

(* templates.go: no air in the extremes (and where gravity is less than 10,  *)
(* which no planet has).                                                     *)
Airless(template, tc) == template /\ (tc < 2 \/ tc > 27)

RollPressure ==
    /\ ground.at = "sized"
    /\ \E p \in Pressures(ground.diameter, planetKind(ground.diameter)) :
          ground' = [ground EXCEPT !.at = "pressed",
                        !.pressure = IF Airless(ground.template, ground.tc) THEN 0 ELSE p]
    /\ UNCHANGED airVars

(* A vacuum has no gases.  The gases decide nothing about what is rolled after *)
(* them: they are gone through by themselves, and of the planet what the score *)
(* reads with them is kept.                                                  *)
Breathe ==
    /\ ground.at = "pressed"
    /\ ground.pressure > 0
    /\ StartGases(ground.tc)
    /\ ground' = [NoGround EXCEPT !.at = "breathing", !.template = ground.template,
                                  !.tc = ground.tc, !.pressure = ground.pressure]

(* The home world, the planet the override takes: everything is replaced.    *)
RollHomeWorld ==
    /\ ground.at = "none"
    /\ \E tc \in 10..12, p \in 9..11, md \in 210..230 :
          ground' = [ground EXCEPT !.at = "done", !.template = TRUE, !.diameter = 12,
                                   !.tc = tc, !.pressure = p, !.md = md]
    /\ buildEarthLikeAtmosphere
-----------------------------------------------------------------------------
(* The rolls are repeated until they fit.                                    *)
MiningDifficulties(template, diameter) ==
    LET factors == IF template THEN (-1)..8 ELSE (-2)..5
        offsets == IF template THEN 2..40 ELSE 2..60
        accepted == IF template THEN 30..1000 ELSE 40..500 IN
    {v \in accepted : \E f \in factors, s \in 1..diameter : v - f * s \in offsets}

(* The factor of 11/5 is for planets of a cluster only.                      *)
Fudged(template, md) == IF template THEN md ELSE 11 * md

(* Of the planet its kind is enough from here on.                            *)
RollMiningDifficulty ==
    /\ ground.at = "pressed"
    /\ \E md \in MiningDifficulties(ground.template, ground.diameter) :
          ground' = [NoGround EXCEPT !.at = IF ground.template THEN "done" ELSE "mined",
                                     !.template = ground.template,
                                     !.diameter = IF ground.diameter > 40 THEN 41 ELSE 3,
                                     !.md = Fudged(ground.template, md)]
    /\ UNCHANGED airVars

(* triangularQuantity, with both dice at an end.                             *)
triangularQuantity(step, sides) == {step * (a + b) : a, b \in {1, sides}}
Ores(resource, quantities, yields) ==
    [resource : {resource}, quantity : quantities, yield : yields]

(* rollGasGiantDeposit and rollRockyDeposit, for every roll of the hundred-  *)
(* sided die; no planet is an asteroid belt.                                 *)
gasGiantDeposits ==
    Ores("fuel", triangularQuantity(10, 99), 8..38)
    \cup UNION {Ores(r, triangularQuantity(10, 99), 10..60) : r \in {"metal", "non-metal"}}

rockyDeposits(hardMD) ==
    Ores("gold", triangularQuantity(1, 10), IF hardMD THEN 1..3 ELSE 0..9)
    \cup Ores("fuel", triangularQuantity(10, 99), IF hardMD THEN 8..38 ELSE 10..80)
    \cup UNION {Ores(r, triangularQuantity(10, 99), IF hardMD THEN 10..60 ELSE 10..80) :
                   r \in {"metal", "non-metal"}}

Hard == ground.md >= 5 * 500

(* One deposit of a planet of a cluster; of the difficulty it is enough to   *)
(* keep on which side of the threshold it is.                                *)
RollDeposit ==
    /\ ground.at = "mined"
    /\ \E d \in IF planetKind(ground.diameter) = "gas giant" THEN gasGiantDeposits
                                                             ELSE rockyDeposits(Hard) :
          ground' = [ground EXCEPT !.at = "done", !.deposit = d,
                                   !.md = IF Hard THEN 5 * 500 ELSE 5 * 88]
    /\ UNCHANGED airVars

SurfaceNext ==
    \/ RollBody \/ RollPressure \/ Breathe \/ RollMiningDifficulty \/ RollDeposit
    \/ RollHomeWorld
    \/ ground.at = "breathing" /\ ChooseGases /\ UNCHANGED ground
-----------------------------------------------------------------------------
(* approximateLSN of one planet for the life of another.                     *)
absInt(x) == IF x < 0 THEN -x ELSE x

(* Mutant of approximateLSN: it does not start by assuming no oxygen.        *)
breathableLSN(candidate, home) ==
    2 * absInt(candidate.tc - home.tc) + 2 * absInt(candidate.pressure - home.pressure)
    - (IF GasO2 \in candidate.gases THEN 2 ELSE 0)
    + 2 * Cardinality(candidate.gases \ home.gases)

approximateLSN(candidate, home) ==
    2 * absInt(candidate.tc - home.tc) + 2 * absInt(candidate.pressure - home.pressure)
    + 2 - (IF GasO2 \in candidate.gases THEN 2 ELSE 0)
    + 2 * Cardinality(candidate.gases \ home.gases)

(* What it adds to computeViabilityScore.                                    *)
Contribution(candidate, home, md) == 20000 \div ((3 + approximateLSN(candidate, home)) * (50 + md))

Homes == [tc : 10..12, pressure : 9..11,
          gases : {{GasN2, GasO2} \cup s : s \in SUBSET {GasNH3, GasCO2}}]

HomeWorld == air.at = "earth-like"
Here == [tc |-> ground.tc, pressure |-> ground.pressure,
         gases |-> IF HomeWorld THEN {g \in AtmosphericGas : percent[g] # 0} ELSE Found]

(* The home world alone scores 23 to 25, and no planet adds more than 83: the *)
(* divisor of the score stays positive although the life support number is    *)
(* lowered for oxygen (templates.go).                                         *)
ScoreIsBounded ==
    /\ HomeWorld => Contribution(Here, Here, ground.md) \in 23..25
    /\ ground.template /\ (ground.at = "pressed" \/ air.at = "chosen") =>
          \A home \in Homes : Contribution(Here, home, 30) \in 0..83

(* A gas giant is without air only where a template took it away for the cold. *)
PressureIsSound ==
    ground.at = "pressed" /\ planetKind(ground.diameter) = "gas giant" =>
        ground.pressure \in 11..29 \/ Airless(ground.template, ground.tc)

(* The retries for a mining difficulty can end, for every size, and with the *)
(* factor it is between 88 and 1100.                                         *)
DifficultyIsSound ==
    /\ ground.at = "pressed" => MiningDifficulties(ground.template, ground.diameter) # {}
    /\ ground.at = "mined" => ground.md \in (5 * 88)..(5 * 1100)

(* A deposit yields no more than all there is, and something at least, except *)
(* gold that is easy to mine.                                                *)
Positive(d) == d.yield \in 1..100
Plenty(d) == d.quantity \in 2..1980

DepositIsSound ==
    ground.deposit # NoDeposit =>
        /\ Positive(ground.deposit) \/ (ground.deposit.resource = "gold" /\ ~Hard)
        /\ Plenty(ground.deposit)

(* rollPlanet, templates.go and deposits.go: what is rolled for a planet     *)
(* stays within the bounds of its kind, and what it scores with it.          *)
SurfaceIsSound ==
    /\ SurfaceTypeOK
    /\ PressureIsSound
    /\ DifficultyIsSound
    /\ DepositIsSound
    /\ ScoreIsBounded

(* design/natural-resource-deposits.md: "YieldPct float64 // 0.01..1.00", and *)
(* "the dice tables below produce an integer 1..100".                         *)
YieldIsPositive == ground.deposit # NoDeposit => Positive(ground.deposit)
=============================================================================
