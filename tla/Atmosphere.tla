----------------------------- MODULE Atmosphere -----------------------------
(***************************************************************************)
(* The gases of one planet that is no vacuum: the choice from a window of   *)
(* five that rollPlanet (internal/worldgen/generator.go) and                *)
(* rollNonEarthAtmosphere (templates.go) make in the same way, and the      *)
(* recipe buildEarthLikeAtmosphere has for home worlds.                     *)
(***************************************************************************)
EXTENDS Integers, FiniteSets

CONSTANT Quantities  \* what a roll of up to 100 makes

ASSUME QuantityAssumption == 1 \in Quantities /\ Quantities \subseteq 1..100

AtmosphericGas == 1..13
GasHe == 3
GasNH3 == 4
GasN2 == 5
GasCO2 == 6
GasO2 == 7

VARIABLES air,     \* the planet's gases, and where the loop is
          percent  \* of each gas, once they are settled

airVars == <<air, percent>>

NoGas == [g \in AtmosphericGas |-> 0]

AirTypeOK ==
    /\ air \in [at : {"none", "choosing", "chosen", "earth-like"}, tc : 0..30,
                wanted : 0..4, i : 0..14, quantity : [AtmosphericGas -> {0} \cup Quantities]]
    /\ percent \in [AtmosphericGas -> 0..100]

NoAir == [at |-> "none", tc |-> 0, wanted |-> 0, i |-> 0, quantity |-> NoGas]
AirInit == air = NoAir /\ percent = NoGas
-----------------------------------------------------------------------------
minGasIndex(tc) == LET n == (100 * tc) \div 225 IN
                   IF n < 1 THEN 1 ELSE IF n > 9 THEN 9 ELSE n
maxGasIndex(tc) == minGasIndex(tc) + 4

Total(f) == f[1] + f[2] + f[3] + f[4] + f[5] + f[6] + f[7] + f[8] + f[9] + f[10] + f[11] + f[12]
            + f[13]
Found == {g \in AtmosphericGas : air.quantity[g] # 0}

(* D4(2) / 2 gases are wanted.                                               *)
StartGases(tc) == \E wanted \in 1..4 :
    /\ air.at = "none"
    /\ air' = [air EXCEPT !.at = "choosing", !.tc = tc, !.wanted = wanted, !.i = minGasIndex(tc)]
    /\ UNCHANGED percent

AtGas == air.at = "choosing" /\ air.i <= maxGasIndex(air.tc) /\ Cardinality(Found) < air.wanted

SkipGas ==
    /\ AtGas
    /\ air' = [air EXCEPT !.i = @ + 1]
    /\ UNCHANGED percent

(* Helium needs a cold planet.                                               *)
TakeGas ==
    /\ AtGas
    /\ air.i = GasHe => air.tc <= 5
    /\ LET maxQty == IF air.i = GasHe THEN 20 ELSE IF air.i = GasO2 THEN 50 ELSE 100 IN
       \E q \in Quantities :
          /\ q <= maxQty
          /\ air' = [air EXCEPT !.i = @ + 1, !.quantity[air.i] = q]
    /\ UNCHANGED percent

(* Mutant of TryAgain: the loop goes on where the window ended.              *)
TryOn ==
    /\ air.at = "choosing" /\ air.i > maxGasIndex(air.tc) /\ Found = {}
    /\ UNCHANGED airVars

(* All were skipped: the window is gone through again.                       *)
TryAgain ==
    /\ air.at = "choosing" /\ air.i > maxGasIndex(air.tc) /\ Found = {}
    /\ air' = [air EXCEPT !.i = minGasIndex(air.tc)]
    /\ UNCHANGED percent

(* Mutant of Percentages: what the divisions lose is lost.                   *)
RoundedDown(quantity, first) ==
    [g \in AtmosphericGas |-> (100 * quantity[g]) \div Total(quantity)]

(* The divisions round down, and the rest goes to the gas found first.       *)
Percentages(quantity, first) ==
    LET down == [g \in AtmosphericGas |-> (100 * quantity[g]) \div Total(quantity)] IN
    [down EXCEPT ![first] = @ + 100 - Total(down)]

NormalizeGases ==
    /\ air.at = "choosing" /\ ~AtGas /\ Found # {}
    /\ \E first \in Found :
          /\ \A g \in Found : first <= g
          /\ percent' = Percentages(air.quantity, first)
    /\ air' = [air EXCEPT !.at = "chosen"]

(* A share of NH3 and CO2 each or none, some O2, and N2 for what is left.    *)
buildEarthLikeAtmosphere ==
    /\ air.at = "none"
    /\ \E nh3, co2 \in {0} \cup (Quantities \cap 1..30), o2 \in Quantities \cap 1..20 :
          percent' = [NoGas EXCEPT ![GasNH3] = nh3, ![GasCO2] = co2, ![GasO2] = o2 + 10,
                                   ![GasN2] = 100 - (nh3 + co2 + o2 + 10)]
    /\ air' = [air EXCEPT !.at = "earth-like"]

ChooseGases == SkipGas \/ TakeGas \/ TryAgain \/ NormalizeGases
-----------------------------------------------------------------------------
(* rollPlanet and templates.go: the gases make up one hundred percent, what- *)
(* ever the divisions lost; they are one to four of one window, and helium is*)
(* never found in the heat.  A home world keeps nitrogen and oxygen.         *)
AtmosphereIsWhole ==
    LET gases == {g \in AtmosphericGas : percent[g] # 0} IN
    /\ air.at \in {"chosen", "earth-like"} => Total(percent) = 100
    /\ air.at = "chosen" =>
          /\ Cardinality(Found) \in 1..4 /\ gases \subseteq Found
          /\ \A g, h \in Found : g - h <= 4
          /\ GasHe \in gases => air.tc <= 5
    /\ air.at = "earth-like" => percent[GasN2] >= 10 /\ percent[GasO2] \in 11..30
=============================================================================
