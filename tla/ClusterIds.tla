----------------------------- MODULE ClusterIds -----------------------------
(***************************************************************************)
(* How a cluster is put together from its placements: GenerateCluster       *)
(* (internal/worldgen/generator.go) numbers systems, stars and planets in   *)
(* three flat slices that refer to each other by id, GenerateDeposits       *)
(* (deposits.go) adds the deposits of each planet, and the queries of       *)
(* cluster.go walk the slices.  A failed placement changes nothing here:    *)
(* the systems that were placed go through both stages all the same.        *)
(***************************************************************************)
EXTENDS StarRolls, Sequences, FiniteSets

CONSTANTS Placements,     \* sequences of the star counts of the systems placed
          OrbitCounts,    \* bound on NumPlanets: stars with others are not taken
          DepositCounts   \* what rollNumDeposits makes

ASSUME PlacementAssumption == \A p \in Placements : p \in Seq(1..5)
ASSUME CountAssumption == OrbitCounts \subseteq 1..9 /\ DepositCounts \subseteq 1..40

VARIABLES placements,  \* of this cluster
          Systems, Stars, Planets, Deposits,  \* the slices of the cluster
          next         \* nextSystemID, nextStarID, nextPlanetID
clusterVars == <<placements, Systems, Stars, Planets, Deposits, next>>

ClusterTypeOK ==
    /\ Systems \in Seq([ID : Nat])
    /\ Stars \in Seq([ID : Nat, SystemID : Nat, NumPlanets : 1..9])
    /\ Planets \in Seq([ID : Nat, StarID : Nat, Orbit : 1..9])
    /\ Deposits \in Seq([ID : Nat, PlanetID : Nat, n : 1..40])
    /\ next \in [system : Nat, star : Nat, planet : Nat]

ClusterInit ==
    /\ placements = <<>>
    /\ Systems = <<>> /\ Stars = <<>> /\ Planets = <<>> /\ Deposits = <<>>
    /\ next = [system |-> 1, star |-> 1, planet |-> 1]
-----------------------------------------------------------------------------
(* The queries of cluster.go walk a slice once and return, in its order, what *)
(* fits: here the positions where they find it.                              *)
StarsForSystem(id) == {i \in 1..Len(Stars) : Stars[i].SystemID = id}
PlanetsForStar(id) == {j \in 1..Len(Planets) : Planets[j].StarID = id}
PlanetsForSystem(id) ==
    {j \in 1..Len(Planets) : \E i \in StarsForSystem(id) : Stars[i].ID = Planets[j].StarID}
DepositsForPlanet(id) == {d \in 1..Len(Deposits) : Deposits[d].PlanetID = id}

CountMultiStarSystems ==
    Cardinality({id \in {Stars[i].SystemID : i \in 1..Len(Stars)} :
                    Cardinality(StarsForSystem(id)) > 1})

(* The system in the making, the last one, has all its stars.                *)
Complete == Len(Systems) # 0 =>
    Cardinality(StarsForSystem(Systems[Len(Systems)].ID)) = placements[Len(Systems)]

AddSystem ==
    /\ Len(Systems) < Len(placements) /\ Complete
    /\ Systems' = Append(Systems, [ID |-> next.system])
    /\ next' = [next EXCEPT !.system = @ + 1]
    /\ UNCHANGED <<starVars, placements, Stars, Planets, Deposits>>

(* Mutant of PlanetsOf: every star numbers its planets from 1.               *)
PlanetsOfAnew(n) == [o \in 1..n |-> [ID |-> o, StarID |-> next.star, Orbit |-> o]]

PlanetsOf(n) ==
    [o \in 1..n |-> [ID |-> next.planet + o - 1, StarID |-> next.star, Orbit |-> o]]

AddStar ==
    /\ ~Complete /\ TakeStar
    /\ Stars' = Append(Stars, [ID |-> next.star, NumPlanets |-> NumPlanets,
                               SystemID |-> Systems[Len(Systems)].ID])
    /\ Planets' = Planets \o PlanetsOf(NumPlanets)
    /\ next' = [next EXCEPT !.star = @ + 1, !.planet = @ + NumPlanets]
    /\ UNCHANGED <<placements, Systems, Deposits>>

DepositID(p, n) == p * 100 + n

(* The deposits of the next planet; there is always at least one.            *)
GenerateDeposits ==
    /\ Len(Systems) = Len(placements) /\ Complete
    /\ \E i \in 1..Len(Planets) :
          /\ DepositsForPlanet(Planets[i].ID) = {}
          /\ \A j \in 1..(i - 1) : DepositsForPlanet(Planets[j].ID) # {}
          /\ \E count \in DepositCounts :
                Deposits' = Deposits \o
                    [n \in 1..count |-> [ID |-> DepositID(Planets[i].ID, n),
                                         PlanetID |-> Planets[i].ID, n |-> n]]
    /\ UNCHANGED <<starVars, placements, Systems, Stars, Planets, next>>

ClusterNext ==
    \/ AddSystem
    \/ /\ ~Complete
       /\ (rollStar /\ NumPlanets' \in OrbitCounts) \/ rollPlanet
       /\ UNCHANGED clusterVars
    \/ AddStar
    \/ GenerateDeposits
-----------------------------------------------------------------------------
Distinct(s) == \A i, j \in 1..Len(s) : s[i].ID = s[j].ID => i = j

(* internal/worldgen/deposits.go: the gap between the deposit ids of two     *)
(* planets is never used up: an id tells its planet and its index, and no    *)
(* two deposits of the cluster share one.                                    *)
DepositIdsTellThePlanet ==
    /\ Distinct(Deposits)
    /\ \A d \in 1..Len(Deposits) :
          /\ Deposits[d].ID \div 100 = Deposits[d].PlanetID
          /\ Deposits[d].ID % 100 = Deposits[d].n

(* Of a star one finds its planets, from the innermost outwards, and nothing *)
(* between them: their orbits are 1..NumPlanets in this order.               *)
OrbitsAreInOrder ==
    \A i \in 1..Len(Stars) :
        LET ps == PlanetsForStar(Stars[i].ID) IN
        /\ {Planets[j].Orbit : j \in ps} = 1..Stars[i].NumPlanets
        /\ \A j, k \in ps : j < k => Planets[j].Orbit < Planets[k].Orbit

(* Every planet is found under exactly one star and exactly one system.      *)
PlanetsAreFoundOnce ==
    \A j \in 1..Len(Planets) :
        /\ \E i \in 1..Len(Stars) :
              \A k \in 1..Len(Stars) : j \in PlanetsForStar(Stars[k].ID) <=> k = i
        /\ \E i \in 1..Len(Systems) :
              \A k \in 1..Len(Systems) : j \in PlanetsForSystem(Systems[k].ID) <=> k = i

(* The flat slices are a tree: what a query finds under a star or a system   *)
(* is what was made for it, there are as many multi-star systems as were     *)
(* placed, and every deposit id tells its planet (generator.go, cluster.go,  *)
(* deposits.go).                                                             *)
SlicesAreTree ==
    /\ StarTypeOK /\ ClusterTypeOK
    /\ DepositIdsTellThePlanet
    /\ Distinct(Systems) /\ Distinct(Stars) /\ Distinct(Planets)
    /\ OrbitsAreInOrder
    /\ PlanetsAreFoundOnce
    /\ Len(Systems) = Len(placements) /\ Complete =>
          CountMultiStarSystems = Cardinality({i \in 1..Len(placements) : placements[i] > 1})
=============================================================================
