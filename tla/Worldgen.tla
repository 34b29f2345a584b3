------------------------------- MODULE Worldgen -------------------------------
(***************************************************************************)
(* The stages of internal/worldgen together.  A caller asks for the home    *)
(* star templates, or for a cluster: GenerateCluster has the systems placed *)
(* on the hexes, goes on with whatever was placed, also when the placement  *)
(* fails, and the deposits follow.  Each stage has a random stream of its   *)
(* own (PRNG.Split), so that no stage decides what another one rolls.  What *)
(* decides nothing about other planets is looked at for one planet alone.   *)
(***************************************************************************)
EXTENDS Placement, HomeTemplates, ClusterIds, Surface

VARIABLE stage  \* what the caller is waiting for

worldVars == <<vars, starVars, templateVars, clusterVars, surfaceVars, stage>>

(* The arguments of placeHexSystems while it is not running.                 *)
NoArguments == CHOOSE a \in Arguments : TRUE

WorldInit ==
    /\ stage \in {"templates", "placement", "planet"}
    /\ Init /\ StarInit /\ TemplatesInit /\ ClusterInit /\ SurfaceInit
    /\ stage # "placement" => args = NoArguments

(* placeHexSystems returns its placements, in the order it made them, and    *)
(* its locals are gone.                                                      *)
GenerateCluster ==
    /\ stage = "placement" /\ stage' = "cluster"
    /\ result # "none"
    /\ placements' \in {p \in Placements :
          /\ Len(p) = Cardinality(Placed)
          /\ \A k \in 1..5 : Cardinality({i \in 1..Len(p) : p[i] = k}) =
                             Cardinality({h \in Placed : stars[h] = k})}
    /\ args' = NoArguments /\ todo' = Disk /\ stars' = [h \in Disk |-> 0] /\ result' = "none"
    /\ UNCHANGED <<starVars, templateVars, surfaceVars, Systems, Stars, Planets, Deposits, next>>

WorldNext ==
    \/ /\ stage = "templates" /\ TemplatesNext
       /\ UNCHANGED <<vars, clusterVars, surfaceVars, stage>>
    \/ /\ stage = "placement" /\ Next
       /\ UNCHANGED <<starVars, templateVars, clusterVars, surfaceVars, stage>>
    \/ GenerateCluster
    \/ /\ stage = "cluster" /\ ClusterNext
       /\ UNCHANGED <<vars, templateVars, surfaceVars, stage>>
    \/ /\ stage = "planet" /\ SurfaceNext
       /\ UNCHANGED <<vars, starVars, templateVars, clusterVars, stage>>

WorldSpec == WorldInit /\ [][WorldNext]_worldVars

(* The loop over the gases goes on, and the dice of a gas, which are rolled  *)
(* again and again, take it one day (with probability one).                  *)
PlanetStep(A) == stage = "planet" /\ ground.at = "breathing" /\ A
    /\ UNCHANGED <<vars, starVars, templateVars, clusterVars, ground, stage>>

WorldFairness ==
    /\ WF_worldVars(PlanetStep(ChooseGases))
    /\ SF_worldVars(PlanetStep(TakeGas))

FairWorldSpec == WorldSpec /\ WorldFairness
-----------------------------------------------------------------------------
(* Planets farther out are not warmer, in the stars of a cluster and in home *)
(* templates, where the home world's class is set after the ordering.        *)
ColderOutwards == CoolsOutwards /\ TemplateColderOutwards

(* rollPlanet and rollNonEarthAtmosphere: the choice of gases, repeated with- *)
(* out a bound while nothing was found, comes to an end, since every window  *)
(* has gases that the heat does not exclude, and is gone through anew.       *)
GasesAreFound == air.at = "choosing" ~> air.at = "chosen"
=============================================================================
