---------------------------- MODULE HomeTemplates ----------------------------
(***************************************************************************)
(* GenerateHomeStarTemplates of internal/worldgen/templates.go: candidate   *)
(* stars are rolled until every planet count of Slots has a template or the *)
(* budget is spent, and each candidate with an open slot gets one attempt,  *)
(* generateHomeStarTemplateAttempt, which rolls its planets outwards and    *)
(* makes the first that is cool enough the home world.                      *)
(*                                                                          *)
(* The score is abstract: 0 without a home world, otherwise any of Scores   *)
(* (the home world alone gives 23 or more).                                 *)
(***************************************************************************)
EXTENDS StarRolls, FiniteSets

CONSTANTS Min, Max,  \* the viability window, exclusive on both ends
          Scores,
          MaxRolls   \* maxCandidateRolls

ASSUME WindowAssumption == Min \in Int /\ Max \in Int
ASSUME ScoreAssumption == Scores \subseteq Nat \ {0}
ASSUME BudgetAssumption == MaxRolls \in Nat \ {0}

Slots == 3..9

VARIABLES rolls,    \* candidates rolled so far
          outcomes, \* the outcome of each planet count
          filled,
          attempt   \* the attempt that is being made

templateVars == <<rolls, outcomes, filled, attempt>>

(* home is the orbit of the planet with Special = 1, 0 when there is none;   *)
(* tc belongs to the planet rolled last.                                     *)
Attempt == [n : {0} \cup Slots, orbit : 0..9, tc : 0..30, home : 0..9]
NoAttempt == [n |-> 0, orbit |-> 0, tc |-> 0, home |-> 0]

(* template: the score and the home of the accepted template, if any.        *)
NoTemplate == [score |-> 0, home |-> 0]

TemplatesTypeOK ==
    /\ rolls \in 0..MaxRolls
    /\ outcomes \in [Slots -> [template : [score : {0} \cup Scores, home : 0..9],
                               has : BOOLEAN, Attempts : 0..MaxRolls,
                               BestScore : {0} \cup Scores]]
    /\ filled \in 0..7
    /\ attempt \in Attempt

TemplatesInit ==
    /\ rolls = 0
    /\ outcomes = [n \in Slots |-> [template |-> NoTemplate, has |-> FALSE,
                                    Attempts |-> 0, BestScore |-> 0]]
    /\ filled = 0
    /\ attempt = NoAttempt
-----------------------------------------------------------------------------
(* window.Accepts.                                                           *)
Accepts(score) == score > Min /\ score < Max

(* The driver rolls candidates until the slots are filled or the budget is   *)
(* spent.                                                                    *)
Searching == attempt.n = 0 /\ rolls < MaxRolls /\ filled < 7

(* Mutant of TakeCandidate: a slot that is filled is tried again.            *)
TakeAnyCandidate ==
    /\ Searching /\ TakeStar
    /\ rolls' = rolls + 1
    /\ attempt' = IF NumPlanets \in Slots THEN [NoAttempt EXCEPT !.n = NumPlanets] ELSE NoAttempt
    /\ UNCHANGED <<outcomes, filled>>

(* One turn of the loop, after rollStar: only the candidate's number of      *)
(* planets is used, and one without an open slot counts all the same.        *)
TakeCandidate ==
    /\ Searching /\ TakeStar
    /\ rolls' = rolls + 1
    /\ attempt' = IF NumPlanets \in Slots /\ (NumPlanets \in Slots => ~outcomes[NumPlanets].has)
                  THEN [NoAttempt EXCEPT !.n = NumPlanets] ELSE NoAttempt
    /\ UNCHANGED <<outcomes, filled>>

(* The clamps of templates.go are wider for rocky planets.                   *)
TemplateTemperatures(seed, kind) ==
    LET least == IF kind = "gas giant" THEN 3 ELSE 1
        most == IF kind = "gas giant" THEN 7 ELSE 30
        step == IF kind = "gas giant" THEN 2 ELSE 3
        rolled == UNION {Swayed(seedTemperatureClass[seed], n) : n \in 3..9} IN
    UNION {LoweredTo(most, step, v) : v \in UNION {RaisedTo(least, step, w) : w \in rolled}}

(* Mutant of EarthLike: an off-by-one in the threshold.                      *)
EarthLikeBelow(home, tc) == home = 0 /\ tc <= 10

(* The override: once, for the first planet whose class is at most 11.       *)
EarthLike(home, tc) == home = 0 /\ tc <= 11

RollTemplatePlanet ==
    LET o == attempt.orbit + 1
        n == attempt.n
        seed == seedIndex(n, o) IN
    /\ n # 0 /\ o <= n
    /\ \E k \in Kinds(seed) : \E t \in TemplateTemperatures(seed, k) :
       \E w \in Warmed(n, o, t) :
          LET tc == Ordered(o, attempt.tc, w) IN
          IF EarthLike(attempt.home, tc)
          THEN \E e \in 10..12 :
                  attempt' = [attempt EXCEPT !.orbit = o, !.tc = e, !.home = o]
          ELSE attempt' = [attempt EXCEPT !.orbit = o, !.tc = tc]
    /\ UNCHANGED <<starVars, rolls, outcomes, filled>>

(* computeViabilityScore, as far as the driver can tell.                     *)
ViabilityScores == IF attempt.home = 0 THEN {0} ELSE Scores

Outcome(slot, s) ==
    [slot EXCEPT !.Attempts = @ + 1,
                 !.BestScore = IF s > @ THEN s ELSE @,
                 !.has = Accepts(s),
                 !.template = IF Accepts(s) THEN [score |-> s, home |-> attempt.home] ELSE @]

FinishAttempt ==
    /\ attempt.n # 0 /\ attempt.orbit = attempt.n
    /\ \E s \in ViabilityScores :
          /\ outcomes' = [outcomes EXCEPT ![attempt.n] = Outcome(@, s)]
          /\ filled' = IF Accepts(s) THEN filled + 1 ELSE filled
    /\ attempt' = NoAttempt
    /\ UNCHANGED <<starVars, rolls>>

TemplatesNext ==
    \/ Searching /\ (rollStar \/ rollPlanet) /\ UNCHANGED templateVars
    \/ TakeCandidate
    \/ RollTemplatePlanet \/ FinishAttempt
-----------------------------------------------------------------------------
(* design/home-system-template-design.md: "A planet may not be warmer than   *)
(* the planet one orbit closer to the star".  The override sets its class    *)
(* after the ordering was enforced, and keeps it only because every planet   *)
(* before the home world has at least class 12.                              *)
TemplateColderOutwards == [][
    attempt.orbit # 0 /\ attempt'.orbit = attempt.orbit + 1 =>
        attempt'.tc <= attempt.tc]_attempt

(* The score of an accepted template lies in the window, and it has a home   *)
(* world, unless the window admits the score 0 of those that have none; a    *)
(* slot that was tried and has no template was missed by its best attempt    *)
(* too.  What the driver counts as filled is filled: it stops with a slot    *)
(* open only when the budget of candidates is spent.                         *)
OutcomesAreHonest ==
    /\ TemplatesTypeOK
    /\ \A n \in Slots : IF outcomes[n].has
          THEN /\ outcomes[n].template.home \in 1..n \/ (Min < 0 /\ outcomes[n].template = NoTemplate)
               /\ Accepts(outcomes[n].template.score)
               /\ outcomes[n].BestScore >= outcomes[n].template.score
          ELSE /\ outcomes[n].template = NoTemplate
               /\ outcomes[n].Attempts > 0 => ~Accepts(outcomes[n].BestScore)
    /\ filled = Cardinality({n \in Slots : outcomes[n].has})
    /\ attempt.n = 0 /\ ~Searching /\ (\E n \in Slots : ~outcomes[n].has) => rolls = MaxRolls
=============================================================================
