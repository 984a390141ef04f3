---------------------- MODULE LargeNeighbourhoodSearch ----------------------
(***************************************************************************)
(* LargeNeighbourhoodSearch::doSearch.  A move destroys a part of the      *)
(* current solution, and the solver looks for the best way to complete the *)
(* rest under a time limit of its own.  Here modelling stands for the      *)
(* whole list of move modellings, Tuple for the indices in it, and         *)
(* ValidMoves(modelling, s) for those indices whose query getRandomVars    *)
(* has an answer in s.                                                     *)
(***************************************************************************)
EXTENDS LocalSearch

CONSTANTS
  HasDomain(_, _),       \* has the move of an index a query getRandomVars?
  Regrown(_, _, _),      \* models that complete what the move leaves of a structure
  RegrownAtRandom(_, _), \* likewise for the random move with a strength
  MinDisturbSize,        \* _mMinDisturbSize, 10 in the code
  MaxDisturbSize,        \* _mMaxDisturbSize, 50 in the code
  MaxItersNoImprove,     \* _mMaxItersNoImprove, 10 in the code
  MXTIMEOUT,             \* the option when the search is constructed
  MaxInt                 \* of type int

ASSUME DisturbAssumption ==
  /\ {MinDisturbSize, MaxDisturbSize, MaxItersNoImprove, MaxInt} \subseteq Nat
  /\ MinDisturbSize < MaxDisturbSize
  /\ MXTIMEOUT \in 0 .. MaxInt
  /\ 6000 <= MaxInt
  /\ \A m \in Modelling, t \in Tuple : HasDomain(m, t) \in BOOLEAN
  /\ \A m \in Modelling, s \in Structure :
       /\ \A t \in Tuple : Regrown(m, s, t) \subseteq Structure
       /\ \A k \in MinDisturbSize .. MaxDisturbSize : RegrownAtRandom(s, k) \subseteq Structure

VARIABLES
  enabled,                       \* _lEnabledMoves
  strength,
  iterationsWithoutImprovement,
  increasedTimeLimit,
  mxTimeout                      \* the option MXTIMEOUT as it is now

lnsVars == <<enabled, strength, iterationsWithoutImprovement, increasedTimeLimit, mxTimeout>>
vars == <<baseVars, lnsVars>>

Ints == -(MaxInt + 1) .. MaxInt

(* The search is over before there are more failures in a row. *)
MostFailures == MaxItersNoImprove + (MaxDisturbSize - MinDisturbSize)

TypeOK ==
  /\ BaseTypeOK
  /\ enabled \subseteq Tuple
  /\ strength \in MinDisturbSize .. MaxDisturbSize
  /\ iterationsWithoutImprovement \in 0 .. MostFailures
  /\ increasedTimeLimit \in Ints /\ mxTimeout \in Ints

(* processInputData enables every move. *)
Init ==
  /\ BaseInit
  /\ enabled = Tuple
  /\ strength = MinDisturbSize /\ iterationsWithoutImprovement = 0
  /\ increasedTimeLimit = MXTIMEOUT /\ mxTimeout = MXTIMEOUT

(* Mutant: moves stay enabled. *)
signalChangeCurrentSolution_no(s) == enabled' = enabled

(* Moves whose random variables have no values in s are disabled. *)
signalChangeCurrentSolution(s) ==
  enabled' = {t \in enabled : HasDomain(modelling, t) => t \in ValidMoves(modelling, s)}

(* The solver has 6000 seconds for the initial solution, then its own limit. *)
Start ==
  /\ BaseStart
  /\ IF pc' = "crashed"
       THEN mxTimeout' = 6000 /\ UNCHANGED enabled
       ELSE mxTimeout' = MXTIMEOUT /\ signalChangeCurrentSolution(initialSol')
  /\ UNCHANGED <<strength, iterationsWithoutImprovement, increasedTimeLimit>>

LeaveLoop == TimeoutAtHead /\ UNCHANGED lnsVars

Stuck == iterationsWithoutImprovement >= MaxItersNoImprove

(* Mutants: strength grows with every iteration, or never. *)
NextStrength_always == strength + 1
NextStrength_never == strength

NextStrength == IF Stuck THEN strength + 1 ELSE strength

(* Beyond the largest int the sum of two goes on at the least. *)
Sum(x, y) == IF x + y > MaxInt THEN x + y - 2 * (MaxInt + 1) ELSE x + y

NextTimeLimit == IF Stuck THEN Sum(increasedTimeLimit, 10) ELSE increasedTimeLimit

(* The head of an iteration.  Neither is set back when things improve. *)
Strengthen == strength' = NextStrength /\ increasedTimeLimit' = NextTimeLimit

(* Neither move nor strength is left: break. *)
GiveUp ==
  /\ ~timeout
  /\ Goto("while", "stop")
  /\ NextStrength >= MaxDisturbSize \/ enabled = {}
  /\ Strengthen
  /\ UNCHANGED <<enabled, iterationsWithoutImprovement, mxTimeout>>

(* Mutant: the move is made whatever the new objective. *)
Evaluate_accepts(s) ==
  /\ UNCHANGED <<pc, modelling, clock, initial>>
  /\ currentSol' = s /\ currentObj' = Obj(s)
  /\ signalChangeCurrentSolution(s)
  /\ IF Obj(s) < bestObjVal THEN bestSol' = s /\ bestObjVal' = Obj(s)
                            ELSE UNCHANGED best
  /\ iterationsWithoutImprovement' = 0

(* Mutant: the best solution is the one before the move. *)
Evaluate_late(s) ==
  /\ UNCHANGED <<pc, modelling, clock, initial>>
  /\ IF Obj(s) < currentObj
       THEN /\ currentSol' = s /\ currentObj' = Obj(s)
            /\ signalChangeCurrentSolution(s)
       ELSE UNCHANGED <<current, enabled>>
  /\ IF Obj(s) < bestObjVal
       THEN bestSol' = currentSol /\ bestObjVal' = Obj(s) /\ iterationsWithoutImprovement' = 0
       ELSE UNCHANGED best /\ iterationsWithoutImprovement' = iterationsWithoutImprovement + 1

(* What becomes of the solver's completion s. *)
Evaluate(s) ==
  /\ UNCHANGED <<pc, modelling, clock, initial>>
  /\ IF Obj(s) < currentObj
       THEN /\ currentSol' = s /\ currentObj' = Obj(s)
            /\ signalChangeCurrentSolution(s)
       ELSE UNCHANGED <<current, enabled>>
  /\ IF Obj(s) < bestObjVal
       THEN bestSol' = currentSol' /\ bestObjVal' = Obj(s) /\ iterationsWithoutImprovement' = 0
       ELSE UNCHANGED best /\ iterationsWithoutImprovement' = iterationsWithoutImprovement + 1

(* The solver minimises over the completions: it finds the best, a worse   *)
(* one when interrupted, or none, and then models[0] is read all the same. *)
Disturb(completions) ==
  /\ pc = "while" /\ ~timeout
  /\ NextStrength < MaxDisturbSize /\ enabled # {}
  /\ Strengthen
  /\ \/ \E s \in completions : Evaluate(s)
     \/ Crash /\ UNCHANGED <<enabled, iterationsWithoutImprovement>>

disturbFromMove ==
  \E t \in enabled : Disturb(Regrown(modelling, currentSol, t)) /\ mxTimeout' = MXTIMEOUT

(* Drawn when the random index is the size of the list. *)
disturbSolutionRandomly ==
  Disturb(RegrownAtRandom(currentSol, NextStrength)) /\ mxTimeout' = NextTimeLimit

Finish == Return /\ UNCHANGED lnsVars

TimePasses == Tick /\ UNCHANGED lnsVars

Step ==
  \/ Start
  \/ LeaveLoop
  \/ GiveUp
  \/ disturbFromMove
  \/ disturbSolutionRandomly
  \/ Finish

Next == Step \/ TimePasses

Spec == Init /\ [][Next]_vars

(* The program keeps running; nothing is assumed of the clock, of the      *)
(* moves drawn or of the solver's answers.                                 *)
FairSpec == Spec /\ WF_vars(Step)

-----------------------------------------------------------------------------

(***************************************************************************)
(* Properties.                                                             *)
(***************************************************************************)

(* getaRandomVar draws from a table that was filled when the solution last *)
(* changed: an enabled move has something to draw in the current solution. *)
DrawsFromDomain ==
  pc \in {"while", "stop"} =>
    \A t \in enabled : HasDomain(modelling, t) => t \in ValidMoves(modelling, currentSol)

(* With moves and time left the search gives up only after enough failures *)
(* in a row.                                                               *)
GivesUpOnlyWhenStuck ==
  pc = "done" /\ ~timeout /\ enabled # {} =>
    Stuck /\ strength = MaxDisturbSize

(* To its caller doSearch behaves as the contract of all searches says.    *)
KeepsContract == Contract!Spec

(* doSearch returns even if the clock stands still: failures in a row lead *)
(* to an end, and improvements cannot go on for ever.                      *)
Termination == <>Ended
=============================================================================
