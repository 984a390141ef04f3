----------------------- MODULE FirstImprovementSearch -----------------------
(***************************************************************************)
(* FirstImprovementSearch::doSearch.  The table of valid moves is walked   *)
(* in any order: pending holds the moves the iterator has not reached, and *)
(* a break empties it.                                                     *)
(***************************************************************************)
EXTENDS LocalSearch

(* The contract of the query getNextCost_m: the objective of the solution  *)
(* the move leads to.  doSearch computes that one too, to log it only.     *)
ASSUME NextCostIsExact ==
  \A m \in Modelling, s \in Structure :
    ~HasDelta(m) =>
      \A t \in ValidMoves(m, s) :
        Neighbor(m, s, t) # NULL => NextCost(m, s, t) = Obj(Neighbor(m, s, t))

VARIABLES
  pending,   \* what is left of the iterator itermove
  improved   \* the flag improved of the current pass

passVars == <<pending, improved>>
vars == <<baseVars, passVars>>

TypeOK == BaseTypeOK /\ pending \in SUBSET Tuple /\ improved \in BOOLEAN

Init == BaseInit /\ pending = {} /\ improved = FALSE

Start == BaseStart /\ UNCHANGED passVars

(* The head of the outer loop: leave on timeout, else ask for the moves. *)
BeginPass ==
  /\ ~timeout
  /\ Goto("while", "moves")
  /\ pending' = ValidMoves(modelling, currentSol)
  /\ improved' = FALSE

LeaveLoop == TimeoutAtHead /\ UNCHANGED passVars

(* The process dies: a bad query, or no model of Tnext_m or of T. *)
Die == Crash /\ UNCHANGED passVars

BadQuery == GarbageQuery /\ UNCHANGED passVars

(* Mutant: no break, the pass goes on over the table it has. *)
Accept_goesOn(s, o) ==
  /\ MoveTo(s, o)
  /\ improved' = TRUE
  /\ pending' = {t \in pending : Neighbor(modelling, currentSol, t) # s}
  /\ UNCHANGED <<pc, modelling, clock, initial>>

(* Accept s with objective o: move there and break out of the pass. *)
Accept(s, o) ==
  /\ MoveTo(s, o)
  /\ improved' = TRUE
  /\ pending' = {}
  /\ UNCHANGED <<pc, modelling, clock, initial>>

(* Skip to the next move, unless the time is up: then break. *)
Skip(t) ==
  /\ pending' = IF timeout THEN {} ELSE pending \ {t}
  /\ UNCHANGED <<baseVars, improved>>

(* Mutant: the delta alone decides. *)
DeltaImproves_alone(t, s) == Delta(modelling, currentSol, t) < 0

(* Do the delta of a move and the objective of where it leads both improve? *)
DeltaImproves(t, s) == Delta(modelling, currentSol, t) < 0 /\ Obj(s) < currentObj

(* A move of a modelling with a delta query: the neighbour is computed in  *)
(* any case.                                                               *)
TryMoveByDelta(t) ==
  /\ pc = "moves"
  /\ HasDelta(modelling)
  /\ \E s \in getNeighborSolution(t) :
       IF s = NULL THEN Die
       ELSE IF DeltaImproves(t, s) THEN Accept(s, Obj(s)) ELSE Skip(t)

CostImproves(t) == NextCost(modelling, currentSol, t) - currentObj < 0

(* Without one, Tnext_m is expanded and the query getNextCost_m decides;   *)
(* T is expanded only if that cost is lower, and that cost is recorded.    *)
TryMoveByNextCost(t) ==
  /\ pc = "moves"
  /\ ~HasDelta(modelling)
  /\ \/ Die
     \/ ~CostImproves(t) /\ Skip(t)
     \/ /\ CostImproves(t)
        /\ \E s \in getNeighborSolution(t) :
             IF s = NULL THEN Die ELSE Accept(s, NextCost(modelling, currentSol, t))

(* Mutant: one pass is all. *)
AfterPass_stops == "stop"

(* Another pass if this one improved, else stop. *)
AfterPass == IF improved THEN "while" ELSE "stop"

EndPass == pending = {} /\ Goto("moves", AfterPass) /\ UNCHANGED passVars

Finish == Return /\ UNCHANGED passVars

TimePasses == Tick /\ UNCHANGED passVars

TryMove == \E t \in pending : TryMoveByDelta(t) \/ TryMoveByNextCost(t)

Step == Start \/ BeginPass \/ LeaveLoop \/ BadQuery \/ TryMove \/ EndPass \/ Finish

Next == Step \/ TimePasses

Spec == Init /\ [][Next]_vars

(* The program keeps running; nothing is assumed of the clock. *)
FairSpec == Spec /\ WF_vars(Step)

-----------------------------------------------------------------------------

(***************************************************************************)
(* Properties.                                                             *)
(***************************************************************************)

(* When doSearch returns, _bestSol is a model whose objective is the       *)
(* reported _bestObjVal, and it is no worse than the initial solution: the *)
(* branch that copies the initial solution and the branch that keeps the   *)
(* best one agree with the objective they report.                          *)
ResultIsBest ==
  pc = "done" => /\ bestSol # NULL
                 /\ bestObjVal = Obj(bestSol)
                 /\ bestObjVal <= iniObjVal

(* In whatever order the passes meet the moves and whenever the time runs  *)
(* out, doSearch behaves to its caller as the contract says.               *)
KeepsContract == Contract!Spec

(* A move the search would accept from the current solution. *)
Improving(t) ==
  LET s == Neighbor(modelling, currentSol, t)
  IN  /\ s # NULL
      /\ IF HasDelta(modelling) THEN DeltaImproves(t, s) ELSE CostImproves(t)

(* The table a pass walks is that of the solution it was asked for.  It is *)
(* not walked on after a move to another one, nor by a later pass: every   *)
(* move still to be tried is a valid move of the current solution.         *)
TriesOnlyValidMoves ==
  pc = "moves" => pending \subseteq ValidMoves(modelling, currentSol)

(* The search stops before its time limit only in a local optimum: no      *)
(* valid move of the last solution would have been accepted.               *)
StopsInLocalOptimum ==
  pc = "done" /\ ~timeout =>
    \A t \in ValidMoves(modelling, currentSol) : ~Improving(t)

(* doSearch returns even if the clock stands still: every pass but the     *)
(* last lowers the objective, so no time limit is needed.                  *)
Termination == <>Ended
=============================================================================
