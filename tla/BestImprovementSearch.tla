------------------------ MODULE BestImprovementSearch ------------------------
(***************************************************************************)
(* BestImprovementSearch::doSearch.  A pass over the valid moves changes   *)
(* nothing but local variables and looks at no clock, so one pass with the *)
(* move it ends in is one action.  Which of several best moves is taken    *)
(* depends on the order of the table: any of them.                         *)
(***************************************************************************)
EXTENDS LocalSearch, FiniteSets

(* The answer of getValidMoves_m, a table that is walked to its end. *)
ASSUME TablesAreFinite ==
  \A m \in Modelling, s \in Structure : IsFiniteSet(ValidMoves(m, s))

vars == baseVars

TypeOK == BaseTypeOK

Init == BaseInit

Start == BaseStart

LeaveLoop == TimeoutAtHead

BadQuery == GarbageQuery

(* getDeltaObj runs the null query of a modelling without getDeltaObj_m. *)
NoDeltaQuery ==
  /\ pc = "while"
  /\ ~timeout
  /\ ~HasDelta(modelling)
  /\ ValidMoves(modelling, currentSol) # {}
  /\ Crash

(* Mutant: the first improving move is taken for the best one. *)
BestMoves_improving ==
  {t \in ValidMoves(modelling, currentSol) : Delta(modelling, currentSol, t) < 0}

(* Mutant: moves by -1 are not worth it. *)
BestMoves_missesOne ==
  {t \in BestMoves_improving :
     /\ Delta(modelling, currentSol, t) < -1
     /\ \A u \in BestMoves_improving :
          Delta(modelling, currentSol, t) <= Delta(modelling, currentSol, u)}

(* Mutant: the best move is made even if it does not improve. *)
BestMoves_sideways ==
  LET table == ValidMoves(modelling, currentSol)
  IN  {t \in table :
         \A u \in table : Delta(modelling, currentSol, t) <= Delta(modelling, currentSol, u)}

(* The moves of least delta, if that is negative. *)
BestMoves ==
  LET table == ValidMoves(modelling, currentSol)
  IN  {t \in table :
         /\ Delta(modelling, currentSol, t) < 0
         /\ \A u \in table :
              Delta(modelling, currentSol, t) <= Delta(modelling, currentSol, u)}

(* Walk all valid moves and take a best one.  The objective of where it    *)
(* leads is not asked for: the delta is added.                             *)
Pass ==
  /\ pc = "while"
  /\ ~timeout
  /\ HasDelta(modelling)
  /\ \E t \in BestMoves :
       \E s \in getNeighborSolution(t) :
         IF s = NULL THEN Crash
         ELSE /\ MoveTo(s, currentObj + Delta(modelling, currentSol, t))
              /\ UNCHANGED <<pc, modelling, clock, initial>>

(* No valid move has a negative delta: break. *)
LocalOptimum ==
  /\ ~timeout
  /\ Goto("while", "stop")
  /\ ValidMoves(modelling, currentSol) # {} => HasDelta(modelling)
  /\ BestMoves = {}

(* Mutant: the objective that the deltas add up to is left as it is. *)
FinalObjective_sumOfDeltas == bestObjVal

(* Finally the objective of the result is asked for after all. *)
FinalObjective == Obj(bestSol')

Finish ==
  /\ pc = "stop" /\ pc' = "done"
  /\ CopyInitialIfNoneBetter
  /\ bestObjVal' = FinalObjective
  /\ UNCHANGED <<modelling, clock, initial, current>>

TimePasses == Tick

Step ==
  \/ Start
  \/ LeaveLoop
  \/ BadQuery
  \/ NoDeltaQuery
  \/ Pass
  \/ LocalOptimum
  \/ Finish

Next == Step \/ TimePasses

Spec == Init /\ [][Next]_vars

(* The program keeps running; nothing is assumed of the clock. *)
FairSpec == Spec /\ WF_vars(Step)

-----------------------------------------------------------------------------

(***************************************************************************)
(* Properties.                                                             *)
(***************************************************************************)

(* When doSearch returns, _bestSol is a model whose objective is the       *)
(* reported _bestObjVal, and it is no worse than the initial solution.     *)
(* The sum of deltas that decides which solution is kept must agree in its *)
(* order with the objective, which is only asked for at the end.           *)
ResultIsBest ==
  pc = "done" => /\ bestSol # NULL
                 /\ bestObjVal = Obj(bestSol)
                 /\ bestObjVal <= iniObjVal

(* Whichever best moves the passes take and whenever the time runs out,    *)
(* doSearch behaves to its caller as the contract says.                    *)
KeepsContract == Contract!Spec

(* Every move goes to a neighbour of least objective: the pass forgets     *)
(* neither an earlier better move nor a later one.                         *)
SteepestDescent ==
  [][currentSol # NULL /\ currentSol' # currentSol =>
       \A t \in ValidMoves(modelling, currentSol) :
         Neighbor(modelling, currentSol, t) # NULL =>
           Obj(currentSol') <= Obj(Neighbor(modelling, currentSol, t))]_vars

(* The search stops before its time limit only in a local optimum.         *)
StopsInLocalOptimum ==
  pc = "done" /\ ~timeout =>
    \A t \in ValidMoves(modelling, currentSol) :
      LET s == Neighbor(modelling, currentSol, t) IN s # NULL => Obj(s) >= Obj(currentSol)

(* doSearch returns even if the clock stands still: the sum of deltas only *)
(* falls, and with sound deltas so does the objective.                     *)
Termination == <>Ended
=============================================================================
