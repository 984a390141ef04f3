----------------------------- MODULE TabuSearch -----------------------------
(***************************************************************************)
(* TabuSearch::doSearch with getBestMove, which walks the valid moves (one *)
(* action per move, in any order), and the tabu list, oldest move first.   *)
(* bestSolutionWithMove is a structure that encodes a move of the current  *)
(* solution: it is given by that move.                                     *)
(***************************************************************************)
EXTENDS LocalSearch, Sequences, SequencesExt

(* What _tabuTenure may hold: 15, or whatever is there, for the constructor *)
(* ILS uses leaves it uninitialised.                                        *)
CONSTANT TabuTenures

(* A move of the tabu list may be applied where it is not valid: then Tnext_m *)
(* and T have some model or none.                                             *)
ASSUME TabuAssumption ==
  /\ TabuTenures \subseteq Int
  /\ NULL \notin Tuple
  /\ \A m \in Modelling, s \in Structure, t \in Tuple :
       Neighbor(m, s, t) \in Structure \cup {NULL}

VARIABLES
  tabuTenure,            \* _tabuTenure
  tabuList,              \* _tabuList
  pending,               \* what is left of the iterator move
  bestImprovement,       \* local variables of getBestMove
  bestMove,
  bestSolutionWithMove,
  flag_toogoodmove

scanVars == <<pending, bestImprovement, bestMove, bestSolutionWithMove, flag_toogoodmove>>
tabuVars == <<tabuTenure, tabuList, scanVars>>
vars == <<baseVars, tabuVars>>

(* The delta no move is expected to have: "no move found yet". *)
Sentinel == 100000

TypeOK ==
  /\ BaseTypeOK
  /\ tabuTenure \in TabuTenures
  /\ tabuList \in Seq(Tuple)
  /\ tabuTenure >= 0 => Len(tabuList) <= tabuTenure
  /\ pending \in SUBSET Tuple
  /\ bestImprovement \in Int
  /\ {bestMove, bestSolutionWithMove} \subseteq Tuple \cup {NULL}
  /\ flag_toogoodmove \in BOOLEAN

Init ==
  /\ BaseInit
  /\ tabuTenure \in TabuTenures
  /\ tabuList = <<>> /\ pending = {}
  /\ bestImprovement = Sentinel /\ bestMove = NULL
  /\ bestSolutionWithMove = NULL /\ flag_toogoodmove = FALSE

Start == BaseStart /\ UNCHANGED tabuVars

Die == Crash /\ UNCHANGED tabuVars

BadQuery == GarbageQuery /\ UNCHANGED tabuVars

(* Leave the loop: the time is up, or there are no valid moves. *)
Leave ==
  /\ Goto("while", "stop")
  /\ timeout \/ ValidMoves(modelling, currentSol) = {}
  /\ UNCHANGED tabuVars

(* Call getBestMove. *)
BeginScan ==
  /\ ~timeout
  /\ Goto("while", "moves")
  /\ ValidMoves(modelling, currentSol) # {}
  /\ pending' = ValidMoves(modelling, currentSol)
  /\ bestImprovement' = Sentinel /\ bestMove' = NULL
  /\ bestSolutionWithMove' = NULL /\ flag_toogoodmove' = FALSE
  /\ UNCHANGED <<tabuTenure, tabuList>>

(* The query getDeltaObj_m is null. *)
NoDeltaQuery == pc = "moves" /\ ~HasDelta(modelling) /\ Die

(* getMoveFromTabuList finds the move. *)
isTabu(t) == t \in Range(tabuList)

(* The move t is tabu.  If it leads below the best objective it is the     *)
(* best move from here on; its structure is not kept.                      *)
SeeTabuMove(t, delta) ==
  /\ IF Obj(currentSol) + delta < bestObjVal
       THEN bestImprovement' = delta /\ bestMove' = t /\ flag_toogoodmove' = TRUE
       ELSE UNCHANGED <<bestImprovement, bestMove, flag_toogoodmove>>
  /\ UNCHANGED bestSolutionWithMove

(* Mutant: the last free move is taken, not the best. *)
SeeFreeMove_last(t, delta) ==
  /\ bestImprovement' = delta /\ bestMove' = t /\ bestSolutionWithMove' = t
  /\ UNCHANGED flag_toogoodmove

(* It is not: keep it if its delta is the least so far. *)
SeeFreeMove(t, delta) ==
  /\ IF delta < bestImprovement
       THEN bestImprovement' = delta /\ bestMove' = t /\ bestSolutionWithMove' = t
       ELSE UNCHANGED <<bestImprovement, bestMove, bestSolutionWithMove>>
  /\ UNCHANGED flag_toogoodmove

ScanMove(t) ==
  /\ pc = "moves"
  /\ HasDelta(modelling)
  /\ pending' = pending \ {t}
  /\ IF isTabu(t) THEN SeeTabuMove(t, Delta(modelling, currentSol, t))
                  ELSE SeeFreeMove(t, Delta(modelling, currentSol, t))
  /\ UNCHANGED <<baseVars, tabuTenure, tabuList>>

(* Mutant: the list may grow one beyond the tenure. *)
Full_tooLate(list) == tabuTenure >= 0 /\ Len(list) > tabuTenure

(* The tenure is compared as an unsigned number. *)
Full(list) == tabuTenure >= 0 /\ Len(list) >= tabuTenure

(* Put a move on the list; at its limit the list loses its oldest move. *)
updateTabuList(t) ==
  tabuList' = Append(IF Full(tabuList) THEN Tail(tabuList) ELSE tabuList, t)

(* Mutant: a move accepted in spite of being tabu is put on the list again. *)
BecomesTabu_always == TRUE

(* The move found becomes tabu, unless it is. *)
BecomesTabu == ~flag_toogoodmove

(* A move was found.  A full list that is empty has nothing to erase. *)
EndScan ==
  /\ pc = "moves"
  /\ pending = {}
  /\ bestImprovement # Sentinel
  /\ IF BecomesTabu /\ Full(<<>>) THEN Die
     ELSE /\ Goto("moves", "apply")
          /\ IF BecomesTabu THEN updateTabuList(bestMove) ELSE UNCHANGED tabuList
          /\ UNCHANGED <<tabuTenure, scanVars>>

(* None was: take the oldest move off the list and apply it.  If the list  *)
(* is empty, _tabuList[0] is no move.                                      *)
EverythingTabu ==
  /\ pc = "moves"
  /\ pending = {}
  /\ bestImprovement = Sentinel
  /\ \/ tabuList = <<>> /\ Die
     \/ /\ tabuList # <<>>
        /\ Goto("moves", "apply")
        /\ bestMove' = Head(tabuList)
        /\ bestSolutionWithMove' = Head(tabuList)
        /\ tabuList' = Tail(tabuList)
        /\ UNCHANGED <<tabuTenure, pending, bestImprovement, flag_toogoodmove>>

(* Apply what getBestMove returned, better or worse; a null structure is an *)
(* exception.  The local currentobj of doSearch is never updated.           *)
Apply ==
  /\ pc = "apply"
  /\ \/ bestSolutionWithMove = NULL /\ Die
     \/ /\ bestSolutionWithMove # NULL
        /\ \E s \in getNeighborSolution(bestSolutionWithMove) :
             IF s = NULL THEN Die
             ELSE /\ pc' = "while"
                  /\ currentSol' = s
                  /\ KeepIfBetter(s, Obj(s))
                  /\ UNCHANGED <<modelling, clock, initial, currentObj, tabuVars>>

Finish == Return /\ UNCHANGED tabuVars

TimePasses == Tick /\ UNCHANGED tabuVars

Scan == \E t \in pending : ScanMove(t)

Step ==
  \/ Start
  \/ BadQuery
  \/ Leave
  \/ BeginScan
  \/ NoDeltaQuery
  \/ Scan
  \/ EndScan
  \/ EverythingTabu
  \/ Apply
  \/ Finish

Next == Step \/ TimePasses

Spec == Init /\ [][Next]_vars

(* The program keeps running and its processor time advances. *)
FairSpec == Spec /\ WF_vars(Step) /\ WF_vars(TimePasses)

-----------------------------------------------------------------------------

(***************************************************************************)
(* Properties.                                                             *)
(***************************************************************************)

(* However far up the walk leads and however it ends, doSearch behaves to  *)
(* its caller as the contract says.                                        *)
KeepsContract == Contract!Spec

(* No move is on the tabu list twice, so that a move taken off the list is *)
(* free: aspiration, the window and the way out when everything is tabu    *)
(* must agree on who puts a move there.                                    *)
NoMoveTwice == IsInjective(tabuList)

(* The moves a tabu search may choose from. *)
FreeMoves == {t \in ValidMoves(modelling, currentSol) :
                ~isTabu(t) /\ Delta(modelling, currentSol, t) < Sentinel}

(* In whatever order the table is walked, getBestMove returns a free move  *)
(* of least delta, if there is one and no tabu move was too good.          *)
ReturnsBestFreeMove ==
  [][pc = "moves" /\ pc' = "apply" /\ ~flag_toogoodmove /\ FreeMoves # {} =>
       /\ bestSolutionWithMove' \in FreeMoves
       /\ \A t \in FreeMoves : Delta(modelling, currentSol, bestSolutionWithMove')
                                 <= Delta(modelling, currentSol, t)]_vars

(* doSearch returns: no cycle of solutions outlives the time limit. *)
Termination == <>Ended
=============================================================================
