-------------------------- MODULE TabuSearchProofs --------------------------
(***************************************************************************)
(* While getBestMove has met no tabu move that is too good, what it holds  *)
(* is the best of the free moves it has passed.  Therefore a move that     *)
(* becomes tabu is not, and the list holds no move twice.                  *)
(***************************************************************************)
EXTENDS TabuSearch, TLAPS

Searching == pc \in {"while", "moves", "apply", "stop", "done"}

(* The best solution so far: none, or better than the initial one. *)
Best ==
  Searching =>
    /\ initialSol \in Structure
    /\ currentSol \in Structure
    /\ iniObjVal = Obj(initialSol)
    /\ \/ bestSol = NULL /\ bestObjVal = iniObjVal /\ pc # "done"
       \/ bestSol \in Structure /\ bestObjVal = Obj(bestSol) /\ bestObjVal < iniObjVal
       \/ bestSol = initialSol /\ bestObjVal = iniObjVal /\ pc = "done"

PendingValid == pc = "moves" => pending \subseteq ValidMoves(modelling, currentSol)

Passed == FreeMoves \ pending

HoldsBestPassed ==
  pc = "moves" /\ ~flag_toogoodmove =>
    \/ bestImprovement = Sentinel /\ bestMove = NULL /\ Passed = {}
    \/ /\ bestMove \in FreeMoves /\ bestSolutionWithMove = bestMove
       /\ bestImprovement = Delta(modelling, currentSol, bestMove)
       /\ \A t \in Passed : bestImprovement <= Delta(modelling, currentSol, t)

FoundIsMove == pc = "moves" /\ bestImprovement # Sentinel => bestMove \in Tuple

IInv == TypeOK /\ Best /\ PendingValid /\ HoldsBestPassed /\ FoundIsMove /\ NoMoveTwice

-----------------------------------------------------------------------------

LEMMA BoundType == Timeout \in Nat /\ ClockBound \in Nat /\ ClockBound > Timeout
  BY ServiceTypes DEF ServiceTypes, ClockBound

LEMMA ObjType == \A s \in Structure : s # NULL /\ Obj(s) \in Int
  BY ServiceTypes DEF ServiceTypes

LEMMA MoveTypes ==
  ASSUME NEW m \in Modelling, NEW s \in Structure
  PROVE  /\ ValidMoves(m, s) \subseteq Tuple
         /\ \A t \in ValidMoves(m, s) : Delta(m, s, t) \in Int
         /\ \A t \in Tuple : t # NULL /\ Neighbor(m, s, t) \in Structure \cup {NULL}
  BY ServiceTypes, TabuAssumption DEF ServiceTypes, TabuAssumption

LEMMA TenureType == \A n \in TabuTenures : n \in Int
  BY TabuAssumption DEF TabuAssumption

LEMMA SentinelType == Sentinel \in Int
  BY DEF Sentinel

(* Without its oldest move a list still holds no move twice. *)
LEMMA TailOfList ==
  ASSUME NEW list \in Seq(Tuple), IsInjective(list), list # <<>>
  PROVE  /\ Tail(list) \in Seq(Tuple) /\ IsInjective(Tail(list))
         /\ Len(Tail(list)) = Len(list) - 1
         /\ Range(Tail(list)) \subseteq Range(list)
         /\ Head(list) \in Tuple
<1>1. /\ Tail(list) \in Seq(Tuple) /\ Len(Tail(list)) = Len(list) - 1
      /\ Len(list) \in Nat /\ Len(list) >= 1 /\ Head(list) \in Tuple
      /\ \A i \in 1 .. Len(list) - 1 : Tail(list)[i] = list[i + 1] /\ i + 1 \in 1 .. Len(list)
      /\ DOMAIN list = 1 .. Len(list) /\ DOMAIN Tail(list) = 1 .. Len(list) - 1
  OBVIOUS
<1>2. IsInjective(Tail(list))
  <2> SUFFICES ASSUME NEW a \in 1 .. Len(list) - 1, NEW b \in 1 .. Len(list) - 1,
                      Tail(list)[a] = Tail(list)[b]
               PROVE  a = b
    BY <1>1 DEF IsInjective
  <2>1. list[a + 1] = list[b + 1] /\ a + 1 \in DOMAIN list /\ b + 1 \in DOMAIN list
    BY <1>1
  <2>2. a + 1 = b + 1
    BY <2>1 DEF IsInjective
  <2> QED
    BY <1>1, <2>2
<1>3. Range(Tail(list)) \subseteq Range(list)
  BY <1>1 DEF Range
<1> QED
  BY <1>1, <1>2, <1>3

(* Nor does it with a new move. *)
LEMMA AppendedList ==
  ASSUME NEW list \in Seq(Tuple), IsInjective(list), NEW t \in Tuple, t \notin Range(list)
  PROVE  /\ Append(list, t) \in Seq(Tuple) /\ IsInjective(Append(list, t))
         /\ Len(Append(list, t)) = Len(list) + 1
<1> DEFINE new == Append(list, t)
<1>1. /\ new \in Seq(Tuple) /\ Len(new) = Len(list) + 1 /\ Len(list) \in Nat
      /\ DOMAIN list = 1 .. Len(list) /\ DOMAIN new = 1 .. Len(list) + 1
      /\ \A i \in 1 .. Len(list) : new[i] = list[i]
      /\ new[Len(list) + 1] = t
  OBVIOUS
<1>2. \A i \in 1 .. Len(list) : list[i] # t
  BY <1>1 DEF Range
<1>3. ASSUME NEW a \in DOMAIN new, NEW b \in DOMAIN new, new[a] = new[b]
      PROVE  a = b
  <2>1. CASE a = Len(list) + 1 \/ b = Len(list) + 1
    BY <1>1, <1>2, <1>3, <2>1
  <2>2. CASE a \in 1 .. Len(list) /\ b \in 1 .. Len(list)
    BY <1>1, <1>3, <2>2 DEF IsInjective
  <2> QED
    BY <1>1, <2>1, <2>2
<1>4. IsInjective(new)
  BY <1>3 DEF IsInjective
<1> QED
  BY <1>1, <1>4

LEMMA InitIInv == Init => IInv
<1> SUFFICES ASSUME Init PROVE IInv
  OBVIOUS
<1>1. <<>> \in Seq(Tuple) /\ Len(<<>>) = 0 /\ IsInjective(<<>>)
  BY DEF IsInjective
<1>2. BaseTypeOK
  BY BoundType DEF Init, BaseInit, BaseTypeOK, Labels
<1>3. /\ tabuTenure \in TabuTenures /\ tabuList \in Seq(Tuple)
      /\ tabuTenure >= 0 => Len(tabuList) <= tabuTenure
  <2>1. tabuTenure \in TabuTenures /\ tabuTenure \in Int /\ tabuList = <<>>
    BY TenureType DEF Init
  <2> QED
    BY <1>1, <2>1
<1>4. /\ pending \in SUBSET Tuple /\ bestImprovement \in Int /\ flag_toogoodmove \in BOOLEAN
      /\ {bestMove, bestSolutionWithMove} \subseteq Tuple \cup {NULL}
  <2>1. pending \in SUBSET Tuple /\ {bestMove, bestSolutionWithMove} \subseteq Tuple \cup {NULL}
    BY DEF Init
  <2>2. bestImprovement \in Int
    BY SentinelType, Zenon DEF Init
  <2>3. flag_toogoodmove \in BOOLEAN
    BY Zenon DEF Init
  <2> QED
    BY <2>1, <2>2, <2>3
<1>5. TypeOK
  BY <1>2, <1>3, <1>4, Zenon DEF TypeOK
<1> QED
  BY <1>1, <1>5 DEF Init, BaseInit, IInv, Best, Searching, PendingValid, HoldsBestPassed,
     FoundIsMove, NoMoveTwice

(* The steps that leave the list and what getBestMove found alone. *)
LEMMA DieIInv ==
  ASSUME IInv, Die
  PROVE  IInv'
  BY DEF Die, Crash, tabuVars, scanVars, solutions, initial, best, current, IInv, TypeOK,
     BaseTypeOK, Labels, Best, Searching, PendingValid, HoldsBestPassed, FoundIsMove, NoMoveTwice

LEMMA ScanIInv ==
  ASSUME IInv, NEW t \in pending, ScanMove(t)
  PROVE  IInv'
<1> USE DEF baseVars, solutions, initial, best, current
<1> DEFINE delta == Delta(modelling, currentSol, t)
<1>1. /\ pc = "moves" /\ pc' = "moves" /\ pending' = pending \ {t}
      /\ UNCHANGED <<modelling, clock, solutions, tabuTenure, tabuList>>
  BY DEF ScanMove
<1>2. /\ modelling \in Modelling /\ currentSol \in Structure
      /\ t \in ValidMoves(modelling, currentSol) /\ t \in Tuple /\ t # NULL /\ delta \in Int
      /\ bestImprovement \in Int /\ flag_toogoodmove \in BOOLEAN
      /\ bestMove \in Tuple \cup {NULL} /\ bestSolutionWithMove \in Tuple \cup {NULL}
  BY <1>1, MoveTypes DEF IInv, TypeOK, BaseTypeOK, Best, Searching, PendingValid
<1>3. FreeMoves' = FreeMoves /\ (isTabu(t) => t \notin FreeMoves)
  BY <1>1 DEF FreeMoves, isTabu
<1>4. Best' /\ PendingValid' /\ NoMoveTwice' /\ BaseTypeOK'
  BY <1>1 DEF IInv, TypeOK, BaseTypeOK, Best, Searching, PendingValid, NoMoveTwice
<1>5. CASE isTabu(t)
  <2>1. /\ UNCHANGED bestSolutionWithMove
        /\ \/ bestImprovement' = delta /\ bestMove' = t /\ flag_toogoodmove' = TRUE
           \/ UNCHANGED <<bestImprovement, bestMove, flag_toogoodmove>>
    BY <1>5 DEF ScanMove, SeeTabuMove
  <2>2. TypeOK' /\ FoundIsMove'
    BY <1>1, <1>2, <1>4, <2>1 DEF IInv, TypeOK, FoundIsMove
  <2>3. HoldsBestPassed'
    BY <1>1, <1>3, <1>5, <2>1 DEF IInv, HoldsBestPassed, Passed
  <2> QED
    BY <1>4, <2>2, <2>3 DEF IInv
<1>6. CASE ~isTabu(t)
  <2>1. /\ UNCHANGED flag_toogoodmove
        /\ \/ /\ delta < bestImprovement /\ bestImprovement' = delta
              /\ bestMove' = t /\ bestSolutionWithMove' = t
           \/ /\ ~(delta < bestImprovement)
              /\ UNCHANGED <<bestImprovement, bestMove, bestSolutionWithMove>>
    BY <1>6 DEF ScanMove, SeeFreeMove
  <2>2. TypeOK' /\ FoundIsMove'
    BY <1>1, <1>2, <1>4, <2>1 DEF IInv, TypeOK, FoundIsMove
  <2>3. Passed' \subseteq Passed \cup {t} /\ (t \in Passed' => t \in FreeMoves)
    BY <1>1, <1>3 DEF Passed
  <2>4. t \in FreeMoves <=> delta < Sentinel
    BY <1>2, <1>6 DEF FreeMoves
  <2>5. \A u \in FreeMoves : Delta(modelling, currentSol, u) \in Int
                             /\ Delta(modelling, currentSol, u) < Sentinel
    BY <1>2, MoveTypes DEF FreeMoves
  <2>6. HoldsBestPassed'
    <3> SUFFICES ASSUME ~flag_toogoodmove
                 PROVE  HoldsBestPassed'
      BY <1>1, <2>1 DEF HoldsBestPassed
    <3>1. CASE bestImprovement = Sentinel /\ bestMove = NULL /\ Passed = {}
      BY <1>1, <1>2, <1>3, <2>1, <2>3, <2>4, <3>1 DEF HoldsBestPassed, Sentinel
    <3>2. CASE /\ bestMove \in FreeMoves /\ bestSolutionWithMove = bestMove
               /\ bestImprovement = Delta(modelling, currentSol, bestMove)
               /\ \A u \in Passed : bestImprovement <= Delta(modelling, currentSol, u)
      <4>1. bestImprovement < Sentinel /\ Passed \subseteq FreeMoves
        BY <2>5, <3>2 DEF Passed
      <4>2. bestMove' \in FreeMoves /\ bestSolutionWithMove' = bestMove'
            /\ bestImprovement' = Delta(modelling, currentSol, bestMove')
        BY <1>2, <2>1, <2>4, <3>2, <4>1 DEF Sentinel
      <4>3. bestImprovement' <= bestImprovement /\ bestImprovement' <= delta
            /\ bestImprovement' \in Int
        BY <1>2, <2>1
      <4>4. \A u \in Passed' : bestImprovement' <= Delta(modelling, currentSol, u)
        BY <1>2, <2>3, <2>5, <3>2, <4>1, <4>3
      <4> QED
        BY <1>1, <1>3, <4>2, <4>4 DEF HoldsBestPassed
    <3> QED
      BY <1>1, <3>1, <3>2 DEF IInv, HoldsBestPassed
  <2> QED
    BY <1>4, <2>2, <2>6 DEF IInv
<1> QED
  BY <1>5, <1>6

(* A move that was not tabu becomes so. *)
LEMMA EndScanIInv ==
  ASSUME IInv, EndScan
  PROVE  IInv'
<1> USE DEF solutions, initial, best, current, scanVars
<1>1. CASE Die
  BY <1>1, DieIInv
<1>2. CASE /\ ~(BecomesTabu /\ Full(<<>>))
           /\ Goto("moves", "apply")
           /\ IF BecomesTabu THEN updateTabuList(bestMove) ELSE UNCHANGED tabuList
           /\ UNCHANGED <<tabuTenure, scanVars>>
  <2>1. /\ pc = "moves" /\ pc' = "apply" /\ bestImprovement # Sentinel
        /\ UNCHANGED <<modelling, clock, solutions, tabuTenure, scanVars>>
    BY <1>2 DEF EndScan, Goto
  <2>2. /\ tabuList \in Seq(Tuple) /\ IsInjective(tabuList) /\ Len(tabuList) \in Nat
        /\ tabuTenure \in TabuTenures /\ tabuTenure \in Int
        /\ tabuTenure >= 0 => Len(tabuList) <= tabuTenure
    BY TenureType DEF IInv, TypeOK, NoMoveTwice
  <2>3. /\ tabuList' \in Seq(Tuple) /\ IsInjective(tabuList')
        /\ tabuTenure >= 0 => Len(tabuList') <= tabuTenure
    <3>1. CASE ~BecomesTabu
      BY <1>2, <2>2, <3>1
    <3>2. CASE BecomesTabu
      <4>1. bestMove \in FreeMoves /\ bestMove \in Tuple
        BY <2>1, <3>2 DEF IInv, HoldsBestPassed, FoundIsMove, BecomesTabu
      <4>2. bestMove \notin Range(tabuList)
        BY <4>1 DEF FreeMoves, isTabu
      <4>3. CASE Full(tabuList)
        <5>1. tabuTenure >= 0 /\ Len(tabuList) = tabuTenure
          BY <2>2, <4>3 DEF Full
        <5>2. tabuTenure >= 1
          <6>1. Len(<<>>) = 0
            OBVIOUS
          <6>2. ~(tabuTenure >= 0 /\ 0 >= tabuTenure)
            BY <1>2, <3>2, <6>1 DEF Full
          <6> QED
            BY <2>2, <5>1, <6>2
        <5>3. tabuList # <<>>
          BY <5>1, <5>2
        <5>4. /\ Tail(tabuList) \in Seq(Tuple) /\ IsInjective(Tail(tabuList))
              /\ Len(Tail(tabuList)) = Len(tabuList) - 1
              /\ bestMove \notin Range(Tail(tabuList))
          BY <2>2, <4>2, <5>3, TailOfList
        <5>5. tabuList' = Append(Tail(tabuList), bestMove)
          BY <1>2, <3>2, <4>3 DEF updateTabuList
        <5>6. /\ tabuList' \in Seq(Tuple) /\ IsInjective(tabuList')
              /\ Len(tabuList') = Len(Tail(tabuList)) + 1
          BY <4>1, <5>4, <5>5, AppendedList, Zenon
        <5>7. Len(tabuList') = tabuTenure
          BY <2>2, <5>1, <5>4, <5>6
        <5> QED
          BY <2>2, <5>6, <5>7
      <4>4. CASE ~Full(tabuList)
        <5>1. tabuList' = Append(tabuList, bestMove)
          BY <1>2, <3>2, <4>4 DEF updateTabuList
        <5>2. tabuTenure >= 0 => Len(tabuList) < tabuTenure
          BY <2>2, <4>4 DEF Full
        <5> QED
          BY <2>2, <4>1, <4>2, <5>1, <5>2, AppendedList
      <4> QED
        BY <4>3, <4>4
    <3> QED
      BY <3>1, <3>2
  <2>4. TypeOK'
    BY <2>1, <2>2, <2>3 DEF IInv, TypeOK, BaseTypeOK, Labels
  <2> QED
    BY <2>1, <2>3, <2>4
    DEF IInv, Best, Searching, PendingValid, HoldsBestPassed, FoundIsMove, NoMoveTwice
<1> QED
  BY <1>1, <1>2 DEF EndScan

(* The oldest move is taken off the list. *)
LEMMA EverythingTabuIInv ==
  ASSUME IInv, EverythingTabu
  PROVE  IInv'
<1> USE DEF solutions, initial, best, current
<1>1. CASE Die
  BY <1>1, DieIInv
<1>2. CASE /\ tabuList # <<>> /\ Goto("moves", "apply")
           /\ bestMove' = Head(tabuList) /\ bestSolutionWithMove' = Head(tabuList)
           /\ tabuList' = Tail(tabuList)
           /\ UNCHANGED <<tabuTenure, pending, bestImprovement, flag_toogoodmove>>
  <2>1. /\ tabuList \in Seq(Tuple) /\ IsInjective(tabuList) /\ Len(tabuList) \in Nat
        /\ tabuTenure \in Int /\ (tabuTenure >= 0 => Len(tabuList) <= tabuTenure)
    BY TenureType DEF IInv, TypeOK, NoMoveTwice
  <2>2. /\ tabuList' \in Seq(Tuple) /\ IsInjective(tabuList')
        /\ Len(tabuList') = Len(tabuList) - 1 /\ Head(tabuList) \in Tuple
    BY <1>2, <2>1, TailOfList
  <2>3. TypeOK'
    BY <1>2, <2>1, <2>2 DEF Goto, IInv, TypeOK, BaseTypeOK, Labels
  <2> QED
    BY <1>2, <2>2, <2>3
    DEF Goto, IInv, Best, Searching, PendingValid, HoldsBestPassed, FoundIsMove, NoMoveTwice
<1> QED
  BY <1>1, <1>2 DEF EverythingTabu

LEMMA ApplyIInv ==
  ASSUME IInv, Apply
  PROVE  IInv'
<1> USE DEF solutions, initial, best, current
<1>1. CASE Die
  BY <1>1, DieIInv
<1>2. ASSUME NEW s \in getNeighborSolution(bestSolutionWithMove), s # NULL,
             bestSolutionWithMove # NULL, pc' = "while", currentSol' = s,
             KeepIfBetter(s, Obj(s)),
             UNCHANGED <<modelling, clock, initial, currentObj, tabuVars>>
      PROVE  IInv'
  <2>1. /\ modelling \in Modelling /\ currentSol \in Structure
        /\ bestSolutionWithMove \in Tuple
    BY <1>2 DEF Apply, IInv, TypeOK, BaseTypeOK, Best, Searching
  <2>2. s \in Structure /\ Obj(s) \in Int
    BY <1>2, <2>1, MoveTypes, ObjType DEF getNeighborSolution, FirstModel
  <2>3. /\ initialSol \in Structure /\ Obj(initialSol) \in Int
        /\ bestSol \in Structure => Obj(bestSol) \in Int
    BY ObjType DEF Apply, IInv, Best, Searching
  <2>4. Best'
    <3>1. CASE Obj(s) < bestObjVal
      BY <1>2, <2>2, <2>3, <3>1, ObjType DEF Apply, KeepIfBetter, IInv, Best, Searching
    <3>2. CASE ~(Obj(s) < bestObjVal)
      BY <1>2, <2>2, <2>3, <3>2 DEF Apply, KeepIfBetter, IInv, Best, Searching
    <3> QED
      BY <3>1, <3>2
  <2>5. TypeOK'
    BY <1>2, <2>2 DEF KeepIfBetter, tabuVars, scanVars, IInv, TypeOK, BaseTypeOK, Labels
  <2> QED
    BY <1>2, <2>4, <2>5
    DEF tabuVars, scanVars, IInv, PendingValid, HoldsBestPassed, FoundIsMove, NoMoveTwice
<1> QED
  BY <1>1, <1>2 DEF Apply

LEMMA NextIInv == IInv /\ [Next]_vars => IInv'
<1> SUFFICES ASSUME IInv, [Next]_vars PROVE IInv'
  OBVIOUS
<1> USE DEF solutions, initial, best, current, baseVars, tabuVars, scanVars
<1>1. CASE Start
  <2>1. CASE pc = "start" /\ Crash
    BY <1>1, <2>1, DieIInv DEF Start, Die
  <2>2. ASSUME NEW s \in Structure, GetInitialSolution(s), UNCHANGED tabuVars
        PROVE  IInv'
    BY <2>2, ObjType DEF GetInitialSolution, IInv, TypeOK, BaseTypeOK, Labels, Best, Searching,
       PendingValid, HoldsBestPassed, FoundIsMove, NoMoveTwice
  <2> QED
    BY <1>1, <2>1, <2>2 DEF Start, BaseStart
<1>2. CASE BadQuery \/ NoDeltaQuery
  BY <1>2, DieIInv DEF BadQuery, GarbageQuery, NoDeltaQuery, Die
<1>3. CASE Leave
  BY <1>3 DEF Leave, Goto, IInv, TypeOK, BaseTypeOK, Labels, Best, Searching,
     PendingValid, HoldsBestPassed, FoundIsMove, NoMoveTwice
<1>4. CASE BeginScan
  <2>1. /\ pc = "while" /\ pc' = "moves" /\ pending' = ValidMoves(modelling, currentSol)
        /\ bestImprovement' = Sentinel /\ bestMove' = NULL /\ bestSolutionWithMove' = NULL
        /\ flag_toogoodmove' = FALSE
        /\ UNCHANGED <<modelling, clock, solutions, tabuTenure, tabuList>>
    BY <1>4 DEF BeginScan, Goto
  <2>2. modelling \in Modelling /\ currentSol \in Structure
    BY <2>1 DEF IInv, TypeOK, BaseTypeOK, Best, Searching
  <2>3. TypeOK'
    <3>1. pending' \in SUBSET Tuple
      BY <2>1, <2>2, MoveTypes
    <3>2. BaseTypeOK'
      BY <2>1 DEF IInv, TypeOK, BaseTypeOK, Labels
    <3>3. /\ bestImprovement' \in Int /\ flag_toogoodmove' \in BOOLEAN
          /\ {bestMove, bestSolutionWithMove}' \subseteq Tuple \cup {NULL}
      <4>1. {bestMove, bestSolutionWithMove}' \subseteq Tuple \cup {NULL}
        BY <2>1
      <4>2. bestImprovement' \in Int
        BY <2>1, SentinelType, Zenon
      <4>3. flag_toogoodmove' \in BOOLEAN
        BY <2>1, Zenon
      <4> QED
        BY <4>1, <4>2, <4>3
    <3>4. /\ tabuTenure' \in TabuTenures /\ tabuList' \in Seq(Tuple)
          /\ tabuTenure' >= 0 => Len(tabuList') <= tabuTenure'
      BY <2>1 DEF IInv, TypeOK
    <3> QED
      BY <3>1, <3>2, <3>3, <3>4, Zenon DEF TypeOK
  <2>4. Passed' = {}
    BY <2>1 DEF Passed, FreeMoves
  <2> QED
    BY <2>1, <2>3, <2>4
    DEF IInv, Best, Searching, PendingValid, HoldsBestPassed, FoundIsMove, NoMoveTwice
<1>5. CASE Scan
  BY <1>5, ScanIInv DEF Scan
<1>6. CASE EndScan
  BY <1>6, EndScanIInv
<1>7. CASE EverythingTabu
  BY <1>7, EverythingTabuIInv
<1>8. CASE Apply
  BY <1>8, ApplyIInv
<1>9. CASE Finish
  BY <1>9, ObjType DEF Finish, Return, CopyInitialIfNoneBetter, IInv, TypeOK, BaseTypeOK, Labels,
     Best, Searching, PendingValid, HoldsBestPassed, FoundIsMove, NoMoveTwice
<1>10. CASE TimePasses
  <2>1. TypeOK'
    BY <1>10, BoundType DEF TimePasses, Tick, TimeLeft, IInv, TypeOK, BaseTypeOK
  <2> QED
    BY <1>10, <2>1 DEF TimePasses, Tick, IInv, Best, Searching, PendingValid, HoldsBestPassed,
       Passed, FreeMoves, isTabu, FoundIsMove, NoMoveTwice
<1>11. CASE UNCHANGED vars
  BY <1>11 DEF vars, IInv, TypeOK, BaseTypeOK, Best, Searching, PendingValid, HoldsBestPassed,
     Passed, FreeMoves, isTabu, FoundIsMove, NoMoveTwice
<1> QED
  BY <1>1, <1>2, <1>3, <1>4, <1>5, <1>6, <1>7, <1>8, <1>9, <1>10, <1>11 DEF Next, Step

-----------------------------------------------------------------------------

(* TabuSearch::doSearch is always in a state of its types; in particular    *)
(* the list never outgrows the tenure.                                      *)
THEOREM TypeCorrect == Spec => []TypeOK
<1>1. IInv => TypeOK
  BY DEF IInv
<1> QED
  BY <1>1, InitIInv, NextIInv, PTL DEF Spec

(* Whatever the tenure, no move is on the tabu list twice.                  *)
THEOREM ListIsInjective == Spec => []NoMoveTwice
<1>1. IInv => NoMoveTwice
  BY DEF IInv
<1> QED
  BY <1>1, InitIInv, NextIInv, PTL DEF Spec

(* In whatever order the moves come, getBestMove returns a free move of     *)
(* least delta if there is one and no tabu move was too good.               *)
THEOREM ReturnsBestMove == Spec => ReturnsBestFreeMove
<1> DEFINE Chosen ==
      pc = "moves" /\ pc' = "apply" /\ ~flag_toogoodmove /\ FreeMoves # {} =>
        /\ bestSolutionWithMove' \in FreeMoves
        /\ \A t \in FreeMoves : Delta(modelling, currentSol, bestSolutionWithMove')
                                  <= Delta(modelling, currentSol, t)
<1>1. IInv /\ [Next]_vars => [Chosen]_vars
  <2> SUFFICES ASSUME IInv, Next, pc = "moves", pc' = "apply", ~flag_toogoodmove,
                      FreeMoves # {}
               PROVE  /\ bestSolutionWithMove' \in FreeMoves
                      /\ \A t \in FreeMoves : Delta(modelling, currentSol, bestSolutionWithMove')
                                                <= Delta(modelling, currentSol, t)
    OBVIOUS
  <2>1. EndScan \/ EverythingTabu
    BY DEF Next, Step, Start, BaseStart, GetInitialSolution, Crash, BadQuery, GarbageQuery, Leave,
       BeginScan, NoDeltaQuery, Die, Scan, ScanMove, Apply, Finish, Return, TimePasses, Tick, Goto,
       baseVars
  <2>2. pending = {} /\ Passed = FreeMoves
    BY <2>1 DEF EndScan, EverythingTabu, Passed
  <2>3. modelling \in Modelling /\ currentSol \in Structure
    BY DEF IInv, TypeOK, BaseTypeOK, Best, Searching
  <2>4. \A t \in FreeMoves : Delta(modelling, currentSol, t) \in Int
                             /\ Delta(modelling, currentSol, t) < Sentinel
    BY <2>3, MoveTypes DEF FreeMoves
  <2>5. /\ bestMove \in FreeMoves /\ bestSolutionWithMove = bestMove
        /\ bestImprovement = Delta(modelling, currentSol, bestMove)
        /\ \A t \in Passed : bestImprovement <= Delta(modelling, currentSol, t)
    BY <2>2 DEF IInv, HoldsBestPassed
  <2>6. bestImprovement # Sentinel
    BY <2>4, <2>5 DEF Sentinel
  <2>7. UNCHANGED bestSolutionWithMove
    BY <2>1, <2>6 DEF EndScan, EverythingTabu, Die, Crash, scanVars, tabuVars
  <2> QED
    BY <2>2, <2>5, <2>7
<1> QED
  BY <1>1, InitIInv, NextIInv, PTL DEF Spec, ReturnsBestFreeMove

(* To its caller, a step of the search is a step of the contract or none.   *)
LEMMA StepKeepsContract ==
  IInv /\ IInv' /\ [Next]_vars => [Contract!Next]_(Contract!contractVars)
<1> SUFFICES ASSUME IInv, IInv', [Next]_vars
             PROVE  [Contract!Next]_(Contract!contractVars)
  OBVIOUS
<1> USE DEF Contract!contractVars
<1> USE DEF initial, best, current, solutions, baseVars, tabuVars
<1>1. ASSUME Crash, pc \notin {"done", "crashed"}
      PROVE  Contract!Next
  BY <1>1 DEF Crash, Contract!Fail, Contract!Next
<1>2. CASE Start
  <2>1. ASSUME NEW s \in Structure, GetInitialSolution(s)
        PROVE  Contract!Next
    BY <2>1 DEF GetInitialSolution, Contract!Begin, Contract!Next
  <2> QED
    BY <1>1, <1>2, <2>1 DEF Start, BaseStart
<1>3. CASE BadQuery \/ NoDeltaQuery
  BY <1>1, <1>3 DEF BadQuery, GarbageQuery, NoDeltaQuery, Die
<1>4. CASE Leave \/ BeginScan
  BY <1>4 DEF Leave, BeginScan, Goto
<1>5. CASE Scan
  BY <1>5 DEF Scan, ScanMove
<1>6. CASE EndScan \/ EverythingTabu
  BY <1>1, <1>6 DEF EndScan, EverythingTabu, Die, Goto
<1>7. CASE Apply
  BY <1>1, <1>7 DEF Apply, Die
<1>8. CASE Finish
  <2>1. /\ pc = "stop" /\ pc' = "done" /\ initialSol' = initialSol
        /\ bestSol' \in Structure /\ bestObjVal' = Obj(bestSol')
        /\ bestSol' = initialSol \/ Obj(bestSol') < Obj(initialSol)
    BY <1>8, ObjType DEF Finish, Return, CopyInitialIfNoneBetter, IInv, Best, Searching
  <2>2. Contract!Return
    BY <2>1 DEF Contract!Return, Contract!Promised
  <2> QED
    BY <2>2 DEF Contract!Next
<1>9. CASE TimePasses
  BY <1>9 DEF TimePasses, Tick
<1>10. CASE UNCHANGED vars
  BY <1>10 DEF vars
<1> QED
  BY <1>2, <1>3, <1>4, <1>5, <1>6, <1>7, <1>8, <1>9, <1>10 DEF Next, Step

(* TabuSearch::doSearch implements the contract of a search, though it also *)
(* goes to worse solutions, applies moves that are tabu, and may crash.     *)
THEOREM ImplementsContract == Spec => KeepsContract
<1>1. Init => Contract!Init
  BY DEF Init, BaseInit, Contract!Init
<1> QED
  BY <1>1, InitIInv, NextIInv, StepKeepsContract, PTL DEF Spec, KeepsContract, Contract!Spec
=============================================================================
