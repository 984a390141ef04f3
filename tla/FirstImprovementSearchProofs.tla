-------------------- MODULE FirstImprovementSearchProofs --------------------
(***************************************************************************)
(* First improvement keeps its incumbent and its current solution in step, *)
(* and what it has skipped in a pass would not be accepted: from the two   *)
(* follow what it returns and where it stops, for every problem, every     *)
(* modelling and every time limit.                                         *)
(***************************************************************************)
EXTENDS FirstImprovementSearch, TLAPS

Searching == pc \in {"while", "moves", "stop", "done"}

(* The current solution is the best one so far: the initial one or better. *)
InStep ==
  Searching =>
    /\ initialSol \in Structure
    /\ currentSol \in Structure
    /\ iniObjVal = Obj(initialSol)
    /\ currentObj = Obj(currentSol)
    /\ bestObjVal = currentObj
    /\ currentSol = initialSol \/ currentObj < iniObjVal
    /\ \/ bestSol = currentSol
       \/ bestSol = NULL /\ currentSol = initialSol /\ pc # "done"

(* The iterator is over moves of the current solution. *)
PendingValid ==
  pc = "moves" => /\ pending \subseteq ValidMoves(modelling, currentSol)
                  /\ improved => pending = {}

(* Moves behind the iterator of a pass that goes on are not improving. *)
PassedNotImproving ==
  pc = "moves" /\ ~improved /\ ~timeout =>
    \A t \in ValidMoves(modelling, currentSol) \ pending : ~Improving(t)

NoneImproving ==
  pc \in {"stop", "done"} /\ ~timeout =>
    \A t \in ValidMoves(modelling, currentSol) : ~Improving(t)

IInv == TypeOK /\ InStep /\ PendingValid /\ PassedNotImproving /\ NoneImproving

-----------------------------------------------------------------------------

LEMMA BoundType == Timeout \in Nat /\ ClockBound \in Nat /\ ClockBound > Timeout
  BY ServiceTypes DEF ServiceTypes, ClockBound

LEMMA ObjType == \A s \in Structure : s # NULL /\ Obj(s) \in Int
  BY ServiceTypes DEF ServiceTypes

LEMMA MoveTypes ==
  ASSUME NEW m \in Modelling, NEW s \in Structure
  PROVE  /\ ValidMoves(m, s) \subseteq Tuple
         /\ HasDelta(m) \in BOOLEAN
         /\ \A t \in ValidMoves(m, s) : /\ Neighbor(m, s, t) \in Structure \cup {NULL}
                                        /\ Delta(m, s, t) \in Int
                                        /\ NextCost(m, s, t) \in Int
  BY ServiceTypes DEF ServiceTypes

LEMMA InitIInv == Init => IInv
<1> SUFFICES ASSUME Init PROVE IInv
  OBVIOUS
<1>1. TypeOK
  <2>1. clock \in 0 .. ClockBound
    BY BoundType DEF Init, BaseInit
  <2>2. iniObjVal \in Int /\ bestObjVal \in Int /\ currentObj \in Int
    BY DEF Init, BaseInit
  <2> QED
    BY <2>1, <2>2 DEF Init, BaseInit, TypeOK, BaseTypeOK, Labels
<1>2. pc = "start"
  BY DEF Init, BaseInit
<1> QED
  BY <1>1, <1>2 DEF IInv, InStep, Searching, PendingValid, PassedNotImproving, NoneImproving

(* A crash ends the search: it claims nothing. *)
LEMMA CrashIInv ==
  ASSUME IInv, Die
  PROVE  IInv'
  BY DEF IInv, TypeOK, BaseTypeOK, Labels, Die, Crash, solutions, initial, best,
     current, passVars, InStep, Searching,
     PendingValid, PassedNotImproving, NoneImproving

(* A neighbour that is accepted lowers the objective and is the new best. *)
LEMMA AcceptIInv ==
  ASSUME IInv, pc = "moves", NEW s \in Structure, NEW o \in Int, o = Obj(s), o < currentObj,
         Accept(s, o)
  PROVE  IInv'
<1> USE DEF Accept, MoveTo, KeepIfBetter, initial, best, current, solutions, baseVars, passVars
<1>1. TypeOK'
  BY DEF IInv, TypeOK, BaseTypeOK
<1>2. InStep'
  BY ObjType DEF IInv, TypeOK, BaseTypeOK, InStep, Searching
<1>3. PendingValid'
  BY DEF PendingValid
<1>4. PassedNotImproving' /\ NoneImproving'
  BY DEF PassedNotImproving, NoneImproving
<1> QED
  BY <1>1, <1>2, <1>3, <1>4 DEF IInv

(* What is improving depends on the solution and the modelling only. *)
LEMMA SameImproving ==
  ASSUME UNCHANGED <<modelling, current>>, NEW t
  PROVE  Improving(t)' = Improving(t)
  BY DEF current, Improving, DeltaImproves, CostImproves

(* A move that is skipped joins those that are not improving. *)
LEMMA SkipIInv ==
  ASSUME IInv, pc = "moves", NEW t \in pending, ~Improving(t), Skip(t)
  PROVE  IInv'
<1> USE DEF Skip, initial, best, current, solutions, baseVars, passVars
<1>1. TypeOK'
  BY DEF IInv, TypeOK, BaseTypeOK
<1>2. InStep'
  BY DEF IInv, InStep, Searching
<1>3. PendingValid'
  BY DEF IInv, PendingValid
<1>4. PassedNotImproving'
  <2> SUFFICES ASSUME ~improved, ~timeout,
                      NEW u \in ValidMoves(modelling, currentSol) \ (pending \ {t})
               PROVE  ~Improving(u)
    BY SameImproving DEF PassedNotImproving, timeout
  <2> QED
    BY DEF IInv, PassedNotImproving
<1>5. NoneImproving'
  BY DEF NoneImproving
<1> QED
  BY <1>1, <1>2, <1>3, <1>4, <1>5 DEF IInv

(* One step of the search or of the clock preserves the invariant. *)
LEMMA NextIInv == IInv /\ [Next]_vars => IInv'
<1> SUFFICES ASSUME IInv, [Next]_vars PROVE IInv'
  OBVIOUS
<1> USE DEF initial, best, current, solutions, baseVars, passVars
<1>1. CASE Start
  <2>1. CASE Die
    BY <2>1, CrashIInv
  <2>2. ASSUME NEW s \in Structure, GetInitialSolution(s), UNCHANGED passVars
        PROVE  IInv'
    <3>1. TypeOK'
      BY <2>2, ObjType DEF IInv, TypeOK, BaseTypeOK, Labels, GetInitialSolution
    <3>2. InStep'
      BY <2>2, ObjType DEF InStep, Searching, GetInitialSolution
    <3> QED
      BY <2>2, <3>1, <3>2 DEF IInv, GetInitialSolution, PendingValid, PassedNotImproving,
         NoneImproving
  <2> QED
    BY <1>1, <2>1, <2>2 DEF Start, BaseStart, Die
<1>2. CASE BeginPass
  <2>1. currentSol \in Structure /\ modelling \in Modelling
    BY <1>2 DEF BeginPass, Goto, IInv, InStep, Searching, TypeOK, BaseTypeOK
  <2>2. TypeOK'
    BY <1>2, <2>1, MoveTypes DEF BeginPass, Goto, IInv, TypeOK, BaseTypeOK, Labels
  <2>3. InStep'
    BY <1>2 DEF BeginPass, Goto, IInv, InStep, Searching
  <2> QED
    BY <1>2, <2>2, <2>3 DEF BeginPass, Goto, IInv, PendingValid, PassedNotImproving,
       NoneImproving
<1>3. CASE LeaveLoop
  BY <1>3 DEF LeaveLoop, TimeoutAtHead, Goto, timeout, IInv, TypeOK, BaseTypeOK, Labels, InStep,
     Searching, PendingValid, PassedNotImproving, NoneImproving
<1>4. CASE BadQuery
  BY <1>4, CrashIInv DEF BadQuery, GarbageQuery, Die
<1>5. ASSUME NEW t \in pending, TryMoveByDelta(t)
      PROVE  IInv'
  <2>1. /\ pc = "moves"
        /\ modelling \in Modelling
        /\ currentSol \in Structure
        /\ t \in ValidMoves(modelling, currentSol)
        /\ HasDelta(modelling)
    BY <1>5 DEF TryMoveByDelta, IInv, InStep, Searching, PendingValid, TypeOK, BaseTypeOK
  <2>2. CASE Die
    BY <2>2, CrashIInv
  <2> DEFINE s == Neighbor(modelling, currentSol, t)
  <2>3. CASE s # NULL /\ DeltaImproves(t, s) /\ Accept(s, Obj(s))
    <3>1. s \in Structure /\ Obj(s) < currentObj
      BY <2>1, <2>3, MoveTypes DEF DeltaImproves
    <3> QED
      BY <2>1, <2>3, <3>1, ObjType, AcceptIInv
  <2>4. CASE s # NULL /\ ~DeltaImproves(t, s) /\ Skip(t)
    <3>1. ~Improving(t)
      BY <2>1, <2>4 DEF Improving
    <3> QED
      BY <2>1, <2>4, <3>1, SkipIInv
  <2> QED
    BY <1>5, <2>2, <2>3, <2>4 DEF TryMoveByDelta, getNeighborSolution, FirstModel
<1>6. ASSUME NEW t \in pending, TryMoveByNextCost(t)
      PROVE  IInv'
  <2>1. /\ pc = "moves"
        /\ modelling \in Modelling
        /\ currentSol \in Structure
        /\ currentObj \in Int
        /\ t \in ValidMoves(modelling, currentSol)
        /\ ~HasDelta(modelling)
    BY <1>6 DEF TryMoveByNextCost, IInv, InStep, Searching, PendingValid, TypeOK, BaseTypeOK
  <2> DEFINE s == Neighbor(modelling, currentSol, t)
             o == NextCost(modelling, currentSol, t)
  <2>2. o \in Int /\ s \in Structure \cup {NULL}
    BY <2>1, MoveTypes
  <2>3. CASE Die
    BY <2>3, CrashIInv
  <2>4. CASE CostImproves(t) /\ s # NULL /\ Accept(s, o)
    <3>1. o = Obj(s)
      BY <2>1, <2>4, NextCostIsExact DEF NextCostIsExact
    <3>2. o < currentObj /\ s \in Structure
      BY <2>1, <2>2, <2>4 DEF CostImproves
    <3> QED
      BY <2>1, <2>2, <2>4, <3>1, <3>2, AcceptIInv
  <2>5. CASE ~CostImproves(t) /\ Skip(t)
    <3>1. ~Improving(t)
      BY <2>1, <2>5 DEF Improving
    <3> QED
      BY <2>1, <2>5, <3>1, SkipIInv
  <2> QED
    BY <1>6, <2>3, <2>4, <2>5 DEF TryMoveByNextCost, getNeighborSolution, FirstModel
<1>7. CASE EndPass
  <2>1. TypeOK' /\ InStep'
    BY <1>7 DEF EndPass, Goto, AfterPass, IInv, TypeOK, BaseTypeOK, Labels, InStep, Searching
  <2>2. PendingValid' /\ PassedNotImproving'
    BY <1>7 DEF EndPass, Goto, AfterPass, PendingValid, PassedNotImproving
  <2>3. NoneImproving'
    BY <1>7, SameImproving DEF EndPass, Goto, AfterPass, IInv, PassedNotImproving, NoneImproving,
       timeout
  <2> QED
    BY <2>1, <2>2, <2>3 DEF IInv
<1>8. CASE Finish
  <2>1. TypeOK' /\ InStep'
    BY <1>8, ObjType DEF Finish, Return, CopyInitialIfNoneBetter, IInv, TypeOK, BaseTypeOK,
       Labels, InStep, Searching
  <2>2. NoneImproving'
    BY <1>8, SameImproving DEF Finish, Return, IInv, NoneImproving, timeout
  <2> QED
    BY <1>8, <2>1, <2>2 DEF Finish, Return, IInv, PendingValid, PassedNotImproving
<1>9. CASE TimePasses
  <2>1. TypeOK' /\ InStep' /\ PendingValid'
    BY <1>9, BoundType DEF TimePasses, Tick, TimeLeft, IInv, TypeOK, BaseTypeOK, InStep,
       Searching, PendingValid
  <2>2. ~timeout' => ~timeout
    BY <1>9, BoundType DEF TimePasses, Tick, timeout, IInv, TypeOK, BaseTypeOK
  <2>3. PassedNotImproving' /\ NoneImproving'
    BY <1>9, <2>2, SameImproving DEF TimePasses, Tick, IInv, PassedNotImproving, NoneImproving
  <2> QED
    BY <2>1, <2>3 DEF IInv
<1>10. CASE UNCHANGED vars
  BY <1>10, SameImproving DEF vars, IInv, TypeOK, BaseTypeOK, InStep, Searching, PendingValid,
     PassedNotImproving, NoneImproving, timeout
<1> QED
  BY <1>1, <1>2, <1>3, <1>4, <1>5, <1>6, <1>7, <1>8, <1>9, <1>10 DEF Next, Step, TryMove

-----------------------------------------------------------------------------

(* FirstImprovementSearch::doSearch is always in a state of its types.      *)
THEOREM TypeCorrect == Spec => []TypeOK
<1>1. IInv => TypeOK
  BY DEF IInv
<1> QED
  BY <1>1, InitIInv, NextIInv, PTL DEF Spec

(* What doSearch returns is a model with the objective it reports, and no   *)
(* worse than the solution it started from.                                 *)
THEOREM ReturnsBest == Spec => []ResultIsBest
<1>1. IInv => ResultIsBest
  BY ObjType DEF IInv, InStep, Searching, ResultIsBest
<1> QED
  BY <1>1, InitIInv, NextIInv, PTL DEF Spec

(* Whatever a pass has moved to, it tries no move of the table of a         *)
(* solution it has left.                                                    *)
THEOREM AlwaysTriesValidMoves == Spec => []TriesOnlyValidMoves
<1>1. IInv => TriesOnlyValidMoves
  BY DEF IInv, PendingValid, TriesOnlyValidMoves
<1> QED
  BY <1>1, InitIInv, NextIInv, PTL DEF Spec

(* If doSearch returns within its time limit, no valid move of the last     *)
(* solution would have been accepted.                                       *)
THEOREM StopsOnlyInLocalOptimum == Spec => []StopsInLocalOptimum
<1>1. IInv => StopsInLocalOptimum
  BY DEF IInv, NoneImproving, StopsInLocalOptimum
<1> QED
  BY <1>1, InitIInv, NextIInv, PTL DEF Spec

(* Seen by its caller, a step of the search or of the clock is a step of    *)
(* the contract or none.                                                    *)
LEMMA StepKeepsContract ==
  IInv /\ IInv' /\ [Next]_vars => [Contract!Next]_(Contract!contractVars)
<1> SUFFICES ASSUME IInv, IInv', [Next]_vars
             PROVE  [Contract!Next]_(Contract!contractVars)
  OBVIOUS
<1> USE DEF Contract!contractVars
<1> USE DEF initial, best, current, solutions, baseVars, passVars
<1>1. ASSUME Crash, pc \notin {"done", "crashed"}
      PROVE  Contract!Fail
  BY <1>1 DEF Crash, Contract!Fail
<1>2. CASE Start
  <2>1. CASE pc = "start" /\ Crash
    BY <2>1, <1>1 DEF Contract!Next
  <2>2. ASSUME NEW s \in Structure, GetInitialSolution(s)
        PROVE  Contract!Begin
    BY <2>2 DEF GetInitialSolution, Contract!Begin
  <2> QED
    BY <1>2, <2>1, <2>2 DEF Start, BaseStart, Contract!Next
<1>3. CASE BeginPass
  BY <1>3 DEF BeginPass, Goto
<1>4. CASE LeaveLoop
  BY <1>4 DEF LeaveLoop, TimeoutAtHead, Goto
<1>5. CASE BadQuery
  BY <1>5, <1>1 DEF BadQuery, GarbageQuery, Contract!Next
<1>6. ASSUME pc = "moves", NEW s, NEW o, Accept(s, o)
      PROVE  UNCHANGED Contract!contractVars
  BY <1>6 DEF Accept
<1>7. ASSUME pc = "moves", NEW t, Skip(t)
      PROVE  UNCHANGED Contract!contractVars
  BY <1>7 DEF Skip
<1>8. ASSUME NEW t \in pending, TryMoveByDelta(t)
      PROVE  [Contract!Next]_(Contract!contractVars)
  BY <1>8, <1>1, <1>6, <1>7 DEF TryMoveByDelta, Die, Contract!Next
<1>9. ASSUME NEW t \in pending, TryMoveByNextCost(t)
      PROVE  [Contract!Next]_(Contract!contractVars)
  BY <1>9, <1>1, <1>6, <1>7 DEF TryMoveByNextCost, Die, Contract!Next
<1>10. CASE EndPass
  BY <1>10 DEF EndPass, Goto, AfterPass
<1>11. CASE Finish
  <2>1. /\ pc = "stop" /\ pc' = "done" /\ initialSol' = initialSol
        /\ bestSol' \in Structure /\ bestObjVal' = Obj(bestSol')
        /\ bestSol' = initialSol \/ Obj(bestSol') < Obj(initialSol)
    BY <1>11, ObjType DEF Finish, Return, CopyInitialIfNoneBetter, IInv, InStep, Searching
  <2>2. Contract!Return
    BY <2>1 DEF Contract!Return, Contract!Promised
  <2> QED
    BY <2>2 DEF Contract!Next
<1>12. CASE TimePasses
  BY <1>12 DEF TimePasses, Tick
<1>13. CASE UNCHANGED vars
  BY <1>13 DEF vars
<1> QED
  BY <1>2, <1>3, <1>4, <1>5, <1>8, <1>9, <1>10, <1>11, <1>12, <1>13 DEF Next, Step, TryMove

(* FirstImprovementSearch::doSearch implements the contract of a search: if *)
(* it returns, then with the solution it started from or a strictly better  *)
(* one, and the objective of that one.                                      *)
THEOREM ImplementsContract == Spec => KeepsContract
<1>1. Init => Contract!Init
  BY DEF Init, BaseInit, Contract!Init
<1> QED
  BY <1>1, InitIInv, NextIInv, StepKeepsContract, PTL DEF Spec, KeepsContract, Contract!Spec

-----------------------------------------------------------------------------
(* The safety half of termination: how far a search is from its end, while  *)
(* it stays at one solution.                                                *)
Phase ==
  CASE pc = "start"              -> 6
    [] pc = "moves" /\ improved  -> 5
    [] pc = "while"              -> 4
    [] pc = "moves" /\ ~improved -> 3
    [] pc = "stop"               -> 2
    [] pc \in {"done", "crashed", "apply"} -> 1

StaysAndCloses ==
  /\ UNCHANGED current
  /\ \/ Phase' < Phase
     \/ Phase' = Phase /\ pending' \subseteq pending /\ pending' # pending

ComesCloser ==
  /\ pc' # "start"
  /\ \/ pc = "start"
     \/ Obj(currentSol') < Obj(currentSol)
     \/ StaysAndCloses

(* No step of doSearch goes on for nothing. *)
StepsComeCloser == [][Step => ComesCloser]_vars

(* Whatever the clock does, no step of doSearch goes on for nothing: each   *)
(* lowers the objective of the current solution or, without a change of     *)
(* solution, shortens the walk over the moves or goes to a later phase.  So *)
(* a search in which objectives cannot fall for ever, over finite tables,   *)
(* has no infinite sequence of steps.                                       *)
THEOREM EveryStepComesCloser == Spec => StepsComeCloser
<1>1. ASSUME IInv, Step PROVE ComesCloser
  <2> USE DEF initial, best, current, solutions, baseVars, passVars
  <2>1. improved \in BOOLEAN /\ pc \in Labels
    BY <1>1 DEF IInv, TypeOK, BaseTypeOK
  <2>2. CASE Start
    BY <2>2 DEF Start, BaseStart, GetInitialSolution, Crash, ComesCloser
  <2>3. CASE BeginPass \/ LeaveLoop \/ BadQuery
    <3>1. /\ pc = "while" /\ UNCHANGED current
          /\ pc' \in {"stop", "crashed"} \/ (pc' = "moves" /\ improved' = FALSE)
      BY <2>3 DEF BeginPass, LeaveLoop, TimeoutAtHead, BadQuery, GarbageQuery, Crash, Goto
    <3>2. Phase = 4 /\ Phase' \in {1, 2, 3}
      BY <3>1 DEF Phase
    <3> QED
      BY <3>1, <3>2 DEF ComesCloser, StaysAndCloses
  <2>4. ASSUME NEW t \in pending, TryMoveByDelta(t) \/ TryMoveByNextCost(t)
        PROVE  ComesCloser
    <3> DEFINE s == Neighbor(modelling, currentSol, t)
    <3>1. /\ pc = "moves" /\ ~improved /\ modelling \in Modelling
          /\ currentSol \in Structure /\ currentObj = Obj(currentSol) /\ currentObj \in Int
          /\ t \in ValidMoves(modelling, currentSol)
      BY <1>1, <2>4 DEF TryMoveByDelta, TryMoveByNextCost, IInv, InStep, Searching, PendingValid,
         TypeOK, BaseTypeOK
    <3>2. CASE Die
      <4>1. UNCHANGED current /\ pc' = "crashed"
        BY <3>2 DEF Die, Crash
      <4>2. Phase = 3 /\ Phase' = 1
        BY <3>1, <4>1 DEF Phase
      <4> QED
        BY <4>1, <4>2 DEF ComesCloser, StaysAndCloses
    <3>3. CASE Skip(t)
      <4>1. UNCHANGED <<pc, current, improved>>
            /\ pending' \subseteq pending /\ pending' # pending
        BY <2>4, <3>3 DEF Skip
      <4>2. Phase = 3 /\ Phase' = 3
        BY <3>1, <4>1 DEF Phase
      <4> QED
        BY <3>1, <4>1, <4>2 DEF ComesCloser, StaysAndCloses
    <3>4. ASSUME NEW o, Accept(s, o), Obj(s) < currentObj
          PROVE  ComesCloser
      <4>1. currentSol' = s /\ pc' = pc
        BY <3>4 DEF Accept, MoveTo
      <4> QED
        BY <3>1, <3>4, <4>1 DEF ComesCloser
    <3>5. CASE TryMoveByDelta(t)
      <4>1. CASE s # NULL /\ DeltaImproves(t, s) /\ Accept(s, Obj(s))
        BY <3>4, <4>1 DEF DeltaImproves
      <4> QED
        BY <3>2, <3>3, <3>5, <4>1 DEF TryMoveByDelta, getNeighborSolution, FirstModel
    <3>6. CASE TryMoveByNextCost(t)
      <4>1. CASE CostImproves(t) /\ s # NULL /\ Accept(s, NextCost(modelling, currentSol, t))
        <5>1. NextCost(modelling, currentSol, t) = Obj(s) /\ Obj(s) \in Int
          BY <3>1, <3>6, <4>1, NextCostIsExact, MoveTypes, ObjType
             DEF NextCostIsExact, TryMoveByNextCost
        <5>2. Obj(s) < currentObj
          BY <3>1, <4>1, <5>1 DEF CostImproves
        <5> QED
          BY <3>4, <4>1, <5>2
      <4> QED
        BY <3>2, <3>3, <3>6, <4>1 DEF TryMoveByNextCost, getNeighborSolution, FirstModel
    <3> QED
      BY <2>4, <3>5, <3>6
  <2>5. CASE EndPass
    <3>1. pc = "moves" /\ UNCHANGED <<current, improved>> /\ pc' = AfterPass
      BY <2>5 DEF EndPass, Goto
    <3>2. CASE improved
      <4>1. pc' = "while" /\ Phase = 5 /\ Phase' = 4
        BY <3>1, <3>2 DEF AfterPass, Phase
      <4> QED
        BY <3>1, <4>1 DEF ComesCloser, StaysAndCloses
    <3>3. CASE ~improved
      <4>1. pc' = "stop" /\ Phase = 3 /\ Phase' = 2
        BY <3>1, <3>3 DEF AfterPass, Phase
      <4> QED
        BY <3>1, <4>1 DEF ComesCloser, StaysAndCloses
    <3> QED
      BY <2>1, <3>2, <3>3
  <2>6. CASE Finish
    <3>1. pc = "stop" /\ pc' = "done" /\ UNCHANGED current
      BY <2>6 DEF Finish, Return
    <3>2. Phase = 2 /\ Phase' = 1
      BY <3>1 DEF Phase
    <3> QED
      BY <3>1, <3>2 DEF ComesCloser, StaysAndCloses
  <2> QED
    BY <1>1, <2>2, <2>3, <2>4, <2>5, <2>6 DEF Step, TryMove
<1>2. IInv /\ [Next]_vars => [Step => ComesCloser]_vars
  BY <1>1
<1> QED
  BY <1>2, InitIInv, NextIInv, PTL DEF Spec, StepsComeCloser
=============================================================================
