------------------- MODULE LargeNeighbourhoodSearchProofs -------------------
(***************************************************************************)
(* Large neighbourhood search accepts what is better and nothing else, so  *)
(* the current solution is the best one; a failure beyond the most that    *)
(* are tolerated costs strength, so that both are bounded; and the moves   *)
(* enabled are sifted whenever the current solution changes.               *)
(***************************************************************************)
EXTENDS LargeNeighbourhoodSearch, TLAPS

Searching == pc \in {"while", "stop", "done"}

(* The current solution is the best one so far: the initial one or better. *)
InStep ==
  Searching =>
    /\ initialSol \in Structure
    /\ currentSol \in Structure
    /\ iniObjVal = Obj(initialSol)
    /\ currentObj = Obj(currentSol)
    /\ bestObjVal = currentObj
    /\ currentSol = initialSol \/ currentObj < iniObjVal
    /\ \/ bestSol = currentSol
       \/ bestSol = NULL /\ currentSol = initialSol /\ pc # "done"

(* Every failure beyond the most tolerated costs strength. *)
FailuresCostStrength ==
  /\ iterationsWithoutImprovement <= MaxItersNoImprove + (strength - MinDisturbSize)
  /\ pc \in {"start", "while"} => strength < MaxDisturbSize

StuckAtEnd ==
  pc \in {"stop", "done"} /\ ~timeout /\ enabled # {} => Stuck /\ strength = MaxDisturbSize

IInv == TypeOK /\ InStep /\ FailuresCostStrength /\ StuckAtEnd /\ DrawsFromDomain

-----------------------------------------------------------------------------

LEMMA BoundType == Timeout \in Nat /\ ClockBound \in Nat /\ ClockBound > Timeout
  BY ServiceTypes DEF ServiceTypes, ClockBound

LEMMA ObjType == \A s \in Structure : s # NULL /\ Obj(s) \in Int
  BY ServiceTypes DEF ServiceTypes

LEMMA SizeTypes ==
  /\ MinDisturbSize \in Nat /\ MaxDisturbSize \in Nat /\ MaxItersNoImprove \in Nat
  /\ MinDisturbSize < MaxDisturbSize
  /\ MaxInt \in Nat /\ MXTIMEOUT \in 0 .. MaxInt /\ 6000 <= MaxInt
  BY DisturbAssumption DEF DisturbAssumption

LEMMA LimitTypes == MXTIMEOUT \in Ints /\ 6000 \in Ints
  BY SizeTypes DEF Ints

(* The sum of two ints that is taken is an int. *)
LEMMA SumType ==
  ASSUME NEW x \in Ints
  PROVE  Sum(x, 10) \in Ints
  BY SizeTypes DEF Sum, Ints

LEMMA CompletionTypes ==
  ASSUME NEW m \in Modelling, NEW s \in Structure
  PROVE  /\ \A t \in Tuple : Regrown(m, s, t) \subseteq Structure
         /\ \A k \in MinDisturbSize .. MaxDisturbSize : RegrownAtRandom(s, k) \subseteq Structure
  BY DisturbAssumption DEF DisturbAssumption

LEMMA InitIInv == Init => IInv
<1> SUFFICES ASSUME Init PROVE IInv
  OBVIOUS
<1>1. BaseTypeOK
  <2>1. clock \in 0 .. ClockBound
    BY BoundType DEF Init, BaseInit
  <2> QED
    BY <2>1 DEF Init, BaseInit, BaseTypeOK, Labels
<1>2. TypeOK
  BY <1>1, SizeTypes, LimitTypes DEF Init, TypeOK, MostFailures
<1>3. pc = "start" /\ FailuresCostStrength
  BY SizeTypes DEF Init, BaseInit, FailuresCostStrength
<1> QED
  BY <1>2, <1>3 DEF IInv, InStep, Searching, StuckAtEnd, DrawsFromDomain

(* What an iteration does to strength and limit, whatever comes after. *)
LEMMA StrengthenTypes ==
  ASSUME IInv, pc = "while", Strengthen
  PROVE  /\ strength' \in MinDisturbSize .. MaxDisturbSize
         /\ increasedTimeLimit' \in Ints
         /\ iterationsWithoutImprovement <= MaxItersNoImprove + (strength' - MinDisturbSize)
         /\ ~Stuck => iterationsWithoutImprovement + 1 <= MaxItersNoImprove
         /\ Stuck => iterationsWithoutImprovement + 1
                       <= MaxItersNoImprove + (strength' - MinDisturbSize)
         /\ iterationsWithoutImprovement \in 0 .. MostFailures
<1>1. /\ strength \in MinDisturbSize .. MaxDisturbSize /\ strength < MaxDisturbSize
      /\ iterationsWithoutImprovement \in 0 .. MostFailures
      /\ iterationsWithoutImprovement <= MaxItersNoImprove + (strength - MinDisturbSize)
      /\ increasedTimeLimit \in Ints
  BY DEF IInv, TypeOK, FailuresCostStrength
<1>2. increasedTimeLimit' \in Ints
  BY <1>1, SumType DEF Strengthen, NextTimeLimit
<1>3. MostFailures \in Nat
  BY SizeTypes DEF MostFailures
<1> QED
  BY <1>1, <1>2, <1>3, SizeTypes DEF Strengthen, NextStrength, Stuck

LEMMA CrashIInv ==
  ASSUME IInv, Crash, enabled' \subseteq Tuple,
         strength' \in MinDisturbSize .. MaxDisturbSize,
         UNCHANGED iterationsWithoutImprovement,
         iterationsWithoutImprovement <= MaxItersNoImprove + (strength' - MinDisturbSize),
         increasedTimeLimit' \in Ints, mxTimeout' \in Ints
  PROVE  IInv'
<1>1. TypeOK'
  BY DEF IInv, TypeOK, BaseTypeOK, Labels, Crash, solutions, initial, best, current
<1> QED
  BY <1>1 DEF IInv, Crash, InStep, Searching, FailuresCostStrength, StuckAtEnd, DrawsFromDomain

(* Whatever the solver completes a part of the current solution to. *)
LEMMA DisturbIInv ==
  ASSUME IInv, NEW completions, completions \subseteq Structure, Disturb(completions),
         mxTimeout' \in Ints
  PROVE  IInv'
<1> USE DEF initial, best, current, solutions
<1>1. /\ pc = "while" /\ Strengthen /\ strength' < MaxDisturbSize
      /\ enabled \subseteq Tuple
  BY DEF Disturb, Strengthen, IInv, TypeOK
<1>2. CASE Crash /\ UNCHANGED <<enabled, iterationsWithoutImprovement>>
  BY <1>1, <1>2, StrengthenTypes, CrashIInv
<1>3. ASSUME NEW s \in completions, Evaluate(s)
      PROVE  IInv'
  <2>1. s \in Structure /\ Obj(s) \in Int /\ pc' = "while"
    BY <1>1, <1>3, ObjType DEF Evaluate
  <2>2. /\ currentSol \in Structure /\ currentObj \in Int /\ bestObjVal = currentObj
        /\ currentObj = Obj(currentSol) /\ initialSol \in Structure /\ iniObjVal = Obj(initialSol)
        /\ iniObjVal \in Int
    BY <1>1 DEF IInv, InStep, Searching, TypeOK, BaseTypeOK
  <2>3. InStep'
    <3>1. CASE Obj(s) < currentObj
      BY <1>1, <1>3, <2>1, <2>2, <3>1 DEF Evaluate, IInv, InStep, Searching
    <3>2. CASE ~(Obj(s) < currentObj)
      BY <1>1, <1>3, <2>1, <2>2, <3>2 DEF Evaluate, IInv, InStep, Searching
    <3> QED
      BY <3>1, <3>2
  <2>4. BaseTypeOK'
    BY <1>1, <1>3, <2>1, <2>2 DEF Evaluate, IInv, TypeOK, BaseTypeOK
  <2>5. /\ iterationsWithoutImprovement' \in 0 .. MostFailures
        /\ iterationsWithoutImprovement' <= MaxItersNoImprove + (strength' - MinDisturbSize)
    <3>1. CASE iterationsWithoutImprovement' = 0
      BY <1>1, <3>1, StrengthenTypes, SizeTypes DEF MostFailures
    <3>2. CASE iterationsWithoutImprovement' = iterationsWithoutImprovement + 1
      BY <1>1, <3>2, StrengthenTypes, SizeTypes DEF MostFailures
    <3> QED
      BY <1>3, <3>1, <3>2 DEF Evaluate
  <2>6. enabled' \subseteq Tuple /\ DrawsFromDomain'
    BY <1>1, <1>3, <2>1 DEF Evaluate, signalChangeCurrentSolution, IInv, DrawsFromDomain
  <2>7. TypeOK'
    BY <1>1, <2>4, <2>5, <2>6, StrengthenTypes DEF TypeOK, Ints
  <2> QED
    BY <1>1, <2>1, <2>3, <2>5, <2>6, <2>7 DEF IInv, FailuresCostStrength, StuckAtEnd
<1> QED
  BY <1>2, <1>3 DEF Disturb

LEMMA NextIInv == IInv /\ [Next]_vars => IInv'
<1> SUFFICES ASSUME IInv, [Next]_vars PROVE IInv'
  OBVIOUS
<1> USE DEF initial, best, current, solutions, baseVars, lnsVars
<1>1. CASE Start
  <2>1. CASE pc = "start" /\ Crash
    <3>1. pc' = "crashed" /\ mxTimeout' \in Ints /\ enabled' \subseteq Tuple
      BY <1>1, <2>1, LimitTypes DEF Start, Crash, IInv, TypeOK
    <3> QED
      BY <1>1, <2>1, <3>1, CrashIInv DEF Start, IInv, TypeOK, FailuresCostStrength
  <2>2. ASSUME NEW s \in Structure, GetInitialSolution(s)
        PROVE  IInv'
    <3>1. /\ pc = "start" /\ pc' = "while" /\ currentSol' = initialSol'
          /\ mxTimeout' = MXTIMEOUT /\ signalChangeCurrentSolution(initialSol')
          /\ UNCHANGED <<modelling, strength, iterationsWithoutImprovement, increasedTimeLimit>>
      BY <1>1, <2>2 DEF Start, GetInitialSolution
    <3>2. BaseTypeOK'
      BY <2>2, ObjType DEF IInv, TypeOK, BaseTypeOK, Labels, GetInitialSolution
    <3>3. InStep'
      BY <2>2, ObjType DEF InStep, Searching, GetInitialSolution
    <3>4. enabled' \subseteq Tuple /\ DrawsFromDomain'
      BY <3>1 DEF signalChangeCurrentSolution, IInv, TypeOK, DrawsFromDomain
    <3>5. TypeOK'
      BY <3>1, <3>2, <3>4, LimitTypes DEF IInv, TypeOK, Ints, MostFailures
    <3> QED
      BY <3>1, <3>3, <3>4, <3>5 DEF IInv, FailuresCostStrength, StuckAtEnd
  <2> QED
    BY <1>1, <2>1, <2>2 DEF Start, BaseStart
<1>2. CASE LeaveLoop
  BY <1>2 DEF LeaveLoop, TimeoutAtHead, Goto, timeout, IInv, TypeOK, BaseTypeOK, Labels, Ints,
     MostFailures, InStep, Searching, FailuresCostStrength, StuckAtEnd, DrawsFromDomain
<1>3. CASE GiveUp
  <2>1. /\ pc = "while" /\ pc' = "stop" /\ Strengthen
        /\ UNCHANGED <<modelling, clock, solutions, enabled, iterationsWithoutImprovement, mxTimeout>>
    BY <1>3 DEF GiveUp, Goto
  <2>2. TypeOK'
    BY <2>1, StrengthenTypes DEF IInv, TypeOK, BaseTypeOK, Labels, Ints, MostFailures
  <2>3. InStep' /\ DrawsFromDomain'
    BY <2>1 DEF IInv, InStep, Searching, DrawsFromDomain
  <2>4. FailuresCostStrength'
    BY <2>1, StrengthenTypes DEF FailuresCostStrength
  <2>5. StuckAtEnd'
    <3> SUFFICES ASSUME enabled # {}
                 PROVE  Stuck /\ strength' = MaxDisturbSize
      BY <2>1 DEF StuckAtEnd, Stuck
    <3>1. NextStrength >= MaxDisturbSize
      BY <1>3 DEF GiveUp
    <3>2. strength \in Nat /\ strength < MaxDisturbSize
      BY <2>1, SizeTypes DEF IInv, TypeOK, FailuresCostStrength
    <3> QED
      BY <2>1, <3>1, <3>2, SizeTypes DEF NextStrength, Strengthen
  <2> QED
    BY <2>2, <2>3, <2>4, <2>5 DEF IInv
<1>4. CASE disturbFromMove
  <2>1. PICK t \in enabled : /\ Disturb(Regrown(modelling, currentSol, t))
                             /\ mxTimeout' = MXTIMEOUT
    BY <1>4 DEF disturbFromMove
  <2>2. Regrown(modelling, currentSol, t) \subseteq Structure
    BY <2>1, CompletionTypes DEF Disturb, IInv, TypeOK, BaseTypeOK, InStep, Searching
  <2> QED
    BY <2>1, <2>2, DisturbIInv, LimitTypes
<1>5. CASE disturbSolutionRandomly
  <2>1. /\ Disturb(RegrownAtRandom(currentSol, NextStrength))
        /\ mxTimeout' = NextTimeLimit
    BY <1>5 DEF disturbSolutionRandomly
  <2>2. /\ pc = "while" /\ Strengthen
        /\ modelling \in Modelling /\ currentSol \in Structure
    BY <2>1 DEF Disturb, IInv, TypeOK, BaseTypeOK, InStep, Searching
  <2>3. NextStrength \in MinDisturbSize .. MaxDisturbSize /\ NextTimeLimit \in Ints
    BY <2>2, StrengthenTypes DEF Strengthen
  <2>4. RegrownAtRandom(currentSol, NextStrength) \subseteq Structure
    BY <2>2, <2>3, CompletionTypes
  <2> QED
    BY <2>1, <2>3, <2>4, DisturbIInv
<1>6. CASE Finish
  <2>1. BaseTypeOK' /\ InStep'
    BY <1>6, ObjType DEF Finish, Return, CopyInitialIfNoneBetter, IInv, TypeOK, BaseTypeOK,
       Labels, InStep, Searching
  <2> QED
    BY <1>6, <2>1 DEF Finish, Return, IInv, TypeOK, Ints, MostFailures, FailuresCostStrength,
       StuckAtEnd, Stuck, timeout, DrawsFromDomain
<1>7. CASE TimePasses
  <2>1. BaseTypeOK' /\ InStep'
    BY <1>7, BoundType DEF TimePasses, Tick, TimeLeft, IInv, TypeOK, BaseTypeOK, InStep, Searching
  <2>2. ~timeout' => ~timeout
    BY <1>7, BoundType DEF TimePasses, Tick, timeout, IInv, TypeOK, BaseTypeOK
  <2> QED
    BY <1>7, <2>1, <2>2 DEF TimePasses, Tick, IInv, TypeOK, Ints, MostFailures,
       FailuresCostStrength, StuckAtEnd, Stuck, DrawsFromDomain
<1>8. CASE UNCHANGED vars
  BY <1>8 DEF vars, IInv, TypeOK, BaseTypeOK, Ints, MostFailures, InStep, Searching,
     FailuresCostStrength, StuckAtEnd, Stuck, timeout, DrawsFromDomain
<1> QED
  BY <1>1, <1>2, <1>3, <1>4, <1>5, <1>6, <1>7, <1>8 DEF Next, Step

-----------------------------------------------------------------------------

(* LargeNeighbourhoodSearch::doSearch is always in a state of its types; in *)
(* particular the failures in a row and the strength are bounded.           *)
THEOREM TypeCorrect == Spec => []TypeOK
<1>1. IInv => TypeOK
  BY DEF IInv
<1> QED
  BY <1>1, InitIInv, NextIInv, PTL DEF Spec

(* getaRandomVar never draws from an empty table.                           *)
THEOREM DrawsOnlyFromDomain == Spec => []DrawsFromDomain
<1>1. IInv => DrawsFromDomain
  BY DEF IInv
<1> QED
  BY <1>1, InitIInv, NextIInv, PTL DEF Spec

(* The search gives up before its time only after _mMaxItersNoImprove       *)
(* failures in a row and at full strength, or without an enabled move.      *)
THEOREM GivesUpOnlyAtTheEnd == Spec => []GivesUpOnlyWhenStuck
<1>1. IInv => GivesUpOnlyWhenStuck
  BY DEF IInv, StuckAtEnd, GivesUpOnlyWhenStuck
<1> QED
  BY <1>1, InitIInv, NextIInv, PTL DEF Spec

(* To its caller, a step of the search is a step of the contract or none.   *)
LEMMA StepKeepsContract ==
  IInv /\ IInv' /\ [Next]_vars => [Contract!Next]_(Contract!contractVars)
<1> SUFFICES ASSUME IInv, IInv', [Next]_vars
             PROVE  [Contract!Next]_(Contract!contractVars)
  OBVIOUS
<1> USE DEF Contract!contractVars
<1> USE DEF initial, best, current, solutions, baseVars, lnsVars
<1>1. ASSUME Crash, pc \notin {"done", "crashed"}
      PROVE  Contract!Next
  BY <1>1 DEF Crash, Contract!Fail, Contract!Next
<1>2. CASE Start
  <2>1. ASSUME NEW s \in Structure, GetInitialSolution(s)
        PROVE  Contract!Next
    BY <2>1 DEF GetInitialSolution, Contract!Begin, Contract!Next
  <2> QED
    BY <1>1, <1>2, <2>1 DEF Start, BaseStart
<1>3. CASE LeaveLoop
  BY <1>3 DEF LeaveLoop, TimeoutAtHead, Goto
<1>4. CASE GiveUp
  BY <1>4 DEF GiveUp, Goto
<1>5. ASSUME NEW completions, Disturb(completions)
      PROVE  [Contract!Next]_(Contract!contractVars)
  <2>1. ASSUME NEW s, Evaluate(s), pc = "while"
        PROVE  UNCHANGED Contract!contractVars
    BY <2>1 DEF Evaluate
  <2> QED
    BY <1>1, <1>5, <2>1 DEF Disturb
<1>6. CASE Finish
  <2>1. /\ pc = "stop" /\ pc' = "done" /\ initialSol' = initialSol
        /\ bestSol' \in Structure /\ bestObjVal' = Obj(bestSol')
        /\ bestSol' = initialSol \/ Obj(bestSol') < Obj(initialSol)
    BY <1>6, ObjType DEF Finish, Return, CopyInitialIfNoneBetter, IInv, InStep, Searching
  <2>2. Contract!Return
    BY <2>1 DEF Contract!Return, Contract!Promised
  <2> QED
    BY <2>2 DEF Contract!Next
<1>7. CASE TimePasses
  BY <1>7 DEF TimePasses, Tick
<1>8. CASE UNCHANGED vars
  BY <1>8 DEF vars
<1> QED
  BY <1>2, <1>3, <1>4, <1>5, <1>6, <1>7, <1>8 DEF Next, Step, disturbFromMove,
     disturbSolutionRandomly

(* LargeNeighbourhoodSearch::doSearch implements the contract of a search:  *)
(* it returns the solution it started from or a strictly better one, with   *)
(* its objective.                                                           *)
THEOREM ImplementsContract == Spec => KeepsContract
<1>1. Init => Contract!Init
  BY DEF Init, BaseInit, Contract!Init
<1> QED
  BY <1>1, InitIInv, NextIInv, StepKeepsContract, PTL DEF Spec, KeepsContract, Contract!Spec

-----------------------------------------------------------------------------
(* The safety half of termination: how many steps are left if nothing       *)
(* improves any more.                                                       *)
StepsLeft ==
  CASE pc = "while"               -> MostFailures - iterationsWithoutImprovement + 2
    [] pc = "stop"                -> 1
    [] pc \in {"done", "crashed"} -> 0

ComesCloser ==
  /\ pc' # "start"
  /\ \/ pc = "start"
     \/ Obj(currentSol') < Obj(currentSol)
     \/ currentSol' = currentSol /\ StepsLeft' < StepsLeft /\ StepsLeft' >= 0

(* No disturbance goes on for nothing. *)
StepsComeCloser == [][Step => ComesCloser]_vars

LEMMA StepsLeftType ==
  ASSUME IInv, pc = "while"
  PROVE  /\ StepsLeft = MostFailures - iterationsWithoutImprovement + 2
         /\ StepsLeft \in Int /\ StepsLeft >= 2
<1>1. MostFailures \in Nat /\ iterationsWithoutImprovement \in 0 .. MostFailures
  BY SizeTypes DEF MostFailures, IInv, TypeOK
<1>2. StepsLeft = MostFailures - iterationsWithoutImprovement + 2
  BY DEF StepsLeft
<1> QED
  BY <1>1, <1>2

LEMMA EndComesCloser ==
  ASSUME IInv, pc = "while", pc' \in {"stop", "crashed"}, UNCHANGED currentSol
  PROVE  ComesCloser
<1>1. StepsLeft \in Int /\ StepsLeft >= 2
  BY StepsLeftType
<1>2. StepsLeft' \in {0, 1}
  BY DEF StepsLeft
<1> QED
  BY <1>1, <1>2 DEF ComesCloser

LEMMA DisturbComesCloser ==
  ASSUME IInv, IInv', NEW completions, completions \subseteq Structure, Disturb(completions)
  PROVE  ComesCloser
<1> USE DEF initial, best, current, solutions
<1>1. /\ pc = "while" /\ currentSol \in Structure /\ currentObj = Obj(currentSol)
      /\ bestObjVal = currentObj
  BY DEF Disturb, IInv, InStep, Searching
<1>2. CASE Crash
  BY <1>1, <1>2, EndComesCloser DEF Crash
<1>3. ASSUME NEW s \in completions, Evaluate(s)
      PROVE  ComesCloser
  <2>1. pc' = "while"
    BY <1>1, <1>3 DEF Evaluate
  <2>2. CASE Obj(s) < currentObj
    BY <1>1, <1>3, <2>1, <2>2 DEF Evaluate, ComesCloser
  <2>3. CASE ~(Obj(s) < currentObj)
    <3>1. currentSol' = currentSol
          /\ iterationsWithoutImprovement' = iterationsWithoutImprovement + 1
      BY <1>1, <1>3, <2>3 DEF Evaluate
    <3>2. StepsLeft' = MostFailures - iterationsWithoutImprovement' + 2
      BY <2>1 DEF StepsLeft, MostFailures
    <3>3. MostFailures \in Nat /\ iterationsWithoutImprovement \in 0 .. MostFailures
          /\ iterationsWithoutImprovement' \in 0 .. MostFailures
      BY <2>1, SizeTypes DEF MostFailures, IInv, TypeOK
    <3>4. StepsLeft' = StepsLeft - 1 /\ StepsLeft \in Int /\ StepsLeft' >= 0
      BY <1>1, <3>1, <3>2, <3>3, StepsLeftType
    <3> QED
      BY <2>1, <3>1, <3>4 DEF ComesCloser
  <2> QED
    BY <2>2, <2>3
<1> QED
  BY <1>2, <1>3 DEF Disturb

LEMMA StepComesCloser ==
  ASSUME IInv, IInv', Step
  PROVE  ComesCloser
<1> USE DEF initial, best, current, solutions
<1>1. CASE Start
  BY <1>1 DEF Start, BaseStart, GetInitialSolution, Crash, ComesCloser
<1>2. CASE LeaveLoop \/ GiveUp
  BY <1>2, EndComesCloser DEF LeaveLoop, TimeoutAtHead, GiveUp, Goto
<1>3. CASE disturbFromMove
  <2>1. PICK t \in enabled : Disturb(Regrown(modelling, currentSol, t))
    BY <1>3 DEF disturbFromMove
  <2>2. Regrown(modelling, currentSol, t) \subseteq Structure
    BY <2>1, CompletionTypes DEF Disturb, IInv, TypeOK, BaseTypeOK, InStep, Searching
  <2> QED
    BY <2>1, <2>2, DisturbComesCloser
<1>4. CASE disturbSolutionRandomly
  <2>1. Disturb(RegrownAtRandom(currentSol, NextStrength))
    BY <1>4 DEF disturbSolutionRandomly
  <2>2. /\ pc = "while" /\ Strengthen
        /\ modelling \in Modelling /\ currentSol \in Structure
    BY <2>1 DEF Disturb, IInv, TypeOK, BaseTypeOK, InStep, Searching
  <2>3. NextStrength \in MinDisturbSize .. MaxDisturbSize
    BY <2>2, StrengthenTypes DEF Strengthen
  <2>4. RegrownAtRandom(currentSol, NextStrength) \subseteq Structure
    BY <2>2, <2>3, CompletionTypes
  <2> QED
    BY <2>1, <2>4, DisturbComesCloser
<1>5. CASE Finish
  <2>1. pc = "stop" /\ pc' = "done" /\ currentSol' = currentSol
    BY <1>5 DEF Finish, Return
  <2>2. StepsLeft = 1 /\ StepsLeft' = 0
    BY <2>1 DEF StepsLeft
  <2> QED
    BY <2>1, <2>2 DEF ComesCloser
<1> QED
  BY <1>1, <1>2, <1>3, <1>4, <1>5 DEF Step

(* Whatever the clock does, the draws give and the solver finds, a step of  *)
(* doSearch goes to a better solution or leaves fewer steps to go: at any   *)
(* one solution no more than MostFailures disturbances fail, 50 with         *)
(* the constants of the code.                                               *)
THEOREM EveryStepComesCloser == Spec => StepsComeCloser
<1>1. IInv /\ IInv' /\ [Next]_vars => [Step => ComesCloser]_vars
  BY StepComesCloser
<1> QED
  BY <1>1, InitIInv, NextIInv, PTL DEF Spec, StepsComeCloser
=============================================================================
