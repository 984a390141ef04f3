----------------------------- MODULE ILSProofs -----------------------------
(***************************************************************************)
(* The entries of the option localsearchtype, from how doLocalSearch reads *)
(* them to what ILS makes of them.                                         *)
(*                                                                         *)
(* ILS: the entries run most recently, as many as there were failures in a *)
(* row, have returned the current solution itself.  More failures than     *)
(* entries therefore mean that none of the entries helps.                  *)
(*                                                                         *)
(* doLocalSearch: each loop leaves at place i of its list what it made of  *)
(* entry i of the option, and has gone through them all before the next.   *)
(***************************************************************************)
EXTENDS ILS, LocalSearchOptions, TLAPS

Searching == pc \in {"while", "apply", "stop", "done"}

(* The chain of searches stands at the best solution. *)
InStep ==
  Searching =>
    /\ initialSol \in Structure
    /\ currentSol \in Structure
    /\ bestObjVal = Obj(currentSol)
    /\ currentSol = IF bestSol = NULL THEN initialSol ELSE bestSol

Positions == 0 .. Len(entries) - 1

(* How many entries were begun after that at position p, counting back     *)
(* from moveindex, round the list.                                         *)
Ago(p) == IF p <= moveindex THEN moveindex - p ELSE moveindex + Len(entries) - p

CannotHelp(p) == currentSol \in Returned(entries[p + 1], currentSol)

FailedInARow ==
  /\ pc = "start" => iterationsWithoutImprovement = 0
  /\ pc \in {"while", "stop", "done"} =>
       \A p \in Positions : Ago(p) < iterationsWithoutImprovement => CannotHelp(p)
  /\ pc = "apply" =>
       /\ moveindex \in Positions
       /\ \A p \in Positions :
            1 <= Ago(p) /\ Ago(p) <= iterationsWithoutImprovement => CannotHelp(p)

StopsForAReason ==
  pc \in {"stop", "done"} /\ ~timeout => iterationsWithoutImprovement > Len(entries)

IInv == TypeOK /\ InStep /\ FailedInARow /\ StopsForAReason

-----------------------------------------------------------------------------

LEMMA BaseTypes ==
  /\ Timeout \in Nat
  /\ NULL \notin Structure
  /\ \A s \in Structure : Obj(s) \in Int
  BY ServiceTypes DEF ServiceTypes

LEMMA EntryTypes ==
  ASSUME NEW list \in EntryLists
  PROVE  /\ list \in Seq(Modelling)
         /\ Len(list) \in Nat /\ Len(list) >= 1
         /\ \A i \in 1 .. Len(list) : list[i] \in Modelling
<1>1. list \in Seq(Modelling) /\ list # <<>>
  BY EntryAssumption DEF EntryAssumption
<1> QED
  BY <1>1

(* The search of an entry returns a better solution, or where it began. *)
LEMMA ReturnedTypes ==
  ASSUME NEW m \in Modelling, NEW s \in Structure, NEW r \in Returned(m, s)
  PROVE  r \in Structure /\ (r = s \/ Obj(r) < Obj(s))
  BY EntryAssumption DEF EntryAssumption

LEMMA InitIInv == Init => IInv
<1> SUFFICES ASSUME Init PROVE IInv
  OBVIOUS
<1> USE DEF Init, BaseInit
<1>1. Len(entries) \in Nat /\ Len(entries) >= 1
  BY EntryTypes
<1>2. TypeOK
  BY <1>1, BaseTypes DEF TypeOK, Labels, ClockBound
<1> QED
  BY <1>2, BaseTypes DEF IInv, InStep, Searching, FailedInARow, StopsForAReason

(* Steps of the control that leave solutions and counters alone. *)
LEMMA CrashIInv ==
  ASSUME IInv, Crash, UNCHANGED ilsVars
  PROVE  IInv'
  BY DEF IInv, Crash, ilsVars, solutions, initial, best, current, TypeOK, Labels, InStep,
     Searching, FailedInARow, StopsForAReason

(* The list is walked round: whatever was begun is one further back. *)
LEMMA BeginEntryIInv ==
  ASSUME IInv, BeginEntry
  PROVE  IInv'
<1> USE DEF solutions, initial, best, current
<1>1. /\ pc = "while" /\ pc' = "apply" /\ ~timeout
      /\ moveindex' = getNextMove(moveindex)
      /\ UNCHANGED <<modelling, clock, solutions, entries, iterationsWithoutImprovement>>
  BY DEF BeginEntry, Goto
<1>2. /\ Len(entries) \in Nat /\ Len(entries) >= 1
      /\ moveindex \in -1 .. Len(entries) - 1
      /\ iterationsWithoutImprovement \in Nat
  BY EntryTypes DEF IInv, TypeOK
<1>3. moveindex' \in Positions /\ Positions' = Positions
  BY <1>1, <1>2 DEF getNextMove, Positions
<1>4. ASSUME NEW p \in Positions, 1 <= Ago(p)'
      PROVE  Ago(p)' = Ago(p) + 1
  BY <1>1, <1>2, <1>4 DEF Ago, Positions, getNextMove
<1>5. ASSUME NEW p \in Positions, 1 <= Ago(p)', Ago(p)' <= iterationsWithoutImprovement
      PROVE  CannotHelp(p)'
  <2>1. Ago(p) \in Int
    BY <1>2 DEF Ago, Positions
  <2>2. Ago(p) < iterationsWithoutImprovement
    BY <1>2, <1>4, <1>5, <2>1
  <2> QED
    BY <1>1, <2>2 DEF IInv, FailedInARow, CannotHelp
<1>6. FailedInARow'
  BY <1>1, <1>3, <1>5 DEF FailedInARow
<1>7. TypeOK'
  BY <1>1, <1>2, <1>3 DEF IInv, TypeOK, Labels, Positions
<1> QED
  BY <1>1, <1>6, <1>7 DEF IInv, InStep, Searching, StopsForAReason, timeout

LEMMA EntryReturnsIInv ==
  ASSUME IInv, EntryReturns
  PROVE  IInv'
<1> USE DEF solutions, initial, best, current
<1>1. /\ pc = "apply"
      /\ UNCHANGED <<modelling, clock, initialSol, iniObjVal, entries, moveindex>>
  BY DEF EntryReturns
<1>2. /\ Len(entries) \in Nat /\ Len(entries) >= 1
      /\ moveindex \in Positions /\ moveindex + 1 \in 1 .. Len(entries)
      /\ entries[moveindex + 1] \in Modelling
      /\ iterationsWithoutImprovement \in 0 .. Len(entries) + 1
  BY <1>1, EntryTypes DEF IInv, TypeOK, FailedInARow, Positions
<1>3. /\ currentSol \in Structure /\ initialSol \in Structure /\ bestSol \in Structure \cup {NULL}
      /\ bestObjVal = Obj(currentSol) /\ Obj(currentSol) \in Int
  BY <1>1, BaseTypes DEF IInv, InStep, Searching, TypeOK
<1>4. PICK r \in Returned(entries[moveindex + 1], currentSol) :
        currentSol' = r /\ currentObj' = Obj(r)
  BY DEF EntryReturns
<1>5. /\ currentSol' \in Structure /\ Obj(currentSol') \in Int /\ currentObj' = Obj(currentSol')
      /\ currentSol' # NULL
      /\ currentSol' = currentSol \/ Obj(currentSol') < Obj(currentSol)
  BY <1>2, <1>3, <1>4, ReturnedTypes, BaseTypes
<1>6. Positions' = Positions
  BY <1>1 DEF Positions
<1>7. CASE EntryImproves /\ currentObj' - Obj(currentSol) < 0
  <2>1. /\ pc' = "while" /\ iterationsWithoutImprovement' = 0
        /\ bestSol' = currentSol' /\ bestObjVal' = Obj(currentSol')
    BY <1>3, <1>5, <1>7 DEF EntryImproves, KeepIfBetter
  <2>2. TypeOK'
    BY <1>1, <1>2, <1>5, <2>1 DEF IInv, TypeOK, Labels
  <2>3. InStep'
    BY <1>1, <1>3, <1>5, <2>1 DEF InStep, Searching
  <2>4. FailedInARow'
    <3>1. ASSUME NEW p \in Positions
          PROVE  ~(Ago(p)' < 0)
      BY <1>1, <1>2, <3>1 DEF Ago, Positions
    <3> QED
      BY <1>6, <2>1, <3>1 DEF FailedInARow
  <2> QED
    BY <1>6, <2>1, <2>2, <2>3, <2>4 DEF IInv, StopsForAReason
<1>8. CASE EntryFails /\ ~(currentObj' - Obj(currentSol) < 0)
  <2>1. /\ currentSol' = currentSol /\ UNCHANGED <<bestSol, bestObjVal>>
        /\ pc' \in {"while", "stop"}
        /\ pc' = "stop" => iterationsWithoutImprovement' > Len(entries)
    BY <1>3, <1>5, <1>8 DEF EntryFails, Enough
  <2>2. /\ iterationsWithoutImprovement' \in 0 .. Len(entries) + 1
        /\ \/ iterationsWithoutImprovement' = iterationsWithoutImprovement + 1
           \/ iterationsWithoutImprovement' = Len(entries) + 1
              /\ iterationsWithoutImprovement = Len(entries) + 1
    BY <1>2, <1>8 DEF EntryFails
  <2>3. TypeOK'
    BY <1>1, <1>2, <2>1, <2>2 DEF IInv, TypeOK, Labels
  <2>4. InStep'
    BY <1>1, <2>1 DEF IInv, InStep, Searching
  <2>5. ASSUME NEW p \in Positions, Ago(p)' < iterationsWithoutImprovement'
        PROVE  CannotHelp(p)'
    <3>1. Ago(p)' = Ago(p) /\ Ago(p) \in 0 .. Len(entries) - 1
      BY <1>1, <1>2 DEF Ago, Positions
    <3>2. CASE Ago(p) = 0
      <4>1. p = moveindex
        BY <1>2, <3>2 DEF Ago, Positions
      <4> QED
        BY <1>1, <1>4, <2>1, <4>1 DEF CannotHelp
    <3>3. CASE Ago(p) >= 1
      <4>1. Ago(p) <= iterationsWithoutImprovement
        BY <1>2, <2>2, <2>5, <3>1
      <4>2. CannotHelp(p)
        BY <1>1, <3>3, <4>1 DEF IInv, FailedInARow
      <4> QED
        BY <1>1, <2>1, <4>2 DEF CannotHelp
    <3> QED
      BY <3>1, <3>2, <3>3
  <2>6. FailedInARow'
    BY <1>6, <2>1, <2>5 DEF FailedInARow
  <2>7. StopsForAReason'
    BY <1>1, <2>1 DEF StopsForAReason
  <2> QED
    BY <1>6, <2>3, <2>4, <2>6, <2>7 DEF IInv
<1> QED
  BY <1>7, <1>8 DEF EntryReturns

LEMMA NextIInv == IInv /\ [Next]_vars => IInv'
<1> SUFFICES ASSUME IInv, [Next]_vars PROVE IInv'
  OBVIOUS
<1> USE DEF solutions, initial, best, current
<1>1. CASE Start
  <2>1. CASE pc = "start" /\ Crash
    BY <1>1, <2>1, CrashIInv DEF Start
  <2>2. ASSUME NEW s \in Structure, GetInitialSolution(s), UNCHANGED ilsVars
        PROVE  IInv'
    <3>1. /\ pc = "start" /\ pc' = "while" /\ bestSol' = NULL
          /\ initialSol' = s /\ currentSol' = s /\ bestObjVal' = Obj(s)
          /\ UNCHANGED <<modelling, clock, entries, moveindex, iterationsWithoutImprovement>>
      BY <2>2 DEF GetInitialSolution, ilsVars
    <3>2. TypeOK'
      BY <3>1 DEF IInv, TypeOK, Labels
    <3>3. InStep' /\ StopsForAReason'
      BY <3>1 DEF IInv, InStep, Searching, StopsForAReason
    <3>4. iterationsWithoutImprovement' = 0 /\ Positions' = Positions
      BY <3>1 DEF IInv, FailedInARow, Positions
    <3>5. ASSUME NEW p \in Positions
          PROVE  ~(Ago(p)' < 0)
      <4>1. Len(entries) \in Nat /\ moveindex \in -1 .. Len(entries) - 1
        BY EntryTypes DEF IInv, TypeOK
      <4> QED
        BY <3>1, <4>1 DEF Ago, Positions
    <3> QED
      BY <3>1, <3>2, <3>3, <3>4, <3>5 DEF IInv, FailedInARow
  <2> QED
    BY <1>1, <2>1, <2>2 DEF Start, BaseStart
<1>2. CASE LeaveLoop
  BY <1>2 DEF LeaveLoop, TimeoutAtHead, Goto, timeout, ilsVars, IInv, TypeOK, Labels, InStep,
     Searching, FailedInARow, Positions, Ago, CannotHelp, StopsForAReason
<1>3. CASE BeginEntry
  BY <1>3, BeginEntryIInv
<1>4. CASE EntryReturns
  BY <1>4, EntryReturnsIInv
<1>5. CASE EntryCrashes
  BY <1>5, CrashIInv DEF EntryCrashes
<1>6. CASE Finish
  BY <1>6 DEF Finish, Goto, timeout, ilsVars, IInv, TypeOK, Labels, InStep,
     Searching, FailedInARow, Positions, Ago, CannotHelp, StopsForAReason
<1>7. CASE TimePasses
  <2>1. /\ pc \notin {"done", "crashed"} /\ clock < ClockBound /\ clock' = clock + 1
        /\ UNCHANGED <<pc, modelling, solutions, ilsVars>>
    BY <1>7 DEF TimePasses, Tick, TimeLeft
  <2>2. clock' \in 0 .. ClockBound /\ (timeout => timeout')
    BY <2>1, BaseTypes DEF IInv, TypeOK, ClockBound, timeout
  <2> QED
    BY <2>1, <2>2 DEF ilsVars, IInv, TypeOK, InStep, Searching, FailedInARow, Positions, Ago,
       CannotHelp, StopsForAReason
<1>8. CASE UNCHANGED vars
  BY <1>8 DEF vars, baseVars, ilsVars, timeout, IInv, TypeOK, InStep, Searching, FailedInARow,
     Positions, Ago, CannotHelp, StopsForAReason
<1> QED
  BY <1>1, <1>2, <1>3, <1>4, <1>5, <1>6, <1>7, <1>8 DEF Next, Step

-----------------------------------------------------------------------------

(* ILS::doSearch is always in a state of its types; moveindex stays within  *)
(* the list of entries.                                                     *)
THEOREM TypeCorrect == Spec => []TypeOK
<1>1. IInv => TypeOK
  BY DEF IInv
<1> QED
  BY <1>1, InitIInv, NextIInv, PTL DEF Spec

(* Within its time limit ILS stops only where each of its entries, run from *)
(* the best solution, has returned that solution, however long the list;    *)
(* and it is that solution's objective that is printed.                     *)
THEOREM StopsOnlyWhereStuck == Spec => []StopsWhereNoEntryHelps
<1>1. IInv => StopsWhereNoEntryHelps
  <2> SUFFICES ASSUME IInv, pc = "done", ~timeout, NEW i \in 1 .. Len(entries)
               PROVE  currentSol \in Returned(entries[i], currentSol)
    BY DEF StopsWhereNoEntryHelps, LastSolution, IInv, InStep, Searching
  <2>1. /\ Len(entries) \in Nat /\ moveindex \in -1 .. Len(entries) - 1
        /\ iterationsWithoutImprovement \in Nat
        /\ iterationsWithoutImprovement > Len(entries)
    BY EntryTypes DEF IInv, TypeOK, StopsForAReason
  <2>2. i - 1 \in Positions /\ Ago(i - 1) < iterationsWithoutImprovement
    BY <2>1 DEF Positions, Ago
  <2>3. CannotHelp(i - 1)
    BY <2>2 DEF IInv, FailedInARow
  <2> QED
    BY <2>1, <2>3 DEF CannotHelp
<1> QED
  BY <1>1, InitIInv, NextIInv, PTL DEF Spec

NoWorse ==
  Searching => currentSol = initialSol \/ Obj(currentSol) < Obj(initialSol)

LEMMA NextNoWorse == IInv /\ NoWorse /\ [Next]_vars => NoWorse'
<1> SUFFICES ASSUME IInv, NoWorse, [Next]_vars PROVE NoWorse'
  OBVIOUS
<1> USE DEF solutions, initial, best, current
<1>1. CASE Start
  BY <1>1 DEF Start, BaseStart, GetInitialSolution, Crash, NoWorse, Searching
<1>2. CASE EntryReturns
  <2>1. /\ pc = "apply" /\ initialSol' = initialSol
        /\ currentSol \in Structure /\ initialSol \in Structure
        /\ moveindex + 1 \in 1 .. Len(entries) /\ entries[moveindex + 1] \in Modelling
    BY <1>2, EntryTypes DEF EntryReturns, IInv, TypeOK, InStep, FailedInARow, Positions, Searching
  <2>2. PICK r \in Returned(entries[moveindex + 1], currentSol) : currentSol' = r
    BY <1>2 DEF EntryReturns
  <2>3. currentSol' \in Structure /\ (currentSol' = currentSol \/ Obj(currentSol') < Obj(currentSol))
    BY <2>1, <2>2, ReturnedTypes
  <2> QED
    BY <2>1, <2>3, BaseTypes DEF NoWorse, Searching
<1>3. CASE LeaveLoop \/ BeginEntry \/ EntryCrashes \/ Finish \/ TimePasses
  BY <1>3 DEF LeaveLoop, TimeoutAtHead, BeginEntry, EntryCrashes, Crash, Finish, Goto, TimePasses,
     Tick, NoWorse, Searching
<1>4. CASE UNCHANGED vars
  BY <1>4 DEF vars, baseVars, NoWorse, Searching
<1> QED
  BY <1>1, <1>2, <1>3, <1>4 DEF Next, Step

(* To that caller, a step of ILS is a step of the contract or none. *)
LEMMA StepKeepsRepaired ==
  IInv /\ NoWorse /\ [Next]_vars => [Repaired!Next]_(Repaired!contractVars)
<1> SUFFICES ASSUME IInv, NoWorse, [Next]_vars
             PROVE  [Repaired!Next]_(Repaired!contractVars)
  OBVIOUS
<1> USE DEF Repaired!contractVars, solutions, initial, best, current
<1>1. ASSUME Crash, pc \notin {"done", "crashed"}
      PROVE  Repaired!Next
  BY <1>1 DEF Crash, Repaired!Fail, Repaired!Next
<1>2. CASE Start
  <2>1. ASSUME NEW s \in Structure, GetInitialSolution(s)
        PROVE  Repaired!Next
    BY <2>1 DEF GetInitialSolution, Repaired!Begin, Repaired!Next
  <2> QED
    BY <1>1, <1>2, <2>1 DEF Start, BaseStart
<1>3. CASE EntryCrashes
  BY <1>1, <1>3 DEF EntryCrashes
<1>4. CASE EntryReturns
  BY <1>4 DEF EntryReturns, EntryImproves, EntryFails
<1>5. CASE Finish
  <2>1. /\ pc = "stop" /\ pc' = "done" /\ initialSol' = initialSol
        /\ bestSol' = bestSol /\ bestObjVal' = bestObjVal
    BY <1>5 DEF Finish, Goto
  <2>2. LastSolution' = LastSolution /\ LastSolution = currentSol
    BY <2>1 DEF LastSolution, IInv, InStep, Searching
  <2>3. /\ currentSol \in Structure /\ bestObjVal = Obj(currentSol)
        /\ currentSol = initialSol \/ Obj(currentSol) < Obj(initialSol)
    BY <2>1 DEF IInv, InStep, NoWorse, Searching
  <2>4. Repaired!Return
    BY <2>1, <2>2, <2>3 DEF Repaired!Return, Repaired!Promised
  <2> QED
    BY <2>4 DEF Repaired!Next
<1>6. CASE LeaveLoop \/ BeginEntry \/ TimePasses
  BY <1>6 DEF LeaveLoop, TimeoutAtHead, BeginEntry, Goto, TimePasses, Tick,
     LastSolution
<1>7. CASE UNCHANGED vars
  BY <1>7 DEF vars, baseVars, LastSolution
<1> QED
  BY <1>2, <1>3, <1>4, <1>5, <1>6, <1>7 DEF Next, Step

(* The missing copy of the initial solution is all that keeps ILS from the  *)
(* contract of a search: with it, ILS over searches that keep the contract  *)
(* keeps it as well, for lists of entries of any length.                    *)
THEOREM ContractButForNull == Spec => KeepsContractButForNull
<1>1. Init => Repaired!Init
  BY DEF Init, BaseInit, Repaired!Init
<1>2. Init => NoWorse
  BY DEF Init, BaseInit, NoWorse, Searching
<1> QED
  BY <1>1, <1>2, InitIInv, NextIInv, NextNoWorse, StepKeepsRepaired, PTL
     DEF Spec, KeepsContractButForNull, Repaired!Spec

-----------------------------------------------------------------------------
(* The safety half of termination. *)

FewFailures == pc \in {"while", "apply"} => iterationsWithoutImprovement <= Len(entries)

(* How many steps are left if nothing improves any more. *)
StepsLeft ==
  CASE pc = "while"            -> 2 * (Len(entries) + 1 - iterationsWithoutImprovement) + 1
    [] pc = "apply"            -> 2 * (Len(entries) + 1 - iterationsWithoutImprovement)
    [] pc = "stop"             -> 1
    [] pc \in {"done", "crashed"} -> 0

ComesCloser ==
  /\ pc' # "start"
  /\ \/ pc = "start"
     \/ Obj(currentSol') < Obj(currentSol)
     \/ currentSol' = currentSol /\ StepsLeft' < StepsLeft /\ StepsLeft' >= 0

(* No entry runs for nothing. *)
StepsComeCloser == [][Step => ComesCloser]_vars

LEMMA FailureTypes ==
  ASSUME IInv
  PROVE  Len(entries) \in Nat /\ Len(entries) >= 1 /\ iterationsWithoutImprovement \in Nat
  BY EntryTypes DEF IInv, TypeOK

LEMMA NextFewFailures == IInv /\ FewFailures /\ [Next]_vars => FewFailures'
<1> SUFFICES ASSUME IInv, FewFailures, [Next]_vars PROVE FewFailures'
  OBVIOUS
<1>1. Len(entries) \in Nat /\ Len(entries) >= 1 /\ iterationsWithoutImprovement \in Nat
  BY FailureTypes
<1>2. CASE Start
  BY <1>1, <1>2 DEF Start, BaseStart, GetInitialSolution, Crash, IInv, FailedInARow, FewFailures,
     ilsVars
<1>3. CASE EntryReturns
  BY <1>1, <1>3 DEF EntryReturns, EntryImproves, EntryFails, Enough, FewFailures
<1>4. CASE LeaveLoop \/ BeginEntry \/ EntryCrashes \/ Finish \/ TimePasses
  BY <1>4 DEF LeaveLoop, TimeoutAtHead, BeginEntry, EntryCrashes, Crash, Finish, Goto, TimePasses,
     Tick, FewFailures, ilsVars
<1>5. CASE UNCHANGED vars
  BY <1>5 DEF vars, baseVars, ilsVars, FewFailures
<1> QED
  BY <1>2, <1>3, <1>4, <1>5 DEF Next, Step

LEMMA StepComesCloser ==
  ASSUME IInv, FewFailures, FewFailures', Step
  PROVE  ComesCloser
<1> USE DEF initial, best, current, solutions
<1>1. Len(entries) \in Nat /\ Len(entries) >= 1 /\ iterationsWithoutImprovement \in Nat
  BY FailureTypes
<1>2. CASE Start
  BY <1>2 DEF Start, BaseStart, GetInitialSolution, Crash, ComesCloser
<1>3. CASE LeaveLoop \/ Finish \/ EntryCrashes
  <2>1. /\ \/ pc \in {"while", "apply"} /\ pc' \in {"stop", "crashed"}
           \/ pc = "stop" /\ pc' = "done"
        /\ currentSol' = currentSol
    BY <1>3 DEF LeaveLoop, TimeoutAtHead, Finish, EntryCrashes, Crash, Goto
  <2>2. CASE pc = "stop"
    <3>1. StepsLeft = 1 /\ StepsLeft' = 0
      BY <2>1, <2>2 DEF StepsLeft
    <3> QED
      BY <2>1, <3>1 DEF ComesCloser
  <2>3. CASE pc \in {"while", "apply"}
    <3>1. StepsLeft >= 2 /\ StepsLeft \in Int
      BY <1>1, <2>3 DEF StepsLeft, FewFailures
    <3>2. StepsLeft' \in {0, 1}
      BY <2>1, <2>3 DEF StepsLeft
    <3> QED
      BY <2>1, <2>3, <3>1, <3>2 DEF ComesCloser
  <2> QED
    BY <2>1, <2>2, <2>3
<1>4. CASE BeginEntry
  <2>1. pc = "while" /\ pc' = "apply"
        /\ UNCHANGED <<currentSol, entries, iterationsWithoutImprovement>>
    BY <1>4 DEF BeginEntry, Goto
  <2>2. StepsLeft' = StepsLeft - 1 /\ StepsLeft \in Int /\ StepsLeft >= 3
    BY <1>1, <2>1 DEF StepsLeft, FewFailures
  <2> QED
    BY <2>1, <2>2 DEF ComesCloser
<1>5. CASE EntryReturns
  <2>1. /\ pc = "apply" /\ entries' = entries /\ currentSol \in Structure
        /\ moveindex + 1 \in 1 .. Len(entries) /\ entries[moveindex + 1] \in Modelling
    BY <1>5, EntryTypes DEF EntryReturns, IInv, TypeOK, InStep, FailedInARow, Positions, Searching
  <2>2. PICK r \in Returned(entries[moveindex + 1], currentSol) :
          currentSol' = r /\ currentObj' = Obj(r)
    BY <1>5 DEF EntryReturns
  <2>3. r \in Structure /\ (r = currentSol \/ Obj(r) < Obj(currentSol))
    BY <2>1, <2>2, ReturnedTypes
  <2>4. pc' \in {"while", "stop"}
    BY <1>5 DEF EntryReturns, EntryImproves, EntryFails
  <2>5. CASE Obj(r) < Obj(currentSol)
    BY <2>2, <2>4, <2>5 DEF ComesCloser
  <2>6. CASE ~(Obj(r) < Obj(currentSol))
    <3>1. currentSol' = currentSol
      BY <2>2, <2>3, <2>6
    <3>2. EntryFails
      BY <1>5, <2>1, <2>2, <2>3, <2>6, BaseTypes DEF EntryReturns
    <3>3. iterationsWithoutImprovement' = iterationsWithoutImprovement + 1
      BY <1>1, <2>1, <3>2 DEF EntryFails, FewFailures
    <3>4. CASE pc' = "stop"
      <4>1. StepsLeft' = 1
        BY <3>4 DEF StepsLeft
      <4>2. StepsLeft >= 2 /\ StepsLeft \in Int
        BY <1>1, <2>1 DEF StepsLeft, FewFailures
      <4> QED
        BY <3>1, <3>4, <4>1, <4>2 DEF ComesCloser
    <3>5. CASE pc' = "while"
      <4>1. StepsLeft' = StepsLeft - 1 /\ StepsLeft \in Int /\ StepsLeft >= 2
        BY <1>1, <2>1, <3>3, <3>5 DEF StepsLeft, FewFailures
      <4> QED
        BY <3>1, <3>5, <4>1 DEF ComesCloser
    <3> QED
      BY <2>4, <3>4, <3>5
  <2> QED
    BY <2>5, <2>6
<1> QED
  BY <1>2, <1>3, <1>4, <1>5 DEF Step

(* Whatever the clock does, a step of ILS goes to a better solution, or      *)
(* stays at the same and leaves fewer steps to go: at most two for each      *)
(* failure that is still tolerated, however the failures were spread.        *)
THEOREM EveryStepComesCloser == Spec => StepsComeCloser
<1>1. IInv /\ FewFailures /\ [Next]_vars => IInv' /\ FewFailures'
  BY NextIInv, NextFewFailures
<1>2. IInv /\ FewFailures /\ FewFailures' /\ [Next]_vars => [Step => ComesCloser]_vars
  BY StepComesCloser
<1>3. Init => FewFailures
  BY DEF Init, BaseInit, FewFailures
<1> QED
  BY <1>1, <1>2, <1>3, InitIInv, PTL DEF Spec, StepsComeCloser

-----------------------------------------------------------------------------
(* The option: entry i of each list comes from entry i of the option, and   *)
(* the loops have gone through all of them before anything is run.          *)

Named == 1 .. Len(listMoveName)

(* The loop over the entries. *)
EntriesRead ==
  /\ Len(listLSType) = Len(listMoveName) /\ Len(listMoveName) <= Len(option)
  /\ \A i \in Named : /\ listLSType[i] = getLSTypeFromString(option[i].type)
                      /\ listMoveName[i] = option[i].move
  /\ stage \in {"modellings", "process", "search", "done"} => Len(listMoveName) = Len(option)

(* The loop over the names of moves. *)
ModellingsRead ==
  /\ stage \in {"construct", "entries"} => listmovemodelling = <<>>
  /\ Len(listmovemodelling) <= Len(listMoveName)
  /\ \A i \in 1 .. Len(listmovemodelling) :
       listmovemodelling[i] = [class |-> ClassOf(option[i].move), move |-> option[i].move]
  /\ stage \in {"process", "search", "done"} => Len(listmovemodelling) = Len(option)

SearchChosen ==
  stage # "construct" =>
    lstype = IF Len(option) > 1 THEN "ILS" ELSE getLSTypeFromString(option[1].type)

(* The entries that ILS runs, or the one that is run by itself. *)
Run(i) == <<IF lstype = "ILS" THEN EntryType(i) ELSE lstype, option[i].move>>

SearchesRun ==
  /\ ran # <<>> => stage \in {"search", "done", "crashed"} /\ Len(listMoveName) = Len(option)
  /\ ran # <<>> /\ stage = "search" => lstype = "ILS"
  /\ Len(ran) <= Len(option)
  /\ \A i \in 1 .. Len(ran) : ran[i] = Run(i)

OptionsInv ==
  /\ OptionsTypeOK
  /\ EntriesRead
  /\ ModellingsRead
  /\ SearchChosen
  /\ SearchesRun
  /\ WellFormedOptionsRun

LEMMA Appended ==
  ASSUME NEW S, NEW list \in Seq(S), NEW x \in S
  PROVE  /\ Append(list, x) \in Seq(S)
         /\ Len(list) \in Nat /\ Len(Append(list, x)) = Len(list) + 1
         /\ \A i \in 1 .. Len(list) : Append(list, x)[i] = list[i]
         /\ Append(list, x)[Len(list) + 1] = x
  OBVIOUS

LEMMA OptionTypes ==
  ASSUME OptionsTypeOK
  PROVE  /\ option \in Seq(Entries) /\ DOMAIN option = 1 .. Len(option)
         /\ Len(option) \in Nat /\ Len(option) >= 1 /\ Len(option) <= MaxEntries
         /\ \A i \in 1 .. Len(option) : /\ option[i] \in Entries
                                        /\ option[i].type \in Types
                                        /\ option[i].move \in Moves \cup {NoMove}
         /\ listLSType \in Seq(LSTypes) /\ Len(listLSType) \in Nat
         /\ listMoveName \in Seq(Moves) /\ Len(listMoveName) \in Nat
         /\ listmovemodelling \in Seq(Modellings) /\ Len(listmovemodelling) \in Nat
         /\ ran \in Seq(LSTypes \X Moves) /\ Len(ran) \in Nat
<1>1. option \in Seq(Entries) /\ option # <<>> /\ Len(option) <= MaxEntries
  BY DEF OptionsTypeOK, IsList
<1>2. Len(option) \in Nat /\ Len(option) >= 1 /\ \A i \in 1 .. Len(option) : option[i] \in Entries
  BY <1>1
<1> QED
  BY <1>1, <1>2 DEF OptionsTypeOK, IsList, Entries

LEMMA SearchTypes ==
  /\ \A s : getLSTypeFromString(s) \in LSTypes
  /\ \A i : EntryType(i) \in LSTypes
  /\ \A i : EntryType(i)' \in LSTypes
  BY DEF getLSTypeFromString, EntryType, LSTypes

LEMMA OptionsInitInv == OptionsInit => OptionsInv
<1> SUFFICES ASSUME OptionsInit PROVE OptionsInv
  OBVIOUS
<1>1. PICK n \in 0 .. MaxEntries : option \in [1 .. n -> Entries]
  BY OptionAssumption DEF OptionsInit, BoundedSeq, SeqOf
<1>2. option \in Seq(Entries) /\ Len(option) = n /\ MaxEntries \in Nat
  BY <1>1, OptionAssumption
<1>3. OptionsTypeOK
  BY <1>2 DEF OptionsInit, OptionsTypeOK, IsList, LSTypes
<1> QED
  BY <1>2, <1>3 DEF OptionsInit, OptionsInv, EntriesRead, Named, ModellingsRead, SearchChosen,
     SearchesRun, WellFormedOptionsRun

(* Steps that go on, or fail, and leave the lists alone. *)
LEMMA OnlyStageInv ==
  ASSUME OptionsInv, UNCHANGED <<option, lstype, lists, ran>>, stage # "construct",
         stage' \in {"modellings", "process", "search", "done", "failed", "crashed"},
         stage' \in {"modellings", "process", "search", "done"} => Len(listMoveName) = Len(option),
         stage' \in {"process", "search", "done"} => Len(listmovemodelling) = Len(option),
         ran # <<>> => stage' \in {"search", "done", "crashed"},
         ran # <<>> /\ stage' = "search" => lstype = "ILS",
         WellFormed => stage' \notin {"failed", "crashed"}
  PROVE  OptionsInv'
<1> USE DEF OptionsInv, lists
<1>1. OptionsTypeOK'
  BY DEF OptionsTypeOK, IsList
<1>2. EntriesRead' /\ ModellingsRead'
  BY DEF EntriesRead, Named, ModellingsRead
<1>3. SearchChosen' /\ SearchesRun'
  BY DEF SearchChosen, SearchesRun, Run, EntryType
<1>4. WellFormedOptionsRun'
  BY DEF WellFormedOptionsRun, WellFormed
<1> QED
  BY <1>1, <1>2, <1>3, <1>4

LEMMA ReadEntryInv ==
  ASSUME OptionsInv, ReadEntry
  PROVE  OptionsInv'
<1> DEFINE k == Len(listLSType) + 1
<1>1. /\ stage = "entries" /\ k \in 1 .. Len(option) /\ k = Len(listMoveName) + 1
      /\ UNCHANGED <<option, lstype, listmovemodelling, ran>>
  BY OptionTypes DEF ReadEntry, OptionsInv, EntriesRead
<1>2. option[k].move \in Moves \cup {NoMove} /\ ran = <<>> /\ listmovemodelling = <<>>
  BY <1>1, OptionTypes DEF OptionsInv, SearchesRun, ModellingsRead
<1>3. CASE option[k].move = NoMove
  <2>1. stage' = "crashed" /\ UNCHANGED lists
    BY <1>1, <1>3 DEF ReadEntry, lists
  <2>2. ~WellFormed
    BY <1>1, <1>3, OptionTypes DEF WellFormed, OptionsInv
  <2> QED
    BY <1>1, <1>2, <2>1, <2>2, OnlyStageInv
<1>4. CASE option[k].move # NoMove
  <2> DEFINE type == getLSTypeFromString(option[k].type)
             move == option[k].move
  <2>1. /\ listLSType' = Append(listLSType, type) /\ listMoveName' = Append(listMoveName, move)
        /\ stage' = stage
    BY <1>1, <1>4 DEF ReadEntry
  <2>2. type \in LSTypes /\ move \in Moves
    BY <1>2, <1>4, SearchTypes
  <2> HIDE DEF type, move, k
  <2>3. /\ listLSType' \in Seq(LSTypes) /\ Len(listLSType') = k /\ listLSType'[k] = type
        /\ \A i \in 1 .. k - 1 : listLSType'[i] = listLSType[i]
    BY <2>1, <2>2, OptionTypes, Appended DEF OptionsInv, k
  <2>4. /\ listMoveName' \in Seq(Moves) /\ Len(listMoveName') = k /\ listMoveName'[k] = move
        /\ \A i \in 1 .. k - 1 : listMoveName'[i] = listMoveName[i]
    BY <1>1, <2>1, <2>2, OptionTypes, Appended DEF OptionsInv
  <2>5. k \in Nat /\ k <= Len(option) /\ Len(option) \in Nat /\ Len(option) <= MaxEntries
        /\ MaxEntries \in Nat
    BY <1>1, OptionTypes, OptionAssumption DEF OptionsInv
  <2>6. OptionsTypeOK'
    BY <1>1, <2>1, <2>3, <2>4, <2>5 DEF OptionsInv, OptionsTypeOK, IsList
  <2>7. EntriesRead'
    <3>1. ASSUME NEW i \in 1 .. k
          PROVE  /\ listLSType'[i] = getLSTypeFromString(option[i].type)
                 /\ listMoveName'[i] = option[i].move
      <4>1. CASE i = k
        BY <2>3, <2>4, <4>1 DEF type, move
      <4>2. CASE i # k
        <5>1. i \in 1 .. k - 1 /\ i \in Named
          BY <1>1, <2>5, <4>2 DEF Named
        <5> QED
          BY <2>3, <2>4, <5>1 DEF OptionsInv, EntriesRead
      <4> QED
        BY <4>1, <4>2
    <3> QED
      BY <1>1, <2>1, <2>3, <2>4, <2>5, <3>1 DEF EntriesRead, Named, getLSTypeFromString
  <2>8. ModellingsRead' /\ SearchChosen' /\ SearchesRun' /\ WellFormedOptionsRun'
    BY <1>1, <1>2, <2>1, <2>4, <2>5
    DEF OptionsInv, ModellingsRead, SearchChosen, SearchesRun, WellFormedOptionsRun, WellFormed
  <2> QED
    BY <2>6, <2>7, <2>8 DEF OptionsInv
<1> QED
  BY <1>3, <1>4

LEMMA ReadMoveModellingInv ==
  ASSUME OptionsInv, ReadMoveModelling
  PROVE  OptionsInv'
<1> DEFINE k == Len(listmovemodelling) + 1
           move == listMoveName[k]
           read == [class |-> ClassOf(move), move |-> move]
<1>1. /\ stage = "modellings" /\ k \in Named /\ Named = 1 .. Len(option)
      /\ UNCHANGED <<option, lstype, listLSType, listMoveName, ran>>
  BY OptionTypes DEF ReadMoveModelling, OptionsInv, EntriesRead, Named
<1>2. move = option[k].move /\ move \in Moves /\ ran = <<>>
  BY <1>1, OptionTypes DEF OptionsInv, EntriesRead, SearchesRun, Named
<1>3. CASE ~(Needed(move) \subseteq Blocks(move))
  <2>1. stage' = "failed" /\ UNCHANGED lists
    BY <1>1, <1>3 DEF ReadMoveModelling, lists
  <2>2. k \in DOMAIN option /\ ~Complete(option[k].move)
    BY <1>1, <1>2, <1>3, OptionTypes DEF Complete, OptionsInv
  <2> HIDE DEF k, move
  <2>3. ~WellFormed
    BY <2>2 DEF WellFormed
  <2> QED
    BY <1>1, <1>2, <2>1, <2>3, OnlyStageInv
<1>4. CASE Needed(move) \subseteq Blocks(move)
  <2>1. listmovemodelling' = Append(listmovemodelling, read) /\ stage' = stage
    BY <1>1, <1>4 DEF ReadMoveModelling, Added
  <2>2. read \in Modellings
    BY <1>2 DEF Modellings, ClassOf
  <2>3. read = [class |-> ClassOf(option[k].move), move |-> option[k].move]
    BY <1>2
  <2> HIDE DEF read, move, k
  <2>4. /\ listmovemodelling' \in Seq(Modellings) /\ Len(listmovemodelling') = k
        /\ listmovemodelling'[k] = read
        /\ \A i \in 1 .. k - 1 : listmovemodelling'[i] = listmovemodelling[i]
    BY <2>1, <2>2, OptionTypes, Appended DEF OptionsInv, k
  <2>5. /\ k \in Nat /\ k <= Len(listMoveName) /\ Len(listMoveName) <= Len(option)
        /\ Len(option) \in Nat /\ Len(option) <= MaxEntries /\ MaxEntries \in Nat
    BY <1>1, OptionTypes, OptionAssumption DEF OptionsInv, Named, EntriesRead
  <2>6. OptionsTypeOK'
    BY <1>1, <2>1, <2>4, <2>5 DEF OptionsInv, OptionsTypeOK, IsList
  <2>7. ModellingsRead'
    <3>1. ASSUME NEW i \in 1 .. k
          PROVE  listmovemodelling'[i] = [class |-> ClassOf(option[i].move), move |-> option[i].move]
      <4>1. CASE i = k
        BY <2>3, <2>4, <4>1
      <4>2. CASE i # k
        <5>1. i \in 1 .. k - 1 /\ i \in 1 .. Len(listmovemodelling)
          BY <2>5, <4>2, OptionTypes DEF k, OptionsInv
        <5> QED
          BY <2>4, <5>1 DEF OptionsInv, ModellingsRead
      <4> QED
        BY <4>1, <4>2
    <3> QED
      BY <1>1, <2>1, <2>4, <2>5, <3>1 DEF ModellingsRead, ClassOf
  <2>8. EntriesRead' /\ SearchChosen' /\ SearchesRun' /\ WellFormedOptionsRun'
    BY <1>1, <1>2, <2>1
    DEF OptionsInv, EntriesRead, Named, SearchChosen, SearchesRun, WellFormedOptionsRun, WellFormed
  <2> QED
    BY <2>6, <2>7, <2>8 DEF OptionsInv
<1> QED
  BY <1>3, <1>4

LEMMA OneOrMore ==
  ASSUME OptionsInv, Len(option) # 1
  PROVE  Len(option) > 1
<1> DEFINE n == Len(option)
<1>1. n \in Nat /\ n >= 1 /\ n # 1
  BY OptionTypes DEF OptionsInv
<1> HIDE DEF n
<1>2. n > 1
  BY <1>1
<1> QED
  BY <1>2 DEF n

LEMMA EndsAlike ==
  ASSUME OptionsInv, stage \in {"process", "search", "done"}
  PROVE  /\ Len(listMoveName) = Len(option) /\ Len(listmovemodelling) = Len(option)
         /\ Len(option) \in Nat /\ Len(option) >= 1 /\ Len(option) <= MaxEntries
<1>1. OptionsTypeOK /\ EntriesRead /\ ModellingsRead
  BY DEF OptionsInv
<1> QED
  BY <1>1, OptionTypes DEF EntriesRead, ModellingsRead

(* Of a well-formed option every modelling has the class it is cast to. *)
LEMMA ClassesFit ==
  ASSUME OptionsInv, WellFormed, stage \in {"process", "search"}, NEW i \in 1 .. Len(option)
  PROVE  listmovemodelling[i].class =
           IF lstype = "LNS" THEN "LNSMoveModelling" ELSE "MoveModelling"
<1>1. /\ option[i].type \in LSTypes \ {"ILS"}
      /\ Complete(option[i].move)
      /\ option[i].move \in LNSMoves <=> option[i].type = "LNS"
      /\ option[i].type = "LNS" => Len(option) = 1
  BY OptionTypes DEF WellFormed, OptionsInv
<1>2. listmovemodelling[i].class = ClassOf(option[i].move)
  <2>1. i \in 1 .. Len(listmovemodelling)
    BY EndsAlike
  <2>2. listmovemodelling[i] = [class |-> ClassOf(option[i].move), move |-> option[i].move]
    BY <2>1 DEF OptionsInv, ModellingsRead
  <2> QED
    BY <2>2
<1>3. ClassOf(option[i].move) =
        IF option[i].type = "LNS" THEN "LNSMoveModelling" ELSE "MoveModelling"
  BY <1>1 DEF ClassOf, Complete
<1>4. lstype = "LNS" <=> option[i].type = "LNS"
  <2>1. CASE Len(option) # 1
    <3>1. lstype = "ILS" /\ option[i].type # "LNS"
      BY <1>1, <2>1, OneOrMore DEF OptionsInv, SearchChosen
    <3> QED
      BY <3>1
  <2>2. CASE Len(option) = 1
    <3>1. i = 1
      BY <2>2
    <3> QED
      BY <2>2, <3>1 DEF OptionsInv, SearchChosen, getLSTypeFromString
  <2> QED
    BY <2>1, <2>2
<1> QED
  BY <1>2, <1>3, <1>4

LEMMA SearchInv ==
  ASSUME OptionsInv, doSearch \/ doSingleNeighbourhoodSearch
  PROVE  OptionsInv'
<1>1. /\ stage = "search" /\ UNCHANGED <<option, lstype, lists>>
      /\ Len(listMoveName) = Len(option) /\ Len(listmovemodelling) = Len(option)
      /\ Len(option) \in Nat /\ Len(option) >= 1 /\ Len(option) <= MaxEntries
      /\ MaxEntries \in Nat
  BY EndsAlike, OptionAssumption DEF doSearch, doSingleNeighbourhoodSearch
<1>2. \A i \in 1 .. Len(option) : /\ listmovemodelling[i].move = option[i].move
                                  /\ option[i].move \in Moves
  <2> SUFFICES ASSUME NEW i \in 1 .. Len(option)
               PROVE  listmovemodelling[i].move = option[i].move /\ option[i].move \in Moves
    OBVIOUS
  <2>1. listmovemodelling[i] = [class |-> ClassOf(option[i].move), move |-> option[i].move]
    BY <1>1 DEF OptionsInv, ModellingsRead
  <2>2. listMoveName[i] = option[i].move
    BY <1>1 DEF OptionsInv, EntriesRead, Named
  <2>3. listMoveName[i] \in Moves
    BY <1>1, OptionTypes DEF OptionsInv
  <2> QED
    BY <2>1, <2>2, <2>3
<1>3. lstype \in LSTypes
  BY DEF OptionsInv, OptionsTypeOK
<1>4. EntriesRead' /\ ModellingsRead'
  <2>1. stage' \in {"search", "done", "crashed"}
    BY <1>1 DEF doSearch, doSingleNeighbourhoodSearch
  <2> QED
    BY <1>1, <2>1 DEF OptionsInv, EntriesRead, Named, ModellingsRead, lists
<1>5. ASSUME NEW k \in 1 .. Len(option), Len(ran') = k, ran' \in Seq(LSTypes \X Moves),
             \A i \in 1 .. k : ran'[i] = Run(i),
             stage' = "done" \/ (stage' = "search" /\ lstype = "ILS")
      PROVE  OptionsInv'
  <2>1. OptionsTypeOK'
    BY <1>1, <1>5 DEF OptionsInv, OptionsTypeOK, IsList, lists
  <2>2. SearchChosen' /\ WellFormedOptionsRun'
    BY <1>1, <1>5 DEF OptionsInv, SearchChosen, WellFormedOptionsRun, WellFormed
  <2>3. SearchesRun'
    <3>1. \A i : Run(i)' = Run(i)
      BY <1>1 DEF Run, EntryType, lists
    <3>2. Len(listMoveName)' = Len(option)' /\ Len(ran)' <= Len(option)'
      BY <1>1, <1>5 DEF lists
    <3> QED
      BY <1>1, <1>5, <3>1, <3>2 DEF SearchesRun
  <2> QED
    BY <1>4, <2>1, <2>2, <2>3 DEF OptionsInv
<1>6. CASE doSearch
  <2>1. ran' = <<<<lstype, option[1].move>>>> /\ lstype # "ILS" /\ stage' = "done"
    BY <1>1, <1>2, <1>6 DEF doSearch
  <2>2. Len(ran') = 1 /\ ran' \in Seq(LSTypes \X Moves) /\ ran'[1] = Run(1)
    BY <1>1, <1>2, <1>3, <2>1 DEF Run
  <2>3. \A i \in 1 .. 1 : ran'[i] = Run(i)
    BY <2>2
  <2>4. 1 \in 1 .. Len(option)
    BY <1>1
  <2> QED
    BY <1>5, <2>1, <2>2, <2>3, <2>4
<1>7. CASE doSingleNeighbourhoodSearch
  <2> DEFINE k == Len(ran) + 1
  <2>1. lstype = "ILS" /\ k \in 1 .. Len(option) /\ Len(ran) \in Nat
    BY <1>1, <1>7, OptionTypes DEF doSingleNeighbourhoodSearch, OptionsInv
  <2>2. CASE listmovemodelling[k].class = "MoveModelling"
    <3>1. ran' = Append(ran, Run(k)) /\ stage' = "search"
      BY <1>1, <1>2, <1>7, <2>1, <2>2 DEF doSingleNeighbourhoodSearch, Run
    <3>2. Run(k) \in LSTypes \X Moves
      BY <1>2, <1>3, <2>1, SearchTypes DEF Run
    <3>3. ran \in Seq(LSTypes \X Moves)
      BY OptionTypes DEF OptionsInv
    <3>4. \A i \in 1 .. Len(ran) : ran[i] = Run(i)
      BY DEF OptionsInv, SearchesRun
    <3>5. /\ ran' \in Seq(LSTypes \X Moves) /\ Len(ran') = k /\ ran'[k] = Run(k)
          /\ \A i \in 1 .. Len(ran) : ran'[i] = ran[i]
      BY <3>1, <3>2, <3>3, Appended
    <3>6. \A i \in 1 .. k : ran'[i] = Run(i)
      <4>1. \A i \in 1 .. k : i = k \/ i \in 1 .. Len(ran)
        BY <2>1
      <4> QED
        BY <3>4, <3>5, <4>1
    <3> HIDE DEF k
    <3> QED
      BY <1>5, <2>1, <3>1, <3>5, <3>6
  <2>3. CASE listmovemodelling[k].class # "MoveModelling"
    <3>1. stage' = "crashed" /\ UNCHANGED ran
      BY <1>7, <2>3 DEF doSingleNeighbourhoodSearch
    <3>2. ~WellFormed
      BY <1>1, <2>1, <2>3, ClassesFit
    <3> QED
      BY <1>1, <3>1, <3>2, OnlyStageInv DEF lists
  <2> QED
    BY <2>2, <2>3
<1> QED
  BY <1>6, <1>7

LEMMA OptionsNextInv == OptionsInv /\ [OptionsNext]_optionVars => OptionsInv'
<1> SUFFICES ASSUME OptionsInv, [OptionsNext]_optionVars PROVE OptionsInv'
  OBVIOUS
<1>1. CASE Construct
  <2>1. /\ stage = "construct" /\ stage' = "entries" /\ UNCHANGED <<option, lists, ran>>
        /\ lstype' = IF Len(option) > 1 THEN "ILS" ELSE getLSTypeFromString(option[1].type)
    BY <1>1 DEF Construct
  <2>2. lstype' \in LSTypes
    BY <2>1, SearchTypes DEF LSTypes
  <2>3. OptionsTypeOK'
    BY <2>1, <2>2 DEF OptionsInv, OptionsTypeOK, IsList, lists
  <2>4. EntriesRead' /\ ModellingsRead'
    BY <2>1 DEF OptionsInv, EntriesRead, Named, ModellingsRead, lists
  <2>5. SearchChosen' /\ WellFormedOptionsRun'
    BY <2>1 DEF SearchChosen, WellFormedOptionsRun
  <2>6. SearchesRun'
    BY <2>1, OptionTypes DEF OptionsInv, SearchesRun
  <2> QED
    BY <2>3, <2>4, <2>5, <2>6 DEF OptionsInv
<1>2. CASE ReadEntry
  BY <1>2, ReadEntryInv
<1>3. CASE EndEntries \/ EndModellings
  <2>1. /\ <<stage, stage'>> \in {<<"entries", "modellings">>, <<"modellings", "process">>}
        /\ UNCHANGED <<option, lstype, lists, ran>> /\ Len(listMoveName) = Len(option)
        /\ stage' = "process" => Len(listmovemodelling) = Len(option)
    <3>1. CASE EndEntries
      <4>1. stage' = "modellings" /\ stage' # "process"
        BY <3>1 DEF EndEntries
      <4> QED
        BY <3>1, <4>1 DEF EndEntries, OptionsInv, EntriesRead
    <3>2. CASE EndModellings
      BY <3>2 DEF EndModellings, OptionsInv, EntriesRead
    <3> QED
      BY <1>3, <3>1, <3>2
  <2>2. ran = <<>>
    BY <2>1 DEF OptionsInv, SearchesRun
  <2> QED
    BY <2>1, <2>2, OnlyStageInv
<1>4. CASE ReadMoveModelling
  BY <1>4, ReadMoveModellingInv
<1>5. CASE processInputData
  <2>1. /\ stage = "process" /\ stage' \in {"search", "crashed"}
        /\ UNCHANGED <<option, lstype, lists, ran>>
        /\ Len(listMoveName) = Len(option) /\ Len(listmovemodelling) = Len(option)
    BY <1>5 DEF processInputData, OptionsInv, EntriesRead, ModellingsRead
  <2>2. ran = <<>>
    BY <2>1 DEF OptionsInv, SearchesRun
  <2>3. WellFormed => stage' # "crashed"
    <3>1. DOMAIN listmovemodelling = 1 .. Len(option) /\ 1 \in 1 .. Len(option)
      BY <2>1, OptionTypes DEF OptionsInv
    <3> QED
      BY <1>5, <2>1, <3>1, ClassesFit DEF processInputData
  <2> QED
    BY <2>1, <2>2, <2>3, OnlyStageInv
<1>6. CASE doSearch \/ doSingleNeighbourhoodSearch
  BY <1>6, SearchInv
<1>7. CASE EndILS
  <2>1. /\ stage = "search" /\ stage' = "done" /\ UNCHANGED <<option, lstype, lists, ran>>
        /\ Len(listMoveName) = Len(option) /\ Len(listmovemodelling) = Len(option)
    BY <1>7 DEF EndILS, OptionsInv, EntriesRead, ModellingsRead
  <2> QED
    BY <2>1, OnlyStageInv
<1>8. CASE UNCHANGED optionVars
  BY <1>8 DEF optionVars, lists, OptionsInv, OptionsTypeOK, IsList, EntriesRead, Named,
     ModellingsRead, SearchChosen, SearchesRun, Run, EntryType, WellFormedOptionsRun, WellFormed
<1> QED
  BY <1>1, <1>2, <1>3, <1>4, <1>5, <1>6, <1>7, <1>8 DEF OptionsNext

(* doLocalSearch only ever holds lists of known types of search, of names   *)
(* and of modellings, no longer than the option.                            *)
THEOREM OptionsTypeCorrect == OptionsSpec => []OptionsTypeOK
<1>1. OptionsInv => OptionsTypeOK
  BY DEF OptionsInv
<1> QED
  BY <1>1, OptionsInitInv, OptionsNextInv, PTL DEF OptionsSpec

(* However many entries a well-formed option has and whatever moves the     *)
(* problem file offers, no block is missing and no modelling is cast to a   *)
(* class it is not of.                                                      *)
THEOREM WellFormedOptionsAlwaysRun == OptionsSpec => []WellFormedOptionsRun
<1>1. OptionsInv => WellFormedOptionsRun
  BY DEF OptionsInv
<1> QED
  BY <1>1, OptionsInitInv, OptionsNextInv, PTL DEF OptionsSpec

(* Of a well-formed option, search i that runs is of the type of entry i    *)
(* and has its move.                                                        *)
THEOREM AlwaysRunsWhatEntriesSay == OptionsSpec => []RunsWhatEntriesSay
<1>1. OptionsInv => RunsWhatEntriesSay
  <2> SUFFICES ASSUME OptionsInv, WellFormed, NEW i \in DOMAIN ran
               PROVE  ran[i] = <<option[i].type, option[i].move>>
    BY DEF RunsWhatEntriesSay
  <2>1. /\ i \in 1 .. Len(ran) /\ i \in 1 .. Len(option) /\ i \in Named /\ ran # <<>>
        /\ ran[i] = Run(i) /\ stage # "construct"
    <3>1. i \in 1 .. Len(ran) /\ ran # <<>>
      BY OptionTypes DEF OptionsInv
    <3> QED
      BY <3>1, OptionTypes DEF OptionsInv, SearchesRun, Named
  <2>2. /\ option[i].type \in LSTypes \ {"ILS"}
        /\ option[i].type = "LNS" => Len(option) = 1
    BY <2>1, OptionTypes DEF OptionsInv, WellFormed
  <2>3. getLSTypeFromString(option[i].type) = option[i].type
    BY <2>2 DEF getLSTypeFromString, LSTypes
  <2>4. listLSType[i] = option[i].type
    BY <2>1, <2>3 DEF OptionsInv, EntriesRead
  <2>5. CASE Len(option) # 1
    <3>1. lstype = "ILS"
      BY <2>1, <2>5, OneOrMore DEF OptionsInv, SearchChosen
    <3>2. EntryType(i) = option[i].type
      <4>1. option[i].type \in {"firstimprove", "bestimprove", "tabu"}
        BY <2>2, <2>5 DEF LSTypes
      <4> QED
        BY <2>4, <4>1 DEF EntryType
    <3> QED
      BY <2>1, <3>1, <3>2 DEF Run
  <2>6. CASE Len(option) = 1
    <3>1. i = 1 /\ lstype = option[i].type /\ lstype # "ILS"
      BY <2>1, <2>2, <2>3, <2>6 DEF OptionsInv, SearchChosen
    <3> QED
      BY <2>1, <3>1 DEF Run
  <2> QED
    BY <2>5, <2>6
<1> QED
  BY <1>1, OptionsInitInv, OptionsNextInv, PTL DEF OptionsSpec
=============================================================================
