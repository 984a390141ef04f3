-------------------------------- MODULE ILS --------------------------------
(***************************************************************************)
(* ILS::doSearch: the entries of the option localsearchtype, each a search *)
(* with a move modelling, are run in turn, each from where the one before  *)
(* ended, until none improves.  A search an entry runs is seen through its *)
(* result, which SearchContract promises of it; when its own clock, which  *)
(* its constructor starts anew, cuts it short is part of what it returns.  *)
(***************************************************************************)
EXTENDS LocalSearch, Sequences, SequencesExt

CONSTANTS
  EntryLists,       \* the lists of entries of localsearchtype to run with
  Returned(_, _)    \* the _bestSol an entry's search may return from a solution

(* An entry is a search type and a move modelling, here one thing. *)
ASSUME EntryAssumption ==
  /\ EntryLists \subseteq Seq(Modelling) \ {<<>>}
  /\ \A m \in Modelling, s \in Structure :
       /\ Returned(m, s) \subseteq Structure
       /\ \A r \in Returned(m, s) : r = s \/ Obj(r) < Obj(s)

VARIABLES
  entries,       \* _listLSType with _listmovemodelling
  moveindex,     \* counts from 0
  iterationsWithoutImprovement

ilsVars == <<entries, moveindex, iterationsWithoutImprovement>>
vars == <<baseVars, ilsVars>>

TypeOK ==
  /\ pc \in Labels
  /\ clock \in 0 .. ClockBound
  /\ {initialSol, bestSol, currentSol} \subseteq Structure \cup {NULL}
  /\ entries \in EntryLists
  /\ moveindex \in -1 .. Len(entries) - 1
  /\ iterationsWithoutImprovement \in 0 .. Len(entries) + 1

Init ==
  /\ BaseInit
  /\ entries \in EntryLists
  /\ modelling = entries[1]
  /\ moveindex = -1 /\ iterationsWithoutImprovement = 0

Start == BaseStart /\ UNCHANGED ilsVars

LeaveLoop == TimeoutAtHead /\ UNCHANGED ilsVars

(* Mutant: it does not turn round in time. *)
getNextMove_oneTooFar(i) == IF i = Len(entries) THEN 0 ELSE i + 1

getNextMove(i) == IF i + 1 = Len(entries) THEN 0 ELSE i + 1

(* Call the search of the next entry. *)
BeginEntry ==
  /\ ~timeout
  /\ Goto("while", "apply")
  /\ moveindex' = getNextMove(moveindex)
  /\ UNCHANGED <<entries, iterationsWithoutImprovement>>

(* Mutants: one failure too few is enough to stop; nothing is. *)
Enough_tooEarly(failures) == failures >= Len(entries) - 1
Enough_never(failures) == FALSE

(* One more failure in a row than there are entries. *)
Enough(failures) == failures > Len(entries)

EntryImproves ==
  /\ iterationsWithoutImprovement' = 0
  /\ KeepIfBetter(currentSol', currentObj')
  /\ pc' = "while"

(* The count is not needed beyond the one that is enough. *)
EntryFails ==
  /\ iterationsWithoutImprovement' =
       IF iterationsWithoutImprovement > Len(entries) THEN iterationsWithoutImprovement
                                                      ELSE iterationsWithoutImprovement + 1
  /\ pc' = IF Enough(iterationsWithoutImprovement') THEN "stop" ELSE "while"
  /\ UNCHANGED best

(* The search of the entry returns. *)
EntryReturns ==
  /\ pc = "apply"
  /\ \E r \in Returned(entries[moveindex + 1], currentSol) :
       currentSol' = r /\ currentObj' = Obj(r)
  /\ IF currentObj' - Obj(currentSol) < 0 THEN EntryImproves ELSE EntryFails
  /\ UNCHANGED <<modelling, clock, initial, entries, moveindex>>

(* The search of the entry crashes. *)
EntryCrashes == pc = "apply" /\ Crash /\ UNCHANGED ilsVars

(* doSearch returns: it has no last lines that copy the initial solution. *)
Finish == Goto("stop", "done") /\ UNCHANGED ilsVars

(* Time passes: also in the initial expansion, and as long in the search   *)
(* of an entry as one pass or expansion of it takes.                       *)
TimePasses == Tick /\ UNCHANGED ilsVars

Step ==
  \/ Start
  \/ LeaveLoop
  \/ BeginEntry
  \/ EntryReturns
  \/ EntryCrashes
  \/ Finish

Next == Step \/ TimePasses

Spec == Init /\ [][Next]_vars

(* The program keeps running; nothing is assumed of the clock. *)
FairSpec == Spec /\ WF_vars(Step)

-----------------------------------------------------------------------------

(***************************************************************************)
(* Properties.                                                             *)
(***************************************************************************)

(* What the caller makes of a null _bestSol. *)
LastSolution == IF bestSol = NULL THEN initialSol ELSE bestSol

(* Before its time limit ILS stops only where no entry helps: each one's   *)
(* search, run from the best solution, has returned that solution, whose   *)
(* objective is the one printed.                                           *)
StopsWhereNoEntryHelps ==
  pc = "done" /\ ~timeout =>
    /\ bestObjVal = Obj(LastSolution)
    /\ \A i \in 1 .. Len(entries) : LastSolution \in Returned(entries[i], LastSolution)

(***************************************************************************)
(* What ILS is to a caller that takes _initialSol where _bestSol is null.  *)
(***************************************************************************)
Repaired == INSTANCE SearchContract WITH
  status   <- IF pc = "start" THEN "ready"
              ELSE IF pc = "done" THEN "returned"
              ELSE IF pc = "crashed" THEN "failed"
              ELSE "running",
  from     <- IF pc \in {"start", "crashed"} THEN NULL ELSE initialSol,
  result   <- IF pc = "done" THEN LastSolution ELSE NULL,
  reported <- IF pc = "done" THEN bestObjVal ELSE 0

(* The missing copy of the initial solution is all that keeps ILS from the *)
(* contract of a search: to such a caller ILS over searches that keep the  *)
(* contract keeps it as well, in whichever turn its limit strikes.         *)
KeepsContractButForNull == Repaired!Spec

(* doSearch returns even if the clock stands still. *)
Termination == <>Ended

(* The command's description: "Output: best, hmm, structure". *)
ReturnsAStructure == pc = "done" => bestSol # NULL
=============================================================================
