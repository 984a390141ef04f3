---------------------------- MODULE LocalSearch ----------------------------
(***************************************************************************)
(* The base class of every local search (Localsearch.cpp): the members all *)
(* searches share, the initial solution, the time limit and the services   *)
(* the searches call.  A search adds its own variables and loop.           *)
(*                                                                         *)
(* The inference engine is seen through what it returns.  A Structure is   *)
(* a model of the problem theory T; Obj is the answer of the objective     *)
(* query.  For a move modelling m (the blocks Vmove_m, Tnext_m, ...) and a *)
(* move t (a tuple of domain elements), ValidMoves is the answer of        *)
(* getValidMoves_m, Delta of getDeltaObj_m, NextCost of getNextCost_m and  *)
(* Neighbor the model of T that Tnext_m leads to (NULL if there is none).  *)
(***************************************************************************)
EXTENDS Integers

CONSTANTS
  Structure,         \* models of T over the input structure
  Modelling,         \* the move modellings of the option string
  Tuple,             \* the tuples that encode moves
  Obj(_),            \* of a structure
  ValidMoves(_, _),  \* of a modelling in a structure
  Neighbor(_, _, _), \* of a modelling, a structure and a move
  Delta(_, _, _),    \* likewise
  NextCost(_, _, _), \* likewise
  HasDelta(_),       \* has the modelling a query getDeltaObj_m?
  ByTheory(_),       \* do its moves come from a theory Tmoves_m?
  Timeout,           \* the option timeout_localsearch, in clock ticks
  NULL               \* the null pointer

ASSUME ServiceTypes ==
  /\ NULL \notin Structure
  /\ Timeout \in Nat
  /\ \A s \in Structure : Obj(s) \in Int
  /\ \A m \in Modelling : HasDelta(m) \in BOOLEAN /\ ByTheory(m) \in BOOLEAN
  /\ \A m \in Modelling, s \in Structure :
       /\ ValidMoves(m, s) \subseteq Tuple
       /\ \A t \in ValidMoves(m, s) : /\ Neighbor(m, s, t) \in Structure \cup {NULL}
                                      /\ Delta(m, s, t) \in Int
                                      /\ NextCost(m, s, t) \in Int

VARIABLES
  pc,          \* where doSearch is
  modelling,   \* _listmovemodelling[0]
  clock,       \* clock() - _timeStart
  initialSol,  \* _initialSol; a value at the start is a given solution
  iniObjVal,   \* _iniObjVal
  bestSol,     \* _bestSol
  bestObjVal,  \* _bestObjVal
  currentSol,  \* the local currentSol of doSearch
  currentObj   \* the local currentobj of doSearch

initial   == <<initialSol, iniObjVal>>
best      == <<bestSol, bestObjVal>>
current   == <<currentSol, currentObj>>
solutions == <<initial, best, current>>
baseVars  == <<pc, modelling, clock, solutions>>

(* "crashed": the process read models[0] of an empty list or a bad pointer, *)
(* or the command ended in an exception.                                    *)
Labels == {"start", "while", "moves", "apply", "stop", "done", "crashed"}

(***************************************************************************)
(* Beyond the limit every reading of the clock is alike, so time stops one *)
(* tick after it: ClockBound.                                              *)
(***************************************************************************)
ClockBound == Timeout + 1

BaseTypeOK ==
  /\ pc \in Labels
  /\ modelling \in Modelling
  /\ clock \in 0 .. ClockBound
  /\ {initialSol, bestSol, currentSol} \subseteq Structure \cup {NULL}
  /\ {iniObjVal, bestObjVal, currentObj} \subseteq Int

BaseInit ==
  /\ pc = "start"
  /\ modelling \in Modelling
  /\ clock = 0
  /\ initialSol \in Structure \cup {NULL}
  /\ bestSol = NULL /\ currentSol = NULL
  /\ iniObjVal = 0 /\ bestObjVal = 0 /\ currentObj = 0

(* A step of the control that changes no solution. *)
Goto(from, to) == pc = from /\ pc' = to /\ UNCHANGED <<modelling, clock, solutions>>

(* Mutant: compares the wrong way round. *)
timeout_reversed == clock < Timeout

(* Is the elapsed processor time beyond the limit? *)
timeout == clock > Timeout

TimeLeft == clock < ClockBound

(* The processor time of the process advances while the search computes. *)
Tick ==
  /\ pc \notin {"done", "crashed"}
  /\ TimeLeft
  /\ clock' = clock + 1
  /\ UNCHANGED <<pc, modelling, solutions>>

(***************************************************************************)
(* What doModelExpansion hands back when s is the model it should find:    *)
(* the solver may also be interrupted (MXTIMEOUT, MXMEMORYOUT) before it   *)
(* has one, and then the list of models is empty.                          *)
(***************************************************************************)
FirstModel(s) == {s, NULL}

(***************************************************************************)
(* models[0] of an empty list reads the null pointer an empty vector       *)
(* holds: the process gets a SIGSEGV.  So does a null or garbage query.    *)
(***************************************************************************)
Crash == pc' = "crashed" /\ UNCHANGED <<modelling, clock, solutions>>

(***************************************************************************)
(* LocalSearch::doSearch and the first lines of every overriding doSearch: *)
(* expand the given solution, or the input structure if none is given, to  *)
(* a model, take it as initial and current solution, forget the best one.  *)
(***************************************************************************)
GetInitialSolution(s) ==
  /\ pc = "start"
  /\ initialSol # NULL => s = initialSol
  /\ pc' = "while"
  /\ initialSol' = s /\ iniObjVal' = Obj(s)
  /\ bestSol' = NULL /\ bestObjVal' = Obj(s)
  /\ currentSol' = s /\ currentObj' = Obj(s)
  /\ UNCHANGED <<modelling, clock>>

BaseStart ==
  \/ \E s \in Structure : GetInitialSolution(s)
  \/ pc = "start" /\ Crash

(* The head of every loop. *)
TimeoutAtHead == timeout /\ Goto("while", "stop")

(***************************************************************************)
(* getValidMoves with a theory Tmoves_m: the constructor of MoveModelling  *)
(* leaves _queryValidMoves uninitialised, so the test "!= NULL" may pick   *)
(* the query branch with a garbage pointer.                                *)
(***************************************************************************)
GarbageQuery == pc = "while" /\ ~timeout /\ ByTheory(modelling) /\ Crash

(* getNeighborSolution: Tnext_m, then T, is expanded to its first model. *)
getNeighborSolution(t) == FirstModel(Neighbor(modelling, currentSol, t))

(* Mutant: the better solution is not remembered. *)
KeepIfBetter_forgets(s, o) ==
  /\ bestObjVal' = IF o < bestObjVal THEN o ELSE bestObjVal
  /\ bestSol' = bestSol

(* Remember s as the best solution if its objective o is the least so far. *)
KeepIfBetter(s, o) ==
  /\ bestObjVal' = IF o < bestObjVal THEN o ELSE bestObjVal
  /\ bestSol' = IF o < bestObjVal THEN s ELSE bestSol

(* Move to s. *)
MoveTo(s, o) == currentSol' = s /\ currentObj' = o /\ KeepIfBetter(s, o)

(* Mutant: the copy is made also if a better solution is known. *)
CopyInitialIfNoneBetter_always == bestSol' = initialSol

(* The search returns a copy of the initial solution if none was better. *)
CopyInitialIfNoneBetter ==
  bestSol' = IF bestSol = NULL THEN initialSol ELSE bestSol

(* The last lines of doSearch. *)
Return ==
  /\ pc = "stop" /\ pc' = "done"
  /\ CopyInitialIfNoneBetter
  /\ UNCHANGED <<modelling, clock, initial, current, bestObjVal>>

(* Has doSearch returned, or has it taken the process with it? *)
Ended == pc \in {"done", "crashed"}

(* How a search implements the contract of all searches. *)
Contract == INSTANCE SearchContract WITH
  status   <- IF pc = "start" THEN "ready"
              ELSE IF pc = "done" THEN "returned"
              ELSE IF pc = "crashed" THEN "failed"
              ELSE "running",
  from     <- IF pc \in {"start", "crashed"} THEN NULL ELSE initialSol,
  result   <- IF pc = "done" THEN bestSol ELSE NULL,
  reported <- IF pc = "done" THEN bestObjVal ELSE 0
=============================================================================
