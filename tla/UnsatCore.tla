------------------------------ MODULE UnsatCore ------------------------------
(***************************************************************************)
(* MinimizeMarkers: reduce a set of assumptions under which a theory has   *)
(* no model, first those that an atom is true, then those that one is      *)
(* false.  Each step leaves one assumption out and calls model expansion,  *)
(* which a user or the solver's limits may interrupt (see ModelExpansion). *)
(*                                                                         *)
(* The arrays of assumptions are sets: the order in which their elements   *)
(* are left out is open.                                                   *)
(***************************************************************************)
EXTENDS Integers, FiniteSets

CONSTANTS
  AssumeTrue, AssumeFalse,   \* the two kinds of assumptions
  MaxRequests,               \* how often termination is requested
  MaxLimits                  \* how often an expansion exceeds MXTIMEOUT or MXMEMORYOUT

Assumptions == AssumeTrue \cup AssumeFalse

ASSUME UnsatCoreAssumption ==
  /\ IsFiniteSet(Assumptions)
  /\ AssumeTrue \cap AssumeFalse = {}
  /\ MaxRequests \in Nat /\ MaxLimits \in Nat

(* The theory and the structure, by the sets of assumptions under which    *)
(* they have no model: more assumptions leave no more models.              *)
Problems ==
  {unsats \in SUBSET SUBSET Assumptions :
     \A A \in unsats : \A B \in SUBSET Assumptions : A \subseteq B => B \in unsats}

VARIABLES
  unsats,            \* the problem
  pc,
  array,             \* which kind is being minimised
  todo,              \* those of them the loop is yet to leave out
  core,
  elem,              \* the one left out, a set of at most one
  goal,
  shouldTerminate,
  requests, limits   \* those met so far

vars == <<unsats, pc, array, todo, core, elem, goal, shouldTerminate, requests, limits>>

TypeOK ==
  /\ unsats \in Problems
  /\ pc \in {"first", "loop", "solve", "done", "satisfiable", "terminated"}
  /\ array \in {"assumeTrue", "assumeFalse"}
  /\ core \subseteq Assumptions /\ todo \subseteq core
  /\ elem \subseteq Assumptions \ core
  /\ goal \in Nat
  /\ shouldTerminate \in BOOLEAN
  /\ requests \in 0 .. MaxRequests /\ limits \in 0 .. MaxLimits

Init ==
  /\ unsats \in Problems
  /\ pc = "first"
  /\ array = "assumeTrue" /\ todo = {} /\ core = {} /\ elem = {} /\ goal = 0
  /\ shouldTerminate = FALSE
  /\ requests = 0 /\ limits = 0

-----------------------------------------------------------------------------
(* What an expansion under the assumptions A may answer. *)

Answer(u, i, e) == [unsat |-> u, interrupted |-> i, explanation |-> e]

(* No model, and an explanation, which may leave some of A out. *)
Refuted(A) == {Answer(TRUE, FALSE, e) : e \in unsats \cap SUBSET A}

Undisturbed(A) == IF A \in unsats THEN Refuted(A) ELSE {Answer(FALSE, FALSE, {})}

(* Without a model found the result of a request is a new one that says    *)
(* unsat only, of a solver that has no conflict to explain.                *)
Requested(A) ==
  Refuted(A) \cup {Answer(TRUE, FALSE, {})}
    \cup IF A \in unsats THEN {} ELSE {Answer(FALSE, TRUE, {})}

(* A limit was exceeded, before or after the answer was known. *)
Limited(A) == {Answer(TRUE, TRUE, {}), Answer((A \in unsats), TRUE, {})}

(* expand returns r, and takes a request back. *)
Expand(A, r) ==
  /\ \/ ~shouldTerminate /\ r \in Undisturbed(A) /\ UNCHANGED limits
     \/ shouldTerminate /\ r \in Requested(A) /\ UNCHANGED limits
     \/ limits < MaxLimits /\ limits' = limits + 1 /\ r \in Limited(A)
  /\ shouldTerminate' = FALSE

Answers == [unsat : BOOLEAN, interrupted : BOOLEAN, explanation : SUBSET Assumptions]

(* expand throws: grounding notices the request, or it comes after another *)
(* was taken back.                                                         *)
Throw ==
  /\ pc \in {"first", "solve"}
  /\ shouldTerminate
  /\ pc' = "terminated"
  /\ UNCHANGED <<unsats, array, todo, core, elem, goal, shouldTerminate, requests, limits>>

Request ==
  /\ pc \in {"first", "loop", "solve"}
  /\ ~shouldTerminate /\ requests < MaxRequests
  /\ shouldTerminate' = TRUE /\ requests' = requests + 1
  /\ UNCHANGED <<unsats, pc, array, todo, core, elem, goal, limits>>

-----------------------------------------------------------------------------

Kind(a) == IF a = "assumeTrue" THEN AssumeTrue ELSE AssumeFalse

(* Call minimizeSubArray for the assumptions a of the core c. *)
Begin(a, c) ==
  /\ pc' = "loop"
  /\ array' = a /\ core' = c /\ todo' = c \cap Kind(a)
  /\ elem' = {} /\ goal' = Cardinality(c)

(* Mutant: the assumptions of the second kind are left as they are. *)
EndArray_first == pc' = "done" /\ UNCHANGED <<array, core, todo, elem, goal>>

(* It returns false. *)
EndArray ==
  \/ array = "assumeTrue" /\ Begin("assumeFalse", core)
  \/ array = "assumeFalse" /\ pc' = "done" /\ UNCHANGED <<array, core, todo, elem, goal>>

FirstSolve ==
  /\ pc = "first"
  /\ \E r \in Answers :
       /\ Expand(Assumptions, r)
       /\ IF r.unsat
            THEN Begin("assumeTrue", r.explanation)
            ELSE pc' = "satisfiable" /\ UNCHANGED <<array, core, todo, elem, goal>>
  /\ UNCHANGED <<unsats, requests>>

(* All are tried, or a request is noticed and taken back. *)
LoopEnds ==
  /\ pc = "loop"
  /\ todo = {} \/ shouldTerminate
  /\ EndArray
  /\ shouldTerminate' = (shouldTerminate /\ todo = {})
  /\ UNCHANGED <<unsats, requests, limits>>

LeaveOut ==
  /\ pc = "loop"
  /\ ~shouldTerminate
  /\ \E e \in todo :
       /\ elem' = {e}
       /\ core' = core \ {e} /\ todo' = todo \ {e}
  /\ pc' = "solve"
  /\ UNCHANGED <<unsats, array, goal, shouldTerminate, requests, limits>>

PutBack == core' = core \cup elem

(* Mutant: what was put back is tried again. *)
TryNext_again ==
  pc' = "loop" /\ elem' = {} /\ todo' = todo \cup elem /\ UNCHANGED <<array, goal>>

(* The loop goes on. *)
TryNext == pc' = "loop" /\ elem' = {} /\ UNCHANGED <<array, todo, goal>>

(* Mutant: the array being walked over is that of the core before. *)
Restart_goesOn(c) == core' = c /\ TryNext

(* It returns true, and is called again. *)
Restart(c) == Begin(array, c)

(* Mutant: an interrupted expansion is taken for one that found a model. *)
Interrupted_goesOn == TryNext /\ UNCHANGED core

(* It returns false, and has not put back what it left out. *)
Interrupted == EndArray

Solve ==
  /\ pc = "solve"
  /\ \E r \in Answers :
       /\ Expand(core, r)
       /\ \/ r.interrupted /\ Interrupted
          \/ ~r.interrupted /\ ~r.unsat /\ PutBack /\ TryNext
          \/ /\ ~r.interrupted /\ r.unsat
             /\ IF Cardinality(r.explanation) < goal
                  THEN Restart(r.explanation)
                  ELSE TryNext /\ UNCHANGED core
  /\ UNCHANGED <<unsats, requests>>

minimizeAssumps == FirstSolve \/ LoopEnds \/ LeaveOut \/ Solve \/ Throw

Next == minimizeAssumps \/ Request

Spec == Init /\ [][Next]_vars

(* The calls of model expansion return: see ModelExpansion.EveryCallEnds. *)
FairSpec == Spec /\ WF_vars(minimizeAssumps)

-----------------------------------------------------------------------------

(***************************************************************************)
(* Properties.                                                             *)
(***************************************************************************)

Disturbed == requests > 0 \/ limits > 0

(* Left alone, minimizeAssumps returns assumptions under which the theory  *)
(* has no model, though it never checks the last of them again, and each   *)
(* of which is necessary, though those of the first kind are tried only    *)
(* beside more of the second than remain.                                  *)
UndisturbedCoreIsMinimal ==
  pc = "done" /\ ~Disturbed =>
    core \in unsats /\ \A A \in unsats : A \subseteq core => A = core

(* Whatever disturbs it, the result misses everything or no more than one  *)
(* assumption of each kind: an interruption ends the array it meets.       *)
AtMostOneOfEachKindIsMissing ==
  pc = "done" =>
    core = {} \/ \E x \in SUBSET AssumeTrue, y \in SUBSET AssumeFalse :
                    /\ Cardinality(x) <= 1 /\ Cardinality(y) <= 1
                    /\ core \cup x \cup y \in unsats

(* Every restart leaves a smaller core: the passes over it come to an end. *)
Terminates == <>(pc \in {"done", "satisfiable", "terminated"})
=============================================================================
