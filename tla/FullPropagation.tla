--------------------------- MODULE FullPropagation ---------------------------
(***************************************************************************)
(* optimalpropagate: the literals of the output vocabulary that hold in    *)
(* all models, computed in one of three ways.  "assumptions" narrows an    *)
(* under- and an overapproximation by solving under the negation of one    *)
(* literal after the other; "intersection" excludes all models that share  *)
(* what the models so far have in common; "enumeration" computes them all. *)
(***************************************************************************)
EXTENDS ModelIterationTask, FiniteSets

CONSTANTS
  FullProp,      \* the ways among which the option chooses
  MaxRequests    \* how often termination is requested

ASSUME FullPropAssumption ==
  /\ FullProp \subseteq {"assumptions", "intersection", "enumeration"}
  /\ MaxRequests \in Nat

VARIABLES
  pc,
  method,
  given,        \* the literals of the structure
  under,        \* underapproximation
  over,         \* overapproximation without them, or the intersection
  tried,        \* the literal whose negation is assumed; a set of at most one
  requests      \* how often termination was requested

propVars == <<method, given, under, over, tried>>
vars == <<taskVars, pc, propVars, requests>>

TypeOK ==
  /\ TaskTypeOK
  /\ pc \in {"start", "loop", "solve", "retract", "done", "nil", "crashed", "stopped"}
  /\ method \in FullProp
  /\ given \subseteq Literals /\ under \subseteq Literals /\ over \subseteq Literals
  /\ tried \subseteq Literals
  /\ requests \in 0 .. MaxRequests

(* The models extend the structure. *)
Init ==
  /\ TaskInit
  /\ pc = "start"
  /\ method \in FullProp
  /\ given \in SUBSET Literals
  /\ \A m \in models : given \subseteq Lits(m)
  /\ under = {} /\ over = {} /\ tried = {}
  /\ requests = 0

-----------------------------------------------------------------------------

(* Without a terminator the solver is not told of a request. *)
Request ==
  /\ pc \in {"start", "loop", "solve", "retract"}
  /\ ~shouldTerminate /\ requests < MaxRequests
  /\ shouldTerminate' = TRUE /\ requests' = requests + 1
  /\ UNCHANGED <<models, excluded, assumption, terminated, terminate, pc, propVars>>

Throw ==
  /\ pc \in {"start", "solve"} /\ method # "enumeration"
  /\ calculateThrows
  /\ pc' = "stopped"
  /\ UNCHANGED <<propVars, requests>>

(* FullPropagation::propagate, to the first model. *)
StartAssumptions ==
  /\ pc = "start" /\ method = "assumptions"
  /\ \E r \in Candidates \cup {NULL} :
       /\ calculate(r)
       /\ IF r = NULL
            THEN pc' = "nil" /\ UNCHANGED <<under, over>>
            ELSE pc' = "loop" /\ under' = given /\ over' = Lits(r) \ given
  /\ UNCHANGED <<assumption, method, given, tried, requests>>

Assume ==
  /\ pc = "loop" /\ method = "assumptions"
  /\ \E a \in over : tried' = {a} /\ addAssumption(Neg(a))
  /\ pc' = "solve"
  /\ UNCHANGED <<models, excluded, terminated, terminate, shouldTerminate,
                 method, given, under, over, requests>>

(* The solver finds no model without the literal, or one without it and    *)
(* perhaps without others.                                                 *)
Learn(r) ==
  IF r = NULL
    THEN under' = under \cup tried /\ over' = over \ tried
    ELSE over' = over \cap Lits(r) /\ UNCHANGED under

SolveAssumed ==
  /\ pc = "solve" /\ method = "assumptions"
  /\ \E r \in Candidates \cup {NULL} : calculate(r) /\ Learn(r)
  /\ pc' = "retract"
  /\ UNCHANGED <<assumption, method, given, tried, requests>>

Retract ==
  /\ pc = "retract"
  /\ \E a \in tried : removeAssumption(Neg(a))
  /\ pc' = "loop" /\ tried' = {}
  /\ UNCHANGED <<models, excluded, terminate, shouldTerminate, method, given, under, over, requests>>

EndAssumptions ==
  /\ pc = "loop" /\ method = "assumptions"
  /\ over = {}
  /\ pc' = "done"
  /\ UNCHANGED <<taskVars, propVars, requests>>

(* propagateNoAssumps: without a model it reads the first of none. *)
StartIntersection ==
  /\ pc = "start" /\ method = "intersection"
  /\ \E r \in Candidates \cup {NULL} :
       /\ calculate(r)
       /\ IF r = NULL THEN pc' = "crashed" /\ UNCHANGED over
                      ELSE pc' = "loop" /\ over' = Lits(r)
  /\ UNCHANGED <<assumption, method, given, under, tried, requests>>

(* Exclude the models that have all of the intersection. *)
Exclude ==
  /\ pc = "loop" /\ method = "intersection"
  /\ addClause({Neg(l) : l \in over})
  /\ pc' = "solve"
  /\ UNCHANGED <<models, assumption, terminated, terminate, shouldTerminate, propVars, requests>>

Intersect(r) == over \cap Lits(r)

SolveExcluding ==
  /\ pc = "solve" /\ method = "intersection"
  /\ \E r \in Candidates \cup {NULL} :
       /\ calculate(r)
       /\ IF r = NULL
            THEN pc' = "done" /\ under' = given \cup over /\ UNCHANGED over
            ELSE pc' = "loop" /\ over' = Intersect(r) /\ UNCHANGED under
  /\ UNCHANGED <<assumption, method, given, tried, requests>>

(* OptimalPropagation: one call of the solver for all models. *)
Enumerate ==
  /\ pc = "start" /\ method = "enumeration"
  /\ IF models = {}
       THEN pc' = "nil" /\ UNCHANGED under
       ELSE pc' = "done" /\ under' = given \cup {l \in Literals : \A m \in models : l \in Lits(m)}
  /\ UNCHANGED <<taskVars, method, given, over, tried, requests>>

propagate == StartAssumptions \/ Assume \/ SolveAssumed \/ Retract \/ EndAssumptions
propagateNoAssumps == StartIntersection \/ Exclude \/ SolveExcluding

optimalpropagate == propagate \/ propagateNoAssumps \/ Enumerate \/ Throw

Next == optimalpropagate \/ Request

Spec == Init /\ [][Next]_vars

-----------------------------------------------------------------------------

(***************************************************************************)
(* Properties.                                                             *)
(***************************************************************************)

(* "Everything that can be derived from the theory will be derived", and   *)
(* nothing else: though the models that were found are excluded from the   *)
(* later searches, and requests to terminate come in between.              *)
PropagationIsExact ==
  pc = "done" => under = {l \in Literals : \A m \in models : l \in Lits(m)}

(* nil is returned for theories without models only. *)
NilMeansInconsistent == pc = "nil" => models = {}

(* Whichever way is taken, its answer is exact: the literals that all      *)
(* models have in common, or nil where there is no model.                  *)
AnswerIsExact == PropagationIsExact /\ NilMeansInconsistent
=============================================================================
