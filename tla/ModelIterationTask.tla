------------------------- MODULE ModelIterationTask -------------------------
(***************************************************************************)
(* The solver behind ModelIterator: findNext returns one more model of the *)
(* theory under the assumptions and excludes it, addClause excludes others, *)
(* and the flag terminated ends the iteration until an assumption is taken *)
(* away.  Its users extend this module.                                    *)
(*                                                                         *)
(* A model is known by the truth values of the atoms of the output         *)
(* vocabulary.                                                             *)
(***************************************************************************)
EXTENDS Integers

CONSTANTS Atoms, NULL

(* True and false, as the signs of literals. *)
Signs == {1, -1}

Assignments == [Atoms -> Signs]

ASSUME NullIsNoModel == NULL \notin Assignments

Literals == Atoms \X Signs

(* Mutant: the sign is taken for a bit. *)
Neg_bit(l) == <<l[1], 1 - l[2]>>

Neg(l) == <<l[1], -l[2]>>

Lits(m) == {<<a, m[a]>> : a \in Atoms}

VARIABLES
  models,            \* those of the theory that extend the structure
  excluded,          \* models the clauses added so far exclude
  assumption,        \* literals assumed
  terminated,
  terminate,         \* PCSolver::terminate
  shouldTerminate    \* of GlobalData

taskVars == <<models, excluded, assumption, terminated, terminate, shouldTerminate>>

TaskTypeOK ==
  /\ models \subseteq Assignments /\ excluded \subseteq models
  /\ assumption \subseteq Literals
  /\ terminated \in BOOLEAN /\ terminate \in BOOLEAN /\ shouldTerminate \in BOOLEAN

TaskInit ==
  /\ models \in SUBSET Assignments
  /\ excluded = {} /\ assumption = {}
  /\ terminated = FALSE /\ terminate = FALSE /\ shouldTerminate = FALSE

Candidates == {m \in models \ excluded : assumption \subseteq Lits(m)}

(* No model: asked to stop, or none is left. *)
NoNext ==
  /\ terminated \/ terminate \/ Candidates = {}
  /\ terminated' = TRUE
  /\ UNCHANGED excluded

(* Exclude the model m by its decisions.  When the assumptions alone lead   *)
(* to it, or its exclusion to a conflict, the iteration is over.           *)
Found(m) ==
  \/ excluded' = excluded \cup {m} /\ terminated' = FALSE
  \/ Candidates = {m} /\ excluded' \in {excluded, excluded \cup {m}} /\ terminated' = TRUE

findNext(r) ==
  \/ NoNext /\ r = NULL
  \/ ~terminated /\ ~terminate /\ r \in Candidates /\ Found(r)

(* ModelIterator::calculate: r is NULL if the result is unsat.  A request  *)
(* is noted in the result, and taken back.                                 *)
calculate(r) == findNext(r) /\ shouldTerminate' = FALSE /\ UNCHANGED <<models, terminate>>

(* It throws: another request came after the first was taken back. *)
calculateThrows ==
  /\ shouldTerminate
  /\ \E r \in Candidates \cup {NULL} : findNext(r)
  /\ UNCHANGED <<models, terminate, shouldTerminate, assumption>>

addAssumption(l) == assumption' = assumption \cup {l}

addClause(lits) ==
  excluded' = excluded \cup {m \in models : lits \cap Lits(m) = {}}

(* Mutant: the task stays at its end. *)
removeAssumption_only(l) == assumption' = assumption \ {l} /\ UNCHANGED terminated

(* Also gets the task out of its end; not the solver. *)
removeAssumption(l) == assumption' = assumption \ {l} /\ terminated' = FALSE
=============================================================================
