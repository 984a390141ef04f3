--------------------------- MODULE SearchContract ---------------------------
(***************************************************************************)
(* What doLocalSearch and ILS expect of a doSearch, whatever its strategy: *)
(* it starts from a model, and if it returns, it returns that model or a   *)
(* strictly better one and reports the objective of what it returns.       *)
(***************************************************************************)
EXTENDS Integers

CONSTANTS Structure, Obj(_), NULL

VARIABLES
  status,    \* "ready", "running", "returned" or "failed"
  from,      \* _initialSol
  result,    \* _bestSol
  reported   \* _bestObjVal

contractVars == <<status, from, result, reported>>

Init == status = "ready" /\ from = NULL /\ result = NULL /\ reported = 0

Begin ==
  /\ status = "ready"
  /\ status' = "running"
  /\ from' \in Structure
  /\ UNCHANGED <<result, reported>>

(* What a search from s may return. *)
Promised(s) == {r \in Structure : r = s \/ Obj(r) < Obj(s)}

Return ==
  /\ status = "running"
  /\ status' = "returned"
  /\ result' \in Promised(from)
  /\ reported' = Obj(result')
  /\ UNCHANGED from

Fail ==
  /\ status \in {"ready", "running"}
  /\ status' = "failed"
  /\ from' = NULL
  /\ UNCHANGED <<result, reported>>

Next == Begin \/ Return \/ Fail

Spec == Init /\ [][Next]_contractVars
=============================================================================
