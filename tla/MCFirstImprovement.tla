------------------------- MODULE MCFirstImprovement -------------------------
(* FirstImprovementSearch on every landscape of three structures and two moves. *)
EXTENDS FirstImprovementSearch, Landscapes

MCStructure == 1 .. 3
MCTuple     == 1 .. 2

(* A delta that is always negative leaves the decision to the objective.   *)
(* One landscape with its moves in a theory is enough for that branch.     *)
MCModelling ==
  Landscape({"wrong", "cost"})
    \cup {m \in Landscape({"theory"}) : \A p \in MCStructure \X MCTuple : m.next[p] = p[2]}
=============================================================================
