------------------------- MODULE MCBestImprovement -------------------------
(* BestImprovementSearch on every landscape of three structures and two    *)
(* moves with exact deltas, on every one of one move with signs for deltas *)
(* and on one landscape for each other form of the blocks.                 *)
EXTENDS BestImprovementSearch, Landscapes

MCStructure == 1 .. 3
MCTuple     == 1 .. 2

MCModelling ==
  Landscape({"exact"})
    \cup {m \in Landscape({"signs"}) : \A s \in MCStructure : m.next[s, 1] = m.next[s, 2]}
    \cup {m \in Landscape({"cost", "theory"}) : \A p \in MCStructure \X MCTuple : m.next[p] = p[2]}
=============================================================================
