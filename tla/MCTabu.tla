------------------------------- MODULE MCTabu -------------------------------
(***************************************************************************)
(* TabuSearch on landscapes of three structures and three moves.  Move t   *)
(* goes round a ring of the structures, the odd moves one step and the     *)
(* even one two, or it is not valid: all 512 combinations.                 *)
(***************************************************************************)
EXTENDS TabuSearch, Landscapes

MCStructure == 1 .. 3
MCTuple     == 1 .. 3

Turn(s, t) == ((s + (IF t = 2 THEN 1 ELSE 0)) % 3) + 1

Ring == {f \in [MCStructure \X MCTuple -> MCStructure] :
           \A s \in MCStructure, t \in MCTuple : f[s, t] \in {s, Turn(s, t)}}

MCModelling ==
  [next : Ring, blocks : {"exact"}]
    \cup {m \in [next : Ring, blocks : {"huge", "cost", "theory"}] :
            \A s \in MCStructure, t \in MCTuple : m.next[s, t] # s}

(* The tenure of 15 is for larger problems.  Uninitialised it may be anything. *)
MCTenures == {2, 0, -1}
=============================================================================
