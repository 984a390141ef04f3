------------------------ MODULE MCLargeNeighbourhood ------------------------
(* LargeNeighbourhoodSearch on every problem of three structures and two    *)
(* moves: what a move reaches from a structure, and in which of them it can *)
(* be drawn.  An index is a move without getRandomVars if it is valid       *)
(* nowhere.                                                                 *)
EXTENDS LargeNeighbourhoodSearch, FiniteSets

MCStructure == 1 .. 3
MCTuple     == 1 .. 2

MCModelling == [reach : [MCTuple -> SUBSET MCStructure], valid : [MCTuple -> SUBSET MCStructure]]

MCObj(s) == 10 * s
MCValidMoves(m, s) == {t \in MCTuple : s \in m.valid[t]}
MCHasDomain(m, t) == m.valid[t] # {}
MCRegrown(m, s, t) == m.reach[t] \cup {s}
MCRegrownAtRandom(s, k) == {u \in MCStructure : u - s <= k /\ s - u <= k}

(* The services of other searches. *)
MCNeighbor(m, s, t) == s
MCDelta(m, s, t) == 0
MCHas(m) == FALSE
=============================================================================
