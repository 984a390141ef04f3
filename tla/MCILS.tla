------------------------------- MODULE MCILS -------------------------------
(***************************************************************************)
(* ILS on three structures with up to two entries of any behaviour, and    *)
(* three entries each of which always returns the same.                    *)
(***************************************************************************)
EXTENDS ILS, FiniteSets

MCStructure == 1 .. 3
MCTuple     == {}

Objective(s) == 10 * s

(* What a search returns: its start, or something better. *)
MCModelling ==
  {m \in [MCStructure -> SUBSET MCStructure \ {{}}] :
     \A s \in MCStructure : \A r \in m[s] : r <= s}

MCReturned(m, s) == m[s]

Deterministic == {m \in MCModelling : \A s \in MCStructure : Cardinality(m[s]) = 1}

MCEntryLists ==
  [1 .. 1 -> MCModelling] \cup [1 .. 2 -> MCModelling] \cup [1 .. 3 -> Deterministic]

(* The services the entries' searches call are behind Returned. *)
NoMoves(m, s) == {}
NoService(m, s, t) == 0
Has(m) == TRUE
HasNot(m) == FALSE
=============================================================================
