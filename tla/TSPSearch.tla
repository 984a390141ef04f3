----------------------------- MODULE TSPSearch -----------------------------
(***************************************************************************)
(* The services of LocalSearch on the problem of tsp.idp: what the engine  *)
(* answers to the queries and expansions of a search.                      *)
(***************************************************************************)
EXTENDS TSP

CONSTANT NoTour

SearchTuples == UNION {[1 .. n -> City] : n \in 4 .. 6}

SearchNeighbor(m, P, t) == LET Q == Tnext(m, P, t) IN IF IsTour(Q) THEN Q ELSE NoTour

SearchDelta(m, P, t) == getDeltaObj(m, t)

(* tsp.idp has a query getDeltaObj and a query getValidMoves for each move, *)
(* so there is no getNextCost to answer.                                    *)
SearchNextCost(m, P, t) == 0
SearchHasDelta(m) == TRUE
SearchByTheory(m) == FALSE

-----------------------------------------------------------------------------
(* The cities A to G of the structure Simple: the distances are not symmetric. *)
SimpleCities == 1 .. 7

SimpleDistance ==
  LET row == << <<0, 10, 15, 8, 1, 3, 5>>,
                <<10, 0, 9, 7, 19, 3, 1>>,
                <<6, 9, 0, 10, 10, 2, 3>>,
                <<9, 7, 10, 0, 12, 6, 6>>,
                <<1, 2, 10, 12, 0, 8, 2>>,
                <<1, 3, 8, 6, 9, 0, 9>>,
                <<5, 2, 12, 7, 3, 8, 0>> >>
  IN  [p \in SimpleCities \X SimpleCities |-> row[p[1]][p[2]]]
=============================================================================
