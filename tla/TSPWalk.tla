------------------------------ MODULE TSPWalk ------------------------------
(***************************************************************************)
(* A walk through the tours by the moves of tsp.idp: what the searches see *)
(* of the problem.  It shows that the move modellings keep their side of   *)
(* the contract the searches rely on.                                      *)
(***************************************************************************)
EXTENDS TSP

VARIABLE dec_Path

StartTour == dec_Path \in Tours

(* Tnext_m defines next_dec_Path, which becomes dec_Path of the neighbour. *)
Move(m) ==
  \E t \in getValidMoves(m, dec_Path) : dec_Path' = Tnext(m, dec_Path, t)

AnyMove == Move("2opt") \/ Move("oropt1") \/ Move("oropt2")

Walk == StartTour /\ [][AnyMove]_dec_Path

-----------------------------------------------------------------------------

(* Every move of getValidMoves, improving or not, leads from a tour to a   *)
(* tour: expanding T after Tnext always finds a model, so models[0] of     *)
(* getNeighborSolution exists unless the solver is interrupted.            *)
MovesKeepTours ==
  \A m \in Moves : \A t \in Candidates(m, dec_Path) : IsTour(Tnext(m, dec_Path, t))

(* The delta queries are exact: BestImprovementSearch adds them to the     *)
(* objective without ever asking ObjValue again.                           *)
DeltaIsExact ==
  \A m \in Moves : \A t \in Candidates(m, dec_Path) :
    ObjValue(Tnext(m, dec_Path, t)) = ObjValue(dec_Path) + getDeltaObj(m, t)

Undirected(P) == {{e[1], e[2]} : e \in P}

(* The reference definition of 2-opt: two edges of the tour, without       *)
(* direction, are replaced by two others so that a tour results.  The      *)
(* query, which walks Reach one way round from MIN, misses none of them.   *)
TwoOptIsComplete ==
  LET neighbours == {Undirected(Tnext_2opt(dec_Path, t)) : t \in Candidates_2opt(dec_Path)}
  IN  \A Q \in Tours :
        Cardinality(Undirected(dec_Path) \ Undirected(Q)) = 2 => Undirected(Q) \in neighbours
=============================================================================
