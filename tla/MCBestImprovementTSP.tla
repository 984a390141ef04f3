------------------------ MODULE MCBestImprovementTSP ------------------------
(* BestImprovementSearch with the move modelling 2opt of tsp.idp, on its   *)
(* structure Simple.                                                       *)
EXTENDS BestImprovementSearch, TSPSearch

MCModelling == {"2opt"}

(* TLC evaluates a definition without parameters once. *)
AllTours == Tours
MCStructure == AllTours
=============================================================================
