------------------------ MODULE MCLocalSearchOptions ------------------------
(* Options of up to three entries over moves with all blocks, with the     *)
(* blocks of an LNS move, without the blocks for moves, and without Vmove. *)
EXTENDS LocalSearchOptions

MCBlocks(move) ==
  CASE move = "2opt"   -> {"Vmove", "Tnext", "getValidMoves", "getDeltaObj"}
    [] move = "swap"   -> {"Vmove", "Tnext", "Tmoves"}
    [] move = "lns1"   -> {"Vmove", "getMove", "getRandomVars"}
    [] move = "broken" -> {"Vmove", "Tnext"}
    [] move = "typo"   -> {}
=============================================================================
