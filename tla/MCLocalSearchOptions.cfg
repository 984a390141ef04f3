SPECIFICATION OptionsSpec
CONSTANTS
  Types = {"firstimprove", "tabu", "LNS", "lns"}
  Moves = {"2opt", "swap", "lns1", "broken", "typo"}
  LNSMoves = {"lns1"}
  Blocks <- MCBlocks
  NoMove = NoMove
  MaxEntries = 3
INVARIANTS
  OptionsTypeOK
  WellFormedOptionsRun
  RunsWhatEntriesSay
CHECK_DEADLOCK FALSE
