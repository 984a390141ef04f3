------------------------- MODULE LocalSearchOptions -------------------------
(***************************************************************************)
(* LocalSearch::doLocalSearch: from the option localsearchtype, a list of  *)
(* entries "type,move", to the searches that run and the move modelling    *)
(* each of them works with.  Types and modellings are read in two loops,   *)
(* and pointers to modellings are cast to the class the search expects.    *)
(***************************************************************************)
EXTENDS Integers, Sequences, SequencesExt

CONSTANTS
  Types,        \* what stands before the commas
  Moves,        \* the names of moves, what stands behind them
  LNSMoves,     \* those that begin with "lns"
  Blocks(_),    \* the blocks the problem file has for a move
  NoMove,       \* for an entry without a comma
  MaxEntries    \* a bound on the length of the list

ASSUME OptionAssumption ==
  LNSMoves \subseteq Moves /\ NoMove \notin Moves /\ MaxEntries \in Nat \ {0}

Entries == [type : Types, move : Moves \cup {NoMove}]

VARIABLES
  stage,         \* how far doLocalSearch is
  option,        \* listls
  lstype,        \* of the search constructed
  listLSType,
  listMoveName,
  listmovemodelling,
  ran            \* the searches that were run, with their modellings

lists == <<listLSType, listMoveName, listmovemodelling>>
optionVars == <<stage, option, lstype, lists, ran>>

LSTypes == {"firstimprove", "bestimprove", "tabu", "LNS", "ILS"}

(* The two classes of modellings, and a pointer to neither. *)
Modellings == [class : {"MoveModelling", "LNSMoveModelling", "none"}, move : Moves]

IsList(list, S) == list \in Seq(S) /\ Len(list) <= MaxEntries

OptionsTypeOK ==
  /\ stage \in {"construct", "entries", "modellings", "process", "search", "done",
             "failed", "crashed"}
  /\ IsList(option, Entries) /\ option # <<>>
  /\ lstype \in LSTypes
  /\ IsList(listLSType, LSTypes) /\ IsList(listMoveName, Moves)
  /\ IsList(listmovemodelling, Modellings)
  /\ IsList(ran, LSTypes \X Moves)

OptionsInit ==
  /\ stage = "construct"
  /\ option \in BoundedSeq(Entries, MaxEntries) \ {<<>>}
  /\ lstype = "firstimprove"
  /\ listLSType = <<>> /\ listMoveName = <<>> /\ listmovemodelling = <<>> /\ ran = <<>>

(* Mutants: any type is taken for one; LNS is forgotten. *)
getLSTypeFromString_any(s) == s
getLSTypeFromString_noLNS(s) ==
  IF s \in {"firstimprove", "bestimprove", "tabu"} THEN s ELSE "firstimprove"

(* With a warning for all others. *)
getLSTypeFromString(s) ==
  IF s \in {"firstimprove", "bestimprove", "tabu", "LNS"} THEN s ELSE "firstimprove"

(* The search of the first entry, or ILS if there are more. *)
Construct ==
  /\ stage = "construct" /\ stage' = "entries"
  /\ lstype' = IF Len(option) > 1 THEN "ILS" ELSE getLSTypeFromString(option[1].type)
  /\ UNCHANGED <<option, lists, ran>>

(* The next entry is read; lsoptions[1] of one without a comma is not there. *)
ReadEntry ==
  /\ stage = "entries" /\ Len(listLSType) < Len(option)
  /\ LET entry == option[Len(listLSType) + 1] IN
       IF entry.move = NoMove
         THEN stage' = "crashed" /\ UNCHANGED <<listLSType, listMoveName>>
         ELSE /\ listLSType' = Append(listLSType, getLSTypeFromString(entry.type))
              /\ listMoveName' = Append(listMoveName, entry.move)
              /\ UNCHANGED stage
  /\ UNCHANGED <<option, lstype, listmovemodelling, ran>>

EndEntries ==
  /\ stage = "entries" /\ Len(listLSType) = Len(option)
  /\ stage' = "modellings"
  /\ UNCHANGED <<option, lstype, lists, ran>>

Needed(move) == IF move \in LNSMoves THEN {"Vmove", "getMove"} ELSE {"Vmove", "Tnext"}

(* Without moves of either kind getMoveModelling ends without a return. *)
ClassOf(move) ==
  IF move \in LNSMoves THEN "LNSMoveModelling"
  ELSE IF Blocks(move) \cap {"getValidMoves", "Tmoves"} # {} THEN "MoveModelling"
  ELSE "none"

(* Mutant: the newest modelling comes first. *)
Added_inFront(modelling) == <<modelling>> \o listmovemodelling

Added(modelling) == Append(listmovemodelling, modelling)

(* readMoveModellings: the next one; a missing block is an exception. *)
ReadMoveModelling ==
  /\ stage = "modellings" /\ Len(listmovemodelling) < Len(listMoveName)
  /\ LET move == listMoveName[Len(listmovemodelling) + 1] IN
       IF Needed(move) \subseteq Blocks(move)
         THEN /\ listmovemodelling' = Added([class |-> ClassOf(move), move |-> move])
              /\ UNCHANGED stage
         ELSE stage' = "failed" /\ UNCHANGED listmovemodelling
  /\ UNCHANGED <<option, lstype, listLSType, listMoveName, ran>>

EndModellings ==
  /\ stage = "modellings" /\ Len(listmovemodelling) = Len(listMoveName)
  /\ stage' = "process"
  /\ UNCHANGED <<option, lstype, lists, ran>>

(* The modellings that are cast must be of the class they are cast to. *)
processInputData ==
  /\ stage = "process"
  /\ LET cast == IF lstype = "LNS" THEN DOMAIN listmovemodelling ELSE {1}
         class == IF lstype = "LNS" THEN "LNSMoveModelling" ELSE "MoveModelling"
     IN  stage' = IF \A i \in cast : listmovemodelling[i].class = class THEN "search" ELSE "crashed"
  /\ UNCHANGED <<option, lstype, lists, ran>>

doSearch ==
  /\ stage = "search" /\ lstype # "ILS"
  /\ ran' = <<<<lstype, listmovemodelling[1].move>>>>
  /\ stage' = "done"
  /\ UNCHANGED <<option, lstype, lists>>

(* There is no case for LNS. *)
EntryType(i) ==
  IF listLSType[i] \in {"bestimprove", "tabu"} THEN listLSType[i] ELSE "firstimprove"

(* ILS constructs the search of an entry, which casts its modelling.  The   *)
(* first round of entries: any later one is alike.                          *)
doSingleNeighbourhoodSearch ==
  /\ stage = "search" /\ lstype = "ILS" /\ Len(ran) < Len(option)
  /\ LET i == Len(ran) + 1 IN
       IF listmovemodelling[i].class = "MoveModelling"
         THEN ran' = Append(ran, <<EntryType(i), listmovemodelling[i].move>>) /\ UNCHANGED stage
         ELSE stage' = "crashed" /\ UNCHANGED ran
  /\ UNCHANGED <<option, lstype, lists>>

(* It stops for lack of time or of improvement. *)
EndILS ==
  /\ stage = "search" /\ lstype = "ILS"
  /\ stage' = "done"
  /\ UNCHANGED <<option, lstype, lists, ran>>

OptionsNext ==
  \/ Construct
  \/ ReadEntry
  \/ EndEntries
  \/ ReadMoveModelling
  \/ EndModellings
  \/ processInputData
  \/ doSearch
  \/ doSingleNeighbourhoodSearch
  \/ EndILS

OptionsSpec == OptionsInit /\ [][OptionsNext]_optionVars

-----------------------------------------------------------------------------

(***************************************************************************)
(* Properties.                                                             *)
(***************************************************************************)

Complete(move) ==
  Needed(move) \subseteq Blocks(move) /\ ClassOf(move) # "none"

(* Options that doLocalSearch is made for: known types, complete moves, LNS *)
(* by itself with an lns move, and no lns move for other types.             *)
WellFormed ==
  \A i \in DOMAIN option :
    /\ option[i].type \in LSTypes \ {"ILS"}
    /\ option[i].move # NoMove /\ Complete(option[i].move)
    /\ option[i].move \in LNSMoves <=> option[i].type = "LNS"
    /\ option[i].type = "LNS" => Len(option) = 1

(* Then no pointer is cast to a wrong class, whatever the entries. *)
WellFormedOptionsRun == WellFormed => stage \notin {"failed", "crashed"}

(* Though types and modellings are read in two loops and picked by a third, *)
(* each search that runs is of the entry's type and with the entry's move.  *)
RunsWhatEntriesSay ==
  WellFormed => \A i \in DOMAIN ran : ran[i] = <<option[i].type, option[i].move>>
=============================================================================
