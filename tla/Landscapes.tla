----------------------------- MODULE Landscapes -----------------------------
(***************************************************************************)
(* Small search problems for model checking.  A move modelling is a        *)
(* landscape: where each move leads from each structure, and what the      *)
(* problem file has for it.  With Modelling <- a set of landscapes TLC     *)
(* checks a search on all of them.                                         *)
(***************************************************************************)
EXTENDS Integers

CONSTANT NoModel

CONSTANTS Structures, MoveTuples   \* two small sets of integers

(* Far enough apart that a delta of -1 or 1 is never exact. *)
Objective(s) == 10 * s

(***************************************************************************)
(* next[s, t] = s stands for "t is not valid in s", NoModel for a move of  *)
(* which Tnext or T has no model.  The blocks of the problem file:         *)
(*   exact  getDeltaObj is the difference of the objectives                *)
(*   signs  getDeltaObj tells improving from other moves by its sign only  *)
(*   wrong  getDeltaObj is -1 for every move                               *)
(*   huge   getDeltaObj is 100000 for every move                           *)
(*   cost   no getDeltaObj, but an exact getNextCost                       *)
(*   theory like exact, and the moves come from a theory Tmoves            *)
(***************************************************************************)
Landscape(blocks) ==
  [next : [Structures \X MoveTuples -> Structures \cup {NoModel}], blocks : blocks]

LandscapeMoves(m, s) == {t \in MoveTuples : m.next[s, t] # s}

LandscapeNeighbor(m, s, t) == m.next[s, t]

LandscapeNextCost(m, s, t) ==
  IF m.next[s, t] = NoModel THEN Objective(s) ELSE Objective(m.next[s, t])

LandscapeDelta(m, s, t) ==
  LET exact == LandscapeNextCost(m, s, t) - Objective(s)
  IN  CASE m.blocks = "wrong" -> -1
        [] m.blocks = "huge"  -> 100000
        [] m.blocks = "signs" -> IF exact < 0 THEN -1 ELSE 1
        [] OTHER              -> exact

LandscapeHasDelta(m) == m.blocks # "cost"
LandscapeByTheory(m) == m.blocks = "theory"
=============================================================================
