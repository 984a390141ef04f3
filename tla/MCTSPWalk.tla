----------------------------- MODULE MCTSPWalk -----------------------------
(* TSPWalk on six cities at symmetric distances. *)
EXTENDS TSPWalk

MCCity == 1 .. 6

Place == <<0, 7, 2, 11, 3, 5>>
Height == <<0, 1, 4, 2, 6, 0>>

Abs(x) == IF x < 0 THEN -x ELSE x

(* City-block distances. *)
MCDistance ==
  [p \in MCCity \X MCCity |->
     Abs(Place[p[1]] - Place[p[2]]) + Abs(Height[p[1]] - Height[p[2]])]
=============================================================================
