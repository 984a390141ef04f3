-------------------------------- MODULE TSP --------------------------------
(***************************************************************************)
(* The problem and the three move modellings of tsp.idp.  A structure is   *)
(* given by its interpretation of dec_Path, a set of pairs of cities; a    *)
(* query is the set it returns and a definition the set it defines.        *)
(***************************************************************************)
EXTENDS Integers, FiniteSets, FiniteSetsExt

CONSTANTS
  City,      \* the type City, a set of integers
  Distance   \* [City \X City -> Nat]

ASSUME CityAssumption == City \subseteq Int /\ IsFiniteSet(City)

ASSUME DistanceIsFunction == Distance \in [City \X City -> Nat]

MIN == CHOOSE c \in City : \A d \in City : c <= d

(* A definition defines the least sets closed under its rules.  That of    *)
(* Reachable: MIN, and where a path leads from it.                         *)
Reachable(P) ==
  LET Closed == {U \in SUBSET City : MIN \in U /\ \A e \in P : e[1] \in U => e[2] \in U}
  IN  {x \in City : \A U \in Closed : x \in U}

(* That of Reach: each city reaches itself and what the next city reaches, *)
(* unless that is MIN.                                                     *)
Reach(P) ==
  LET Closed == {U \in SUBSET City : \A e \in P : e[2] \in U /\ e[2] # MIN => e[1] \in U}
  IN  {p \in City \X City : \A U \in Closed : p[2] \in U => p[1] \in U}

(* Theory T. *)
IsTour(P) ==
  /\ \A x \in City : Cardinality({e \in P : e[1] = x}) = 1
  /\ \A x \in City : Cardinality({e \in P : e[2] = x}) = 1
  /\ \A x \in City : <<x, x>> \notin P
  /\ Reachable(P) = City

(* The models of T: graphs of permutations without fixed points that are   *)
(* one cycle.                                                              *)
Tours ==
  LET Graphs == {{<<c, f[c]>> : c \in City} :
                   f \in {g \in [City -> City] : \A x, y \in City : x # y => g[x] \notin {x, g[y]}}}
  IN  {P \in Graphs : IsTour(P)}

(* Term Obj and query ObjValue. *)
ObjValue(P) == MapThenSumSet(LAMBDA e : Distance[e], P)

(* dec_Path as a function and its inverse. *)
next(P) == [x \in City |-> CHOOSE y \in City : <<x, y>> \in P]
pre(P)  == [x \in City |-> CHOOSE y \in City : <<y, x>> \in P]

-----------------------------------------------------------------------------
(* 2opt: ..A -> B .. C -> D..  becomes  ..A -> C ..reversed.. B -> D..      *)

getDeltaObj_2opt(t) ==
  LET A == t[1]  B == t[2]  C == t[3]  D == t[4]
  IN  Distance[<<A, C>>] + Distance[<<B, D>>] - Distance[<<A, B>>] - Distance[<<C, D>>]

(* Mutant: the edge that leads back to MIN is never replaced. *)
Candidates_2opt_notLastEdge(P) ==
  LET n == next(P)
      R == Reach(P)
  IN  {<<p[1], n[p[1]], p[2], n[p[2]]>> : p \in
         {q \in City \X City : LET a == q[1]
                                   b == n[a]
                                   c == q[2]
                               IN  b # c /\ a # c /\ <<b, c>> \in R /\ b # MIN /\ n[c] # MIN}}

(* Query getValidMoves_2opt without the constraint on the distances. *)
Candidates_2opt(P) ==
  LET n == next(P)
      R == Reach(P)
  IN  {<<p[1], n[p[1]], p[2], n[p[2]]>> : p \in
         {q \in City \X City : LET a == q[1]
                                   b == n[a]
                                   c == q[2]
                               IN  b # c /\ a # c /\ <<b, c>> \in R /\ b # MIN}}

(* Mutant: the rule for "D -> the end" lacks D # MIN. *)
Tnext_2opt_noMIN(P, t) ==
  LET A == t[1]  B == t[2]  C == t[3]  D == t[4]
      R == Reach(P)
  IN  {<<A, C>>, <<B, D>>}
      \cup {e \in P : <<e[2], A>> \in R /\ e[2] # MIN}
      \cup {e \in P : <<D, e[1]>> \in R}
      \cup {<<e[2], e[1]>> : e \in {f \in P : <<B, f[1]>> \in R /\ <<f[2], C>> \in R /\ f[2] # MIN}}

Tnext_2opt(P, t) ==
  LET A == t[1]  B == t[2]  C == t[3]  D == t[4]
      R == Reach(P)
  IN  {<<A, C>>, <<B, D>>}
      \cup {e \in P : <<e[2], A>> \in R /\ e[2] # MIN}
      \cup {e \in P : <<D, e[1]>> \in R /\ D # MIN}
      \cup {<<e[2], e[1]>> : e \in {f \in P : <<B, f[1]>> \in R /\ <<f[2], C>> \in R /\ f[2] # MIN}}

-----------------------------------------------------------------------------
(* oropt1: A moves from between pre_A and next_A to between B and next_B.   *)

(* Mutant: the edge A -> next_A is forgotten. *)
getDeltaObj_oropt1_forgetsEdge(t) ==
  LET A == t[1]  B == t[2]  next_A == t[3]  next_B == t[4]  pre_A == t[5]
  IN  Distance[<<pre_A, next_A>>] + Distance[<<B, A>>] + Distance[<<A, next_B>>]
      - Distance[<<pre_A, A>>] - Distance[<<B, next_B>>]

getDeltaObj_oropt1(t) ==
  LET A == t[1]  B == t[2]  next_A == t[3]  next_B == t[4]  pre_A == t[5]
  IN  Distance[<<pre_A, next_A>>] + Distance[<<B, A>>] + Distance[<<A, next_B>>]
      - Distance[<<pre_A, A>>] - Distance[<<A, next_A>>] - Distance[<<B, next_B>>]

Candidates_oropt1(P) ==
  LET n == next(P)
      R == Reach(P)
  IN  {<<p[1], p[2], n[p[1]], n[p[2]], pre(P)[p[1]]>> : p \in
         {q \in City \X City : q[1] # q[2] /\ q[1] # MIN /\ q \notin P /\ q \in R}}

Tnext_oropt1(P, t) ==
  LET A == t[1]  B == t[2]  next_A == t[3]  next_B == t[4]  pre_A == t[5]
  IN  {<<pre_A, next_A>>, <<B, A>>, <<A, next_B>>}
      \cup {e \in P : e[1] # pre_A /\ e[2] # next_A /\ e[1] # B}

-----------------------------------------------------------------------------
(* oropt2: A -> B moves, reversed, to between C and D.                      *)

getDeltaObj_oropt2(t) ==
  LET A == t[1]  B == t[2]  C == t[3]  D == t[4]  next_B == t[5]  pre_A == t[6]
  IN  Distance[<<pre_A, next_B>>] + Distance[<<C, B>>] + Distance[<<B, A>>] + Distance[<<A, D>>]
      - Distance[<<pre_A, A>>] - Distance[<<A, B>>] - Distance[<<B, next_B>>] - Distance[<<C, D>>]

Candidates_oropt2(P) ==
  LET n == next(P)
      R == Reach(P)
  IN  {<<p[1], n[p[1]], p[2], n[p[2]], n[n[p[1]]], pre(P)[p[1]]>> : p \in
         {q \in City \X City : LET a == q[1]
                                   b == n[a]
                                   nextb == n[b]
                                   c == q[2]
                               IN  <<nextb, c>> \in R /\ nextb # c /\ MIN \notin {a, b, nextb}}}

Tnext_oropt2(P, t) ==
  LET A == t[1]  B == t[2]  C == t[3]  D == t[4]  next_B == t[5]  pre_A == t[6]
  IN  {<<pre_A, next_B>>, <<C, B>>, <<B, A>>, <<A, D>>}
      \cup {e \in P : e[1] \notin {pre_A, A, B, C}}

-----------------------------------------------------------------------------
(* The blocks of move modelling m, found by the name m. *)

Moves == {"2opt", "oropt1", "oropt2"}

getDeltaObj(m, t) ==
  CASE m = "2opt"   -> getDeltaObj_2opt(t)
    [] m = "oropt1" -> getDeltaObj_oropt1(t)
    [] m = "oropt2" -> getDeltaObj_oropt2(t)

Candidates(m, P) ==
  CASE m = "2opt"   -> Candidates_2opt(P)
    [] m = "oropt1" -> Candidates_oropt1(P)
    [] m = "oropt2" -> Candidates_oropt2(P)

(* Every query getValidMoves_m keeps the candidates with a negative delta. *)
getValidMoves(m, P) == {t \in Candidates(m, P) : getDeltaObj(m, t) < 0}

Tnext(m, P, t) ==
  CASE m = "2opt"   -> Tnext_2opt(P, t)
    [] m = "oropt1" -> Tnext_oropt1(P, t)
    [] m = "oropt2" -> Tnext_oropt2(P, t)
=============================================================================
