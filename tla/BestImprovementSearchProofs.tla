--------------------- MODULE BestImprovementSearchProofs ---------------------
(***************************************************************************)
(* In two parts.  The first is about the move modellings of tsp.idp: that  *)
(* each move keeps tours, that the deltas are exact and that 2opt misses   *)
(* no tour that differs in two edges, on every instance.  A tour is there  *)
(* a function that goes once round the cities, Reach the order from MIN,   *)
(* and ObjValue a sum.                                                     *)
(*                                                                         *)
(* The second is about the search.  Where every delta is exact, the sum of *)
(* deltas that best improvement keeps is the objective of the current      *)
(* solution, and from that follow its steepest descent, where it stops and *)
(* what it returns.  Both meet in the last theorem.                        *)
(***************************************************************************)
EXTENDS BestImprovementSearch, TSPSearch, TSPWalk,
        FiniteSetTheorems, WellFoundedInduction, TLAPS

-----------------------------------------------------------------------------
(* Induction.  The natural numbers are well-founded, so a set of finite     *)
(* sets that a least one would have to enter is entered by none.            *)

LessThan == {p \in Nat \X Nat : p[1] < p[2]}

LEMMA LeastNatural ==
  ASSUME NEW T \in SUBSET Nat, T # {}
  PROVE  \E n \in T : \A m \in T : n <= m
<1>1. OpToRel(<, Nat) = LessThan
  BY DEF OpToRel, LessThan
<1>2. IsWellFoundedOn(LessThan, Nat)
  BY <1>1, NatLessThanWellFounded
<1>3. PICK n \in T : \A m \in T : <<m, n>> \notin LessThan
  BY <1>2, WFMin
<1>4. \A m \in T : n \in Nat /\ m \in Nat /\ ~(m < n)
  BY <1>3 DEF LessThan
<1> QED
  BY <1>4

(* What holds of the empty set and of a set with one more element of S     *)
(* whenever it holds of the set, holds of the finite set S.                *)
LEMMA FiniteInduction ==
  ASSUME NEW S, IsFiniteSet(S), NEW Holds \in SUBSET SUBSET S,
         {} \in Holds, \A T \in Holds : \A x \in S \ T : T \cup {x} \in Holds
  PROVE  S \in Holds
<1> DEFINE Missing == {Cardinality(S \ T) : T \in Holds}
<1>1. \A T \in SUBSET S : IsFiniteSet(S \ T) /\ Cardinality(S \ T) \in Nat
  BY FS_Difference, FS_CardinalityType
<1>2. Missing \in SUBSET Nat /\ Missing # {}
  BY <1>1
<1>3. PICK T \in Holds : \A U \in Holds : Cardinality(S \ T) <= Cardinality(S \ U)
  <2> HIDE DEF Missing
  <2>1. PICK n \in Missing : \A m \in Missing : n <= m
    BY <1>2, LeastNatural
  <2> QED
    BY <2>1 DEF Missing
<1>4. S \ T = {}
  <2> SUFFICES ASSUME NEW x \in S \ T PROVE FALSE
    OBVIOUS
  <2>1. T \cup {x} \in Holds /\ S \ (T \cup {x}) = (S \ T) \ {x}
    OBVIOUS
  <2>2. IsFiniteSet(S \ T) /\ x \in S \ T /\ Cardinality(S \ T) \in Nat
    BY <1>1
  <2> DEFINE Rest == S \ T
  <2>3. Cardinality(Rest \ {x}) = Cardinality(Rest) - 1
    <3> HIDE DEF Rest
    <3>1. IsFiniteSet(Rest) /\ x \in Rest
      BY <2>2 DEF Rest
    <3> QED
      BY <3>1, FS_RemoveElement
  <2>4. Cardinality(S \ T) <= Cardinality(Rest \ {x})
    BY <1>3, <2>1
  <2> QED
    BY <2>2, <2>3, <2>4
<1> QED
  BY <1>4

(* A finite set has an element at which a function to the integers is least. *)
LEMMA LeastValue ==
  ASSUME NEW S, IsFiniteSet(S), S # {}, NEW f, \A x \in S : f[x] \in Int
  PROVE  \E x \in S : \A y \in S : f[x] <= f[y]
<1> DEFINE Holds == {T \in SUBSET S : T = {} \/ \E x \in T : \A y \in T : f[x] <= f[y]}
<1>1. {} \in Holds
  OBVIOUS
<1>2. ASSUME NEW T \in Holds, NEW z \in S \ T
      PROVE  T \cup {z} \in Holds
  <2>1. CASE T = {}
    BY <2>1
  <2>2. CASE T # {}
    <3>1. PICK x \in T : \A y \in T : f[x] <= f[y]
      BY <2>2
    <3>2. CASE f[x] <= f[z]
      <4>1. x \in T \cup {z} /\ \A y \in T \cup {z} : f[x] <= f[y]
        BY <3>1, <3>2
      <4> QED
        BY <4>1
    <3>3. CASE ~(f[x] <= f[z])
      <4>1. z \in T \cup {z} /\ \A y \in T \cup {z} : f[z] <= f[y]
        BY <3>1, <3>3
      <4> QED
        BY <4>1
    <3> QED
      BY <3>2, <3>3
  <2> QED
    BY <2>1, <2>2
<1>3. S \in Holds
  <2> HIDE DEF Holds
  <2>1. Holds \in SUBSET SUBSET S
    BY DEF Holds
  <2> QED
    BY <1>1, <1>2, <2>1, FiniteInduction
<1> QED
  BY <1>3

LEMMA MINType ==
  ASSUME City # {}
  PROVE  MIN \in City
<1>1. \E c \in City : \A d \in City : [x \in City |-> x][c] <= [x \in City |-> x][d]
  BY CityAssumption, LeastValue
<1> QED
  BY <1>1 DEF MIN

-----------------------------------------------------------------------------
(* Tours as functions. *)

(* f goes once round all cities. *)
IsCycle(f) ==
  /\ f \in [City -> City]
  /\ \A x, y \in City : f[x] = f[y] => x = y
  /\ \A y \in City : \E x \in City : f[x] = y
  /\ \A x \in City : f[x] # x
  /\ \A U \in SUBSET City : MIN \in U /\ (\A x \in U : f[x] \in U) => U = City

(* dec_Path(x, y) holds where y follows x. *)
IsGraph(P, f) == P \subseteq City \X City /\ \A x, y \in City : <<x, y>> \in P <=> y = f[x]

LEMMA EdgesAreFinite ==
  ASSUME NEW P, P \subseteq City \X City
  PROVE  IsFiniteSet(P) /\ Cardinality(P) \in Nat
  BY CityAssumption, FS_Product, FS_Subset, FS_CardinalityType

(* One edge leaves each city, and one enters it. *)
LEMMA TourIsCycle ==
  ASSUME NEW P, P \subseteq City \X City, IsTour(P)
  PROVE  IsGraph(P, next(P)) /\ IsCycle(next(P))
<1> DEFINE n == next(P)
<1>1. \A x \in City : \E y \in City : <<x, y>> \in P /\ \A z \in City : <<x, z>> \in P => z = y
  <2> SUFFICES ASSUME NEW x \in City
               PROVE  \E y \in City : <<x, y>> \in P /\ \A z \in City : <<x, z>> \in P => z = y
    OBVIOUS
  <2>1. PICK e : {d \in P : d[1] = x} = {e}
    <3>1. IsFiniteSet({d \in P : d[1] = x})
      BY EdgesAreFinite, FS_Subset
    <3> QED
      BY <3>1, FS_Singleton DEF IsTour
  <2>2. e \in P /\ e[1] = x /\ e[2] \in City /\ e = <<x, e[2]>>
    BY <2>1
  <2>3. ASSUME NEW z \in City, <<x, z>> \in P
        PROVE  z = e[2]
    BY <2>1, <2>3
  <2> QED
    BY <2>2, <2>3
<1>2. \A y \in City : \E x \in City : <<x, y>> \in P /\ \A z \in City : <<z, y>> \in P => z = x
  <2> SUFFICES ASSUME NEW y \in City
               PROVE  \E x \in City : <<x, y>> \in P /\ \A z \in City : <<z, y>> \in P => z = x
    OBVIOUS
  <2>1. PICK e : {d \in P : d[2] = y} = {e}
    <3>1. IsFiniteSet({d \in P : d[2] = y})
      BY EdgesAreFinite, FS_Subset
    <3> QED
      BY <3>1, FS_Singleton DEF IsTour
  <2>2. e \in P /\ e[2] = y /\ e[1] \in City /\ e = <<e[1], y>>
    BY <2>1
  <2>3. ASSUME NEW z \in City, <<z, y>> \in P
        PROVE  z = e[1]
    BY <2>1, <2>3
  <2> QED
    BY <2>2, <2>3
<1>3. n \in [City -> City] /\ \A x, y \in City : <<x, y>> \in P <=> y = n[x]
  BY <1>1 DEF next
<1>4. IsGraph(P, n)
  BY <1>3 DEF IsGraph
<1> HIDE DEF n
<1>5. \A x, y \in City : n[x] = n[y] => x = y
  BY <1>2, <1>3
<1>6. \A y \in City : \E x \in City : n[x] = y
  BY <1>2, <1>3
<1>7. \A x \in City : n[x] # x
  BY <1>3 DEF IsTour
<1>8. ASSUME NEW U \in SUBSET City, MIN \in U, \A x \in U : n[x] \in U
      PROVE  U = City
  <2>1. \A e \in P : e[1] \in U => e[2] \in U
    BY <1>3, <1>8
  <2>2. Reachable(P) \subseteq U
    BY <1>8, <2>1 DEF Reachable
  <2> QED
    BY <2>2 DEF IsTour
<1>9. IsCycle(n)
  BY <1>3, <1>5, <1>6, <1>7, <1>8 DEF IsCycle
<1> QED
  BY <1>4, <1>9 DEF n

LEMMA CycleIsTour ==
  ASSUME NEW P, NEW f, IsGraph(P, f), IsCycle(f)
  PROVE  IsTour(P)
<1>1. /\ f \in [City -> City] /\ P \subseteq City \X City
      /\ \A x, y \in City : <<x, y>> \in P <=> y = f[x]
      /\ \A x, y \in City : f[x] = f[y] => x = y
  BY DEF IsGraph, IsCycle
<1>2. ASSUME NEW x \in City
      PROVE  Cardinality({e \in P : e[1] = x}) = 1
  <2>1. {e \in P : e[1] = x} = {<<x, f[x]>>}
    BY <1>1
  <2> QED
    BY <2>1, FS_Singleton
<1>3. ASSUME NEW y \in City
      PROVE  Cardinality({e \in P : e[2] = y}) = 1
  <2>1. PICK x \in City : f[x] = y
    BY DEF IsCycle
  <2>2. {e \in P : e[2] = y} = {<<x, y>>}
    BY <1>1, <2>1
  <2> QED
    BY <2>2, FS_Singleton
<1>4. \A x \in City : <<x, x>> \notin P
  BY <1>1 DEF IsCycle
<1>5. ASSUME NEW U \in SUBSET City, MIN \in U, \A e \in P : e[1] \in U => e[2] \in U
      PROVE  U = City
  <2>1. \A x \in U : f[x] \in U
    <3> SUFFICES ASSUME NEW x \in U PROVE f[x] \in U
      OBVIOUS
    <3>1. <<x, f[x]>> \in P
      BY <1>1
    <3> QED
      BY <1>5, <3>1
  <2> QED
    BY <1>5, <2>1 DEF IsCycle
<1>6. Reachable(P) = City
  BY <1>5 DEF Reachable
<1> QED
  BY <1>2, <1>3, <1>4, <1>6 DEF IsTour

-----------------------------------------------------------------------------
(* Reach, on a tour, is the order in which the cities follow MIN. *)

LEMMA ReachRules ==
  ASSUME NEW P, NEW f, IsGraph(P, f), IsCycle(f), NEW R, R = Reach(P)
  PROVE  /\ \A x \in City : <<x, x>> \in R
         /\ \A x, y \in City : f[x] # MIN /\ <<f[x], y>> \in R => <<x, y>> \in R
         /\ \A x, y \in City : \A U \in SUBSET City :
              /\ <<x, y>> \in R /\ y \in U
              /\ \A z \in City : f[z] \in U /\ f[z] # MIN => z \in U
              => x \in U
<1> DEFINE Closed == {U \in SUBSET City : \A z \in City : f[z] \in U /\ f[z] # MIN => z \in U}
<1>1. {U \in SUBSET City : \A e \in P : e[2] \in U /\ e[2] # MIN => e[1] \in U} = Closed
  <2>1. ASSUME NEW U \in SUBSET City, \A e \in P : e[2] \in U /\ e[2] # MIN => e[1] \in U,
               NEW z \in City, f[z] \in U, f[z] # MIN
        PROVE  z \in U
    <3>1. <<z, f[z]>> \in P
      BY DEF IsGraph, IsCycle
    <3> QED
      BY <2>1, <3>1
  <2>2. ASSUME NEW U \in SUBSET City, \A z \in City : f[z] \in U /\ f[z] # MIN => z \in U,
               NEW e \in P, e[2] \in U, e[2] # MIN
        PROVE  e[1] \in U
    <3>1. e[1] \in City /\ e[2] \in City /\ e = <<e[1], e[2]>>
      BY DEF IsGraph
    <3>2. e[2] = f[e[1]]
      BY <3>1 DEF IsGraph
    <3> QED
      BY <2>2, <3>1, <3>2
  <2> QED
    BY <2>1, <2>2
<1>2. R = {p \in City \X City : \A U \in Closed : p[2] \in U => p[1] \in U}
  <2> HIDE DEF Closed
  <2> QED
    BY <1>1 DEF Reach
<1>3. \A x, y \in City : <<x, y>> \in R <=> \A U \in Closed : y \in U => x \in U
  <2> HIDE DEF Closed
  <2> QED
    BY <1>2
<1>4. \A x \in City : f[x] \in City
  BY DEF IsCycle
<1> QED
  BY <1>3, <1>4

LEMMA ReachSteps ==
  ASSUME NEW P, NEW f, IsGraph(P, f), IsCycle(f), NEW R, R = Reach(P)
  PROVE  /\ \A x, y \in City : <<x, y>> \in R => x = y \/ (f[x] # MIN /\ <<f[x], y>> \in R)
         /\ \A x, y, z \in City : <<x, y>> \in R /\ <<y, z>> \in R => <<x, z>> \in R
         /\ \A x, y \in City : <<x, y>> \in R /\ f[y] # MIN => <<x, f[y]>> \in R
         /\ \A x, y \in City : <<x, f[y]>> \in R => x = f[y] \/ <<x, y>> \in R
         /\ MIN \in City => \A x \in City : <<x, MIN>> \in R => x = MIN
<1>0. f \in [City -> City] /\ \A x, y \in City : f[x] = f[y] => x = y
  BY DEF IsCycle
<1>1. ASSUME NEW x \in City, NEW y \in City, <<x, y>> \in R
      PROVE  x = y \/ (f[x] # MIN /\ <<f[x], y>> \in R)
  <2> DEFINE U == {z \in City : z = y \/ (f[z] # MIN /\ <<f[z], y>> \in R)}
  <2>1. \A z \in City : f[z] \in U /\ f[z] # MIN => z \in U
    BY <1>0, ReachRules
  <2>2. x \in U
    <3> HIDE DEF U
    <3>1. U \in SUBSET City /\ y \in U
      BY DEF U
    <3> QED
      BY <1>1, <2>1, <3>1, ReachRules
  <2> QED
    BY <2>2
<1>2. ASSUME NEW x \in City, NEW y \in City, NEW z \in City, <<x, y>> \in R, <<y, z>> \in R
      PROVE  <<x, z>> \in R
  <2> DEFINE U == {w \in City : <<w, z>> \in R}
  <2>1. \A w \in City : f[w] \in U /\ f[w] # MIN => w \in U
    BY <1>0, ReachRules
  <2>2. x \in U
    <3> HIDE DEF U
    <3>1. U \in SUBSET City /\ y \in U
      BY <1>2 DEF U
    <3> QED
      BY <1>2, <2>1, <3>1, ReachRules
  <2> QED
    BY <2>2
<1>3. ASSUME NEW x \in City, NEW y \in City, <<x, y>> \in R, f[y] # MIN
      PROVE  <<x, f[y]>> \in R
  <2>1. <<y, f[y]>> \in R
    BY <1>0, <1>3, ReachRules
  <2> QED
    BY <1>0, <1>2, <1>3, <2>1
<1>4. ASSUME NEW x \in City, NEW y \in City, <<x, f[y]>> \in R
      PROVE  x = f[y] \/ <<x, y>> \in R
  <2> DEFINE U == {z \in City : z = f[y] \/ <<z, y>> \in R}
  <2>1. \A z \in City : f[z] \in U /\ f[z] # MIN => z \in U
    BY <1>0, ReachRules
  <2>2. x \in U
    <3> HIDE DEF U
    <3>1. U \in SUBSET City /\ f[y] \in U
      BY <1>0 DEF U
    <3> QED
      BY <1>0, <1>4, <2>1, <3>1, ReachRules
  <2> QED
    BY <2>2
<1>5. ASSUME MIN \in City, NEW x \in City, <<x, MIN>> \in R
      PROVE  x = MIN
  <2>1. \A z \in City : f[z] \in {MIN} /\ f[z] # MIN => z \in {MIN}
    OBVIOUS
  <2>2. {MIN} \in SUBSET City /\ MIN \in {MIN}
    BY <1>5
  <2>3. x \in {MIN}
    BY <1>5, <2>1, <2>2, ReachRules
  <2> QED
    BY <2>3
<1> QED
  BY <1>1, <1>2, <1>3, <1>4, <1>5

(* Reach is a linear order that begins with MIN. *)
LEMMA ReachIsOrder ==
  ASSUME NEW P, NEW f, IsGraph(P, f), IsCycle(f), NEW R, R = Reach(P), MIN \in City
  PROVE  /\ \A x \in City : <<MIN, x>> \in R
         /\ \A x, y \in City : <<x, y>> \in R /\ <<y, x>> \in R => x = y
         /\ \A x, y \in City : <<x, y>> \in R \/ <<y, x>> \in R
<1>0. f \in [City -> City] /\ \A x, y \in City : f[x] = f[y] => x = y
  BY DEF IsCycle
<1>a. \A U \in SUBSET City : MIN \in U /\ (\A x \in U : f[x] \in U) => U = City
  BY DEF IsCycle
<1>1. \A x \in City : <<MIN, x>> \in R
  <2> DEFINE U == {x \in City : <<MIN, x>> \in R}
  <2>1. MIN \in U
    BY ReachRules
  <2>2. \A x \in U : f[x] \in U
    BY <1>0, ReachRules, ReachSteps
  <2>3. U = City
    <3>1. U \in SUBSET City
      OBVIOUS
    <3> HIDE DEF U
    <3> QED
      BY <1>a, <2>1, <2>2, <3>1
  <2> QED
    BY <2>3
<1>2. ASSUME NEW x \in City, NEW y \in City, <<x, y>> \in R, <<y, x>> \in R, x # y
      PROVE  FALSE
  <2> DEFINE Before == {z \in City : ~(<<x, z>> \in R /\ <<z, x>> \in R)}
  <2>1. MIN \in Before
    BY <1>2, ReachSteps
  <2>2. ASSUME NEW z \in Before, f[z] \notin Before
        PROVE  FALSE
    <3>1. z \in City /\ f[z] \in City /\ <<x, f[z]>> \in R /\ <<f[z], x>> \in R
      BY <1>0, <2>2
    <3>2. f[z] # MIN
      BY <2>1, <2>2
    <3>3. <<z, x>> \in R
      BY <3>1, <3>2, ReachRules
    <3>4. <<x, z>> \in R
      <4>1. CASE x = f[z]
        <5>1. <<y, z>> \in R
          BY <1>2, <3>1, <4>1, ReachSteps
        <5> QED
          BY <1>2, <3>1, <5>1, ReachSteps
      <4>2. CASE x # f[z]
        BY <3>1, <4>2, ReachSteps
      <4> QED
        BY <4>1, <4>2
    <3> QED
      BY <3>1, <3>3, <3>4
  <2>3. Before = City
    <3>1. Before \in SUBSET City
      OBVIOUS
    <3> HIDE DEF Before
    <3> QED
      BY <1>a, <2>1, <2>2, <3>1
  <2>4. x \in Before
    BY <2>3
  <2> QED
    BY <2>4, ReachRules
<1>3. ASSUME NEW x \in City
      PROVE  \A y \in City : <<x, y>> \in R \/ <<y, x>> \in R
  <2> DEFINE U == {y \in City : <<x, y>> \in R \/ <<y, x>> \in R}
  <2>1. MIN \in U
    BY <1>1
  <2>2. \A y \in U : f[y] \in U
    <3> SUFFICES ASSUME NEW y \in U PROVE f[y] \in U
      OBVIOUS
    <3>1. y \in City /\ f[y] \in City
      BY <1>0
    <3>2. CASE f[y] = MIN
      BY <2>1, <3>2
    <3>3. CASE f[y] # MIN /\ <<x, y>> \in R
      BY <3>1, <3>3, ReachSteps
    <3>4. CASE <<y, x>> \in R /\ x # y
      BY <3>1, <3>4, ReachSteps
    <3>5. CASE x = y /\ f[y] # MIN
      <4>1. <<x, y>> \in R
        BY <3>5, ReachRules
      <4> QED
        BY <3>1, <3>5, <4>1, ReachSteps
    <3> QED
      BY <3>1, <3>2, <3>3, <3>4, <3>5
  <2>3. U = City
    <3>1. U \in SUBSET City
      OBVIOUS
    <3> HIDE DEF U
    <3> QED
      BY <1>a, <2>1, <2>2, <3>1
  <2> QED
    BY <2>3
<1> QED
  BY <1>1, <1>2, <1>3

LEMMA PreOf ==
  ASSUME NEW P, NEW f, IsGraph(P, f), IsCycle(f), NEW x \in City
  PROVE  pre(P)[x] \in City /\ f[pre(P)[x]] = x
<1>1. PICK z \in City : f[z] = x
  BY DEF IsCycle
<1>2. <<z, x>> \in P
  BY <1>1 DEF IsGraph
<1>3. pre(P)[x] \in City /\ <<pre(P)[x], x>> \in P
  BY <1>2 DEF pre
<1> QED
  BY <1>3 DEF IsGraph

-----------------------------------------------------------------------------
(* The moves, each as what it makes of the function of the tour. *)

(* In the order from MIN, the oropt1 move has  pre_A -> A -> next_A .. B.   *)
LEMMA Oropt1Cities ==
  ASSUME NEW P, P \subseteq City \X City, IsTour(P), NEW n, n = next(P), NEW t \in Candidates_oropt1(P)
  PROVE  \E A, B, E \in City :
           /\ t = <<A, B, n[A], n[B], E>>
           /\ n[E] = A /\ A # MIN /\ n[A] # MIN
           /\ A # B /\ n[A] # B /\ n[A] # E /\ B # E
<1>1. IsGraph(P, n) /\ IsCycle(n)
  BY TourIsCycle
<1> DEFINE R == Reach(P)
<1>2. PICK A \in City, B \in City :
        /\ t = <<A, B, n[A], n[B], pre(P)[A]>>
        /\ A # B /\ A # MIN /\ <<A, B>> \notin P /\ <<A, B>> \in R
  <2>1. PICK p \in {q \in City \X City : q[1] # q[2] /\ q[1] # MIN /\ q \notin P /\ q \in R} :
          t = <<p[1], p[2], n[p[1]], n[p[2]], pre(P)[p[1]]>>
    BY DEF Candidates_oropt1
  <2>2. p = <<p[1], p[2]>> /\ p[1] \in City /\ p[2] \in City
    OBVIOUS
  <2> QED
    BY <2>1, <2>2
<1> HIDE DEF R
<1>3. R = Reach(P) /\ MIN \in City
  BY <1>2, MINType DEF R
<1>4. PICK E \in City : E = pre(P)[A] /\ n[E] = A
  BY <1>1, PreOf
<1>5. n \in [City -> City] /\ n[E] # E /\ n[A] # B
  BY <1>1, <1>2 DEF IsCycle, IsGraph
<1>6. <<E, A>> \in R
  <2>1. <<A, A>> \in R
    BY <1>1, <1>3, ReachRules
  <2> QED
    BY <1>1, <1>2, <1>3, <1>4, <2>1, ReachRules
<1>7. B # E
  BY <1>1, <1>2, <1>3, <1>4, <1>5, <1>6, ReachIsOrder
<1>8. n[A] # MIN /\ <<A, n[A]>> \in R
  <2>1. n[A] # MIN /\ <<n[A], B>> \in R
    BY <1>1, <1>2, <1>3, ReachSteps
  <2>2. <<n[A], n[A]>> \in R
    BY <1>1, <1>3, <1>5, ReachRules
  <2> QED
    BY <1>1, <1>3, <1>5, <2>1, <2>2, ReachRules
<1>9. n[A] # E
  BY <1>1, <1>3, <1>4, <1>5, <1>6, <1>8, ReachIsOrder
<1> QED
  BY <1>2, <1>4, <1>5, <1>7, <1>8, <1>9

LEMMA Oropt1KeepsTour ==
  ASSUME NEW P, P \subseteq City \X City, IsTour(P), NEW t \in Candidates_oropt1(P)
  PROVE  Tnext_oropt1(P, t) \subseteq City \X City /\ IsTour(Tnext_oropt1(P, t))
<1> DEFINE n == next(P)
<1>1. IsGraph(P, n) /\ IsCycle(n)
  BY TourIsCycle
<1> HIDE DEF n
<1>2. PICK A, B, E \in City :
        /\ t = <<A, B, n[A], n[B], E>>
        /\ n[E] = A /\ A # MIN /\ n[A] # MIN
        /\ A # B /\ n[A] # B /\ n[A] # E /\ B # E
  BY Oropt1Cities DEF n
<1>3. /\ n \in [City -> City]
      /\ \A x, y \in City : n[x] = n[y] => x = y
      /\ \A y \in City : \E x \in City : n[x] = y
      /\ \A x \in City : n[x] # x
      /\ P \subseteq City \X City /\ \A x, y \in City : <<x, y>> \in P <=> y = n[x]
  BY <1>1 DEF IsCycle, IsGraph
<1> DEFINE g == [x \in City |-> IF x = E THEN n[A] ELSE IF x = B THEN A ELSE IF x = A THEN n[B] ELSE n[x]]
           Q == Tnext_oropt1(P, t)
<1>4. Q = {<<E, n[A]>>, <<B, A>>, <<A, n[B]>>} \cup {e \in P : e[1] # E /\ e[2] # n[A] /\ e[1] # B}
  BY <1>2 DEF Tnext_oropt1
<1>5. E # A /\ n[B] # A /\ n[B] # n[A]
  BY <1>2, <1>3
<1>6. /\ g \in [City -> City] /\ g[E] = n[A] /\ g[B] = A /\ g[A] = n[B]
      /\ \A x \in City \ {E, A, B} : g[x] = n[x]
  BY <1>2, <1>3, <1>5
<1> HIDE DEF g
<1>7. IsGraph(Q, g)
  <2>1. Q \subseteq City \X City
    BY <1>3, <1>4
  <2>2. ASSUME NEW x \in City, NEW y \in City
        PROVE  <<x, y>> \in Q <=> y = g[x]
    <3>1. CASE x \in {E, A, B}
      BY <1>2, <1>3, <1>4, <1>5, <1>6, <3>1
    <3>2. CASE x \notin {E, A, B}
      <4>1. <<x, y>> \in Q <=> <<x, y>> \in P /\ y # n[A]
        BY <1>4, <3>2
      <4>2. g[x] = n[x] /\ n[x] # n[A]
        BY <1>2, <1>3, <1>6, <3>2
      <4> QED
        BY <1>3, <4>1, <4>2
    <3> QED
      BY <3>1, <3>2
  <2> QED
    BY <2>1, <2>2 DEF IsGraph
<1>8. IsCycle(g)
  <2>1. \A x, y \in City : g[x] = g[y] => x = y
    BY <1>2, <1>3, <1>5, <1>6
  <2>2. ASSUME NEW y \in City
        PROVE  \E x \in City : g[x] = y
    <3>1. CASE y \in {n[A], A, n[B]}
      BY <1>6, <3>1
    <3>2. CASE y \notin {n[A], A, n[B]}
      <4>1. PICK x \in City : n[x] = y
        BY <1>3
      <4>2. x \notin {E, A, B}
        BY <1>2, <3>2, <4>1
      <4> QED
        BY <1>6, <4>1, <4>2
    <3> QED
      BY <3>1, <3>2
  <2>3. \A x \in City : g[x] # x
    BY <1>2, <1>3, <1>5, <1>6
  <2>4. ASSUME NEW V \in SUBSET City, MIN \in V, \A x \in V : g[x] \in V
        PROVE  V = City
    <3> DEFINE U == {x \in City : (x # A /\ x \in V) \/ (x = A /\ E \in V)}
    <3>1. MIN \in U /\ \A x \in U : n[x] \in U
      <4>1. MIN \in U
        BY <1>2, <2>4
      <4>2. ASSUME NEW x \in U
            PROVE  n[x] \in U
        <5>1. CASE x \in {E, A, B}
          BY <1>2, <1>3, <1>5, <1>6, <2>4, <5>1
        <5>2. CASE x \notin {E, A, B}
          <6>1. g[x] = n[x] /\ n[x] # A /\ x \in V
            BY <1>2, <1>3, <1>6, <5>2
          <6> QED
            BY <1>3, <2>4, <6>1
        <5> QED
          BY <5>1, <5>2
      <4> QED
        BY <4>1, <4>2
    <3>2. U = City
      <4>1. U \in SUBSET City
        OBVIOUS
      <4> HIDE DEF U
      <4> QED
        BY <1>1, <3>1, <4>1 DEF IsCycle
    <3>3. B \in V
      BY <1>2, <3>2
    <3>4. A \in V
      BY <1>6, <2>4, <3>3
    <3> QED
      BY <3>2, <3>4
  <2> QED
    BY <1>6, <2>1, <2>2, <2>3, <2>4 DEF IsCycle
<1> QED
  BY <1>7, <1>8, CycleIsTour DEF IsGraph

(* The oropt2 move has  pre_A -> A -> B -> next_B .. C  in the order.       *)
LEMMA Oropt2Cities ==
  ASSUME NEW P, P \subseteq City \X City, IsTour(P), NEW n, n = next(P), NEW t \in Candidates_oropt2(P)
  PROVE  \E A, B, C, E \in City :
           /\ t = <<A, B, C, n[C], n[B], E>>
           /\ n[E] = A /\ n[A] = B
           /\ MIN \notin {A, B, n[B]}
           /\ C \notin {E, A, B, n[B]} /\ n[B] \notin {A, E}
<1>1. IsGraph(P, n) /\ IsCycle(n)
  BY TourIsCycle
<1> DEFINE R == Reach(P)
<1>2. PICK A \in City, C \in City :
        /\ t = <<A, n[A], C, n[C], n[n[A]], pre(P)[A]>>
        /\ <<n[n[A]], C>> \in R /\ n[n[A]] # C /\ MIN \notin {A, n[A], n[n[A]]}
  <2>1. PICK p \in {q \in City \X City : <<n[n[q[1]]], q[2]>> \in R /\ n[n[q[1]]] # q[2]
                                         /\ MIN \notin {q[1], n[q[1]], n[n[q[1]]]}} :
          t = <<p[1], n[p[1]], p[2], n[p[2]], n[n[p[1]]], pre(P)[p[1]]>>
    BY DEF Candidates_oropt2
  <2>2. p[1] \in City /\ p[2] \in City
    OBVIOUS
  <2> QED
    BY <2>1, <2>2
<1> HIDE DEF R
<1>3. R = Reach(P) /\ MIN \in City
  BY <1>2, MINType DEF R
<1>4. PICK E \in City : E = pre(P)[A] /\ n[E] = A
  BY <1>1, PreOf
<1>5. n \in [City -> City] /\ \A x \in City : n[x] # x
  BY <1>1 DEF IsCycle
<1> DEFINE B == n[A]
           N == n[B]
<1>6. B \in City /\ N \in City
  BY <1>5
<1>7. n[A] = B /\ n[B] = N /\ <<N, C>> \in R /\ N # C /\ MIN \notin {A, B, N}
  BY <1>2
<1> HIDE DEF B, N
<1>8. <<B, N>> \in R /\ <<A, B>> \in R /\ <<E, A>> \in R
  <2>1. \A x \in City : <<x, x>> \in R
    BY <1>1, <1>3, ReachRules
  <2>2. \A x \in City : n[x] # MIN => <<x, n[x]>> \in R
    BY <1>1, <1>3, <1>5, <2>1, ReachRules
  <2> QED
    BY <1>4, <1>6, <1>7, <2>2
<1>9. <<B, C>> \in R /\ <<A, C>> \in R /\ <<A, N>> \in R
  BY <1>1, <1>3, <1>6, <1>7, <1>8, ReachSteps
<1>10. \A x, y \in City : <<x, y>> \in R /\ <<y, x>> \in R => x = y
  BY <1>1, <1>3, ReachIsOrder
<1>11. C \notin {E, A, B, N} /\ N \notin {A, E}
  BY <1>4, <1>5, <1>6, <1>7, <1>8, <1>9, <1>10
<1> QED
  BY <1>2, <1>4, <1>6, <1>7, <1>11 DEF B, N

LEMMA Oropt2KeepsTour ==
  ASSUME NEW P, P \subseteq City \X City, IsTour(P), NEW t \in Candidates_oropt2(P)
  PROVE  Tnext_oropt2(P, t) \subseteq City \X City /\ IsTour(Tnext_oropt2(P, t))
<1> DEFINE n == next(P)
<1>1. IsGraph(P, n) /\ IsCycle(n)
  BY TourIsCycle
<1> HIDE DEF n
<1>2. PICK A, B, C, E \in City :
        /\ t = <<A, B, C, n[C], n[B], E>>
        /\ n[E] = A /\ n[A] = B
        /\ MIN \notin {A, B, n[B]}
        /\ C \notin {E, A, B, n[B]} /\ n[B] \notin {A, E}
  BY Oropt2Cities DEF n
<1>3. /\ n \in [City -> City]
      /\ \A x, y \in City : n[x] = n[y] => x = y
      /\ \A y \in City : \E x \in City : n[x] = y
      /\ \A x \in City : n[x] # x
      /\ P \subseteq City \X City /\ \A x, y \in City : <<x, y>> \in P <=> y = n[x]
  BY <1>1 DEF IsCycle, IsGraph
<1> DEFINE g == [x \in City |-> IF x = E THEN n[B] ELSE IF x = C THEN B
                                ELSE IF x = B THEN A ELSE IF x = A THEN n[C] ELSE n[x]]
           Q == Tnext_oropt2(P, t)
<1>4. Q = {<<E, n[B]>>, <<C, B>>, <<B, A>>, <<A, n[C]>>} \cup {e \in P : e[1] \notin {E, A, B, C}}
  BY <1>2 DEF Tnext_oropt2
<1>5. E # A /\ E # B /\ A # B /\ n[C] \notin {A, B, n[B]}
  BY <1>2, <1>3
<1>6. /\ g \in [City -> City] /\ g[E] = n[B] /\ g[C] = B /\ g[B] = A /\ g[A] = n[C]
      /\ \A x \in City \ {E, A, B, C} : g[x] = n[x]
  BY <1>2, <1>3, <1>5
<1> HIDE DEF g
<1>7. IsGraph(Q, g)
  <2>1. Q \subseteq City \X City
    BY <1>3, <1>4
  <2>2. ASSUME NEW x \in City, NEW y \in City
        PROVE  <<x, y>> \in Q <=> y = g[x]
    <3>1. CASE x \in {E, A, B, C}
      BY <1>2, <1>3, <1>4, <1>5, <1>6, <3>1
    <3>2. CASE x \notin {E, A, B, C}
      <4>1. <<x, y>> \in Q <=> <<x, y>> \in P
        BY <1>4, <3>2
      <4> QED
        BY <1>3, <1>6, <3>2, <4>1
    <3> QED
      BY <3>1, <3>2
  <2> QED
    BY <2>1, <2>2 DEF IsGraph
<1>8. IsCycle(g)
  <2>1. \A x, y \in City : g[x] = g[y] => x = y
    BY <1>2, <1>3, <1>5, <1>6
  <2>2. ASSUME NEW y \in City
        PROVE  \E x \in City : g[x] = y
    <3>1. CASE y \in {n[B], B, A, n[C]}
      BY <1>6, <3>1
    <3>2. CASE y \notin {n[B], B, A, n[C]}
      <4>1. PICK x \in City : n[x] = y
        BY <1>3
      <4>2. x \notin {E, A, B, C}
        BY <1>2, <3>2, <4>1
      <4> QED
        BY <1>6, <4>1, <4>2
    <3> QED
      BY <3>1, <3>2
  <2>3. \A x \in City : g[x] # x
    BY <1>2, <1>3, <1>5, <1>6
  <2>4. ASSUME NEW V \in SUBSET City, MIN \in V, \A x \in V : g[x] \in V
        PROVE  V = City
    <3> DEFINE U == {x \in City : (x \notin {A, B} /\ x \in V) \/ (x \in {A, B} /\ E \in V)}
    <3>1. MIN \in U
      BY <1>2, <2>4
    <3>2. ASSUME NEW x \in U
          PROVE  n[x] \in U
      <4>1. CASE x \in {E, A, B}
        BY <1>2, <1>3, <1>5, <1>6, <2>4, <4>1
      <4>2. CASE x = C
        <5>1. A \in V
          BY <1>2, <1>6, <2>4, <4>2
        <5> QED
          BY <1>3, <1>5, <1>6, <2>4, <4>2, <5>1
      <4>3. CASE x \notin {E, A, B, C}
        <5>1. g[x] = n[x] /\ n[x] \notin {A, B} /\ x \in V
          BY <1>2, <1>3, <1>6, <4>3
        <5> QED
          BY <1>3, <2>4, <5>1
      <4> QED
        BY <4>1, <4>2, <4>3
    <3>3. U = City
      <4>1. U \in SUBSET City
        OBVIOUS
      <4> HIDE DEF U
      <4> QED
        BY <1>1, <3>1, <3>2, <4>1 DEF IsCycle
    <3>4. C \in V
      BY <1>2, <3>3
    <3>5. B \in V /\ A \in V
      BY <1>6, <2>4, <3>4
    <3> QED
      BY <3>3, <3>5
  <2> QED
    BY <1>6, <2>1, <2>2, <2>3, <2>4 DEF IsCycle
<1> QED
  BY <1>7, <1>8, CycleIsTour DEF IsGraph

(* 2opt cuts the order at A -> B and C -> D into Before, Seg and After.      *)
LEMMA TwoOptCities ==
  ASSUME NEW P, P \subseteq City \X City, IsTour(P), NEW n, n = next(P), NEW t \in Candidates_2opt(P),
         NEW R, R = Reach(P)
  PROVE  \E A, C \in City :
           /\ t = <<A, n[A], C, n[C]>>
           /\ n[A] # C /\ A # C /\ n[A] # MIN /\ <<n[A], C>> \in R
<1>1. PICK p \in {q \in City \X City : /\ n[q[1]] # q[2] /\ q[1] # q[2]
                                       /\ <<n[q[1]], q[2]>> \in R /\ n[q[1]] # MIN} :
        t = <<p[1], n[p[1]], p[2], n[p[2]]>>
  BY DEF Candidates_2opt
<1>2. p[1] \in City /\ p[2] \in City
  OBVIOUS
<1> QED
  BY <1>1, <1>2

(* What those parts are to the tour n. *)
IsCut(n, A, C, Before, Seg, After) ==
  /\ City = Before \cup Seg \cup After
  /\ Before \cap Seg = {} /\ Before \cap After = {} /\ Seg \cap After = {}
  /\ A \in Before /\ MIN \in Before /\ n[A] \in Seg /\ C \in Seg
  /\ n[C] = MIN \/ n[C] \in After
  /\ \A x \in Before \ {A} : n[x] \in Before /\ n[x] # MIN
  /\ \A x \in Seg \ {C} : n[x] \in Seg
  /\ \A x \in After : n[x] = MIN \/ n[x] \in After
  /\ \A U \in SUBSET City :
       C \in U /\ (\A z \in City : n[z] \in U /\ n[z] # MIN => z \in U) => Seg \subseteq U

LEMMA TwoOptCuts ==
  ASSUME NEW P, NEW n, IsGraph(P, n), IsCycle(n), NEW A \in City, NEW C \in City, NEW R, R = Reach(P),
         n[A] # C, A # C, n[A] # MIN, <<n[A], C>> \in R,
         NEW Before, Before = {x \in City : <<x, A>> \in R},
         NEW Seg, Seg = {x \in City : <<n[A], x>> \in R /\ <<x, C>> \in R},
         NEW After, After = {x \in City : n[C] # MIN /\ <<n[C], x>> \in R}
  PROVE  IsCut(n, A, C, Before, Seg, After)
<1>1. MIN \in City /\ \A x, y \in City : <<x, y>> \in R /\ <<y, x>> \in R => x = y
  BY MINType, ReachIsOrder
<1>2. /\ n \in [City -> City]
      /\ \A x, y \in City : n[x] = n[y] => x = y
      /\ \A x \in City : n[x] # x
  BY DEF IsCycle
<1>3. \A x \in City : <<x, x>> \in R /\ (n[x] # MIN => <<x, n[x]>> \in R)
  <2>1. \A x \in City : <<x, x>> \in R
    BY ReachRules
  <2>2. \A x \in City : n[x] # MIN => <<x, n[x]>> \in R
    BY <1>2, <2>1, ReachRules
  <2> QED
    BY <2>1, <2>2
<1>4. \A x, y \in City : <<x, y>> \in R => x = y \/ (n[x] # MIN /\ <<n[x], y>> \in R)
  BY ReachSteps
<1>5. \A x, y, z \in City : <<x, y>> \in R /\ <<y, z>> \in R => <<x, z>> \in R
  BY ReachSteps
<1>6. <<A, n[A]>> \in R /\ <<A, C>> \in R
  BY <1>2, <1>3, <1>5
<1>7. City = Before \cup Seg \cup After
  <2> SUFFICES ASSUME NEW x \in City, x \notin Before PROVE x \in Seg \cup After
    OBVIOUS
  <2>1. <<A, x>> \in R /\ x # A
    BY <1>1, <1>3, ReachIsOrder
  <2>2. <<n[A], x>> \in R
    BY <1>4, <2>1
  <2>3. <<x, C>> \in R \/ <<C, x>> \in R
    BY <1>1, ReachIsOrder
  <2> QED
    BY <1>3, <1>4, <2>2, <2>3
<1>8. Before \cap Seg = {}
  BY <1>1, <1>2, <1>5, <1>6
<1>9. Before \cap After = {}
  <2> SUFFICES ASSUME NEW x \in City, <<x, A>> \in R, n[C] # MIN, <<n[C], x>> \in R PROVE FALSE
    OBVIOUS
  <2>1. <<C, n[C]>> \in R /\ n[C] \in City
    BY <1>2, <1>3
  <2>2. <<C, A>> \in R
    BY <1>5, <2>1
  <2> QED
    BY <1>1, <1>6, <2>2
<1>10. Seg \cap After = {}
  <2> SUFFICES ASSUME NEW x \in City, <<x, C>> \in R, n[C] # MIN, <<n[C], x>> \in R PROVE FALSE
    OBVIOUS
  <2>1. <<C, n[C]>> \in R /\ n[C] \in City
    BY <1>2, <1>3
  <2> QED
    BY <1>1, <1>2, <1>5, <2>1
<1>11. A \in Before /\ MIN \in Before /\ n[A] \in Seg /\ C \in Seg
  BY <1>1, <1>2, <1>3, ReachIsOrder
<1>12. n[C] = MIN \/ n[C] \in After
  BY <1>2, <1>3
<1>13. \A x \in Before \ {A} : n[x] \in Before /\ n[x] # MIN
  BY <1>2, <1>4
<1>14. \A x \in Seg \ {C} : n[x] \in Seg
  <2> SUFFICES ASSUME NEW x \in Seg, x # C PROVE n[x] \in Seg
    OBVIOUS
  <2>1. n[x] # MIN /\ <<n[x], C>> \in R
    BY <1>4
  <2>2. <<n[A], n[x]>> \in R
    BY <1>2, <1>3, <1>5, <2>1
  <2> QED
    BY <1>2, <2>1, <2>2
<1>15. \A x \in After : n[x] = MIN \/ n[x] \in After
  BY <1>2, <1>3, <1>5
<1>16. ASSUME NEW U \in SUBSET City, C \in U, \A z \in City : n[z] \in U /\ n[z] # MIN => z \in U
       PROVE  Seg \subseteq U
  BY <1>16, ReachRules
<1> QED
  BY <1>7, <1>8, <1>9, <1>10, <1>11, <1>12, <1>13, <1>14, <1>15, <1>16 DEF IsCut

(* Before, the segment backwards, and After make a tour. *)
LEMMA ReversalIsCycle ==
  ASSUME NEW n, IsCycle(n), NEW A \in City, NEW C \in City, NEW Before, NEW Seg, NEW After,
         IsCut(n, A, C, Before, Seg, After),
         NEW g \in [City -> City], g[A] = C, g[n[A]] = n[C],
         \A x \in Seg \ {C} : g[n[x]] = x,
         \A x \in (Before \ {A}) \cup After : g[x] = n[x]
  PROVE  IsCycle(g)
<1> USE DEF IsCut
<1>1. /\ n \in [City -> City]
      /\ \A x, y \in City : n[x] = n[y] => x = y
      /\ \A y \in City : \E x \in City : n[x] = y
      /\ \A x \in City : n[x] # x
  BY DEF IsCycle
<1>2. \A x \in Seg \ {n[A]} : \E z \in Seg \ {C} : n[z] = x
  <2> SUFFICES ASSUME NEW x \in Seg, x # n[A] PROVE \E z \in Seg \ {C} : n[z] = x
    OBVIOUS
  <2>1. PICK z \in City : n[z] = x
    BY <1>1
  <2>2. z \notin Before /\ z \notin After /\ z # C
    BY <2>1
  <2> QED
    BY <2>1, <2>2
<1>3. \A x \in Seg \ {n[A]} : g[x] \in Seg \ {C} /\ n[g[x]] = x
  BY <1>2
<1>4. \A x, y \in City : g[x] = g[y] => x = y
  <2> SUFFICES ASSUME NEW x \in City, NEW y \in City, g[x] = g[y] PROVE x = y
    OBVIOUS
  <2>1. n[C] \notin Seg /\ n[C] # C
    BY <1>1
  <2>2. \A z \in (Before \ {A}) \cup After : g[z] \notin Seg /\ g[z] = n[z] /\ z # C
    OBVIOUS
  <2>3. CASE x \in (Before \ {A}) \cup After
    BY <1>1, <1>3, <2>1, <2>2, <2>3
  <2>4. CASE x \in Seg \ {n[A]}
    BY <1>1, <1>3, <2>1, <2>2, <2>4
  <2>5. CASE x = A \/ x = n[A]
    BY <1>1, <1>3, <2>1, <2>2, <2>5
  <2> QED
    BY <2>3, <2>4, <2>5
<1>5. ASSUME NEW y \in City
      PROVE  \E x \in City : g[x] = y
  <2>1. CASE y = C
    BY <2>1
  <2>2. CASE y \in Seg \ {C}
    BY <1>1, <2>2
  <2>3. CASE y \notin Seg
    <3>1. PICK x \in City : n[x] = y
      BY <1>1
    <3>2. CASE x = C
      BY <1>1, <3>1, <3>2
    <3>3. CASE x # C
      <4>1. x \in (Before \ {A}) \cup After
        BY <2>3, <3>1, <3>3
      <4> QED
        BY <3>1, <4>1
    <3> QED
      BY <3>2, <3>3
  <2> QED
    BY <2>1, <2>2, <2>3
<1>6. \A x \in City : g[x] # x
  BY <1>1, <1>3
<1>7. ASSUME NEW V \in SUBSET City, MIN \in V, \A x \in V : g[x] \in V
      PROVE  V = City
  <2>1. Before \subseteq V
    <3> DEFINE U == V \cup Seg \cup After
    <3>1. MIN \in U /\ U \in SUBSET City
      BY <1>7
    <3>2. \A x \in U : n[x] \in U
      BY <1>7
    <3>3. U = City
      <4> HIDE DEF U
      <4> QED
        BY <3>1, <3>2 DEF IsCycle
    <3> QED
      BY <3>3
  <2>2. Seg \subseteq V
    <3> DEFINE U == V \cup Before \cup After
    <3>1. C \in U /\ U \in SUBSET City
      BY <1>7, <2>1
    <3>2. ASSUME NEW z \in City, n[z] \in U, n[z] # MIN
          PROVE  z \in U
      <4>1. CASE z \in Seg \ {C}
        BY <1>7, <3>2, <4>1
      <4>2. CASE z = C
        BY <3>1, <4>2
      <4> QED
        BY <4>1, <4>2
    <3>3. Seg \subseteq U
      <4> HIDE DEF U
      <4> QED
        BY <3>1, <3>2
    <3> QED
      BY <3>3
  <2>3. n[C] \in V
    BY <1>7, <2>2
  <2>4. \A x \in V : n[x] \in V
    BY <1>7, <2>1, <2>2, <2>3
  <2> QED
    BY <1>7, <2>4 DEF IsCycle
<1> QED
  BY <1>4, <1>5, <1>6, <1>7 DEF IsCycle

(* The edges that leave the cities of S. *)
Edges(n, S) == {<<x, n[x]>> : x \in S}
EdgesBack(n, S) == {<<n[x], x>> : x \in S}

From(P, S) == {e \in P : e[1] \in S}

LEMMA EdgesFrom ==
  ASSUME NEW P, NEW n, IsGraph(P, n), IsCycle(n), NEW S, S \subseteq City
  PROVE  From(P, S) = Edges(n, S)
<1>1. n \in [City -> City] /\ P \subseteq City \X City /\ \A x, y \in City : <<x, y>> \in P <=> y = n[x]
  BY DEF IsCycle, IsGraph
<1>2. ASSUME NEW e \in From(P, S)
      PROVE  e \in Edges(n, S)
  <2>1. e \in P /\ e[1] \in S /\ e[1] \in City /\ e[2] \in City /\ e = <<e[1], e[2]>>
    BY <1>1 DEF From
  <2>2. e[2] = n[e[1]]
    BY <1>1, <2>1
  <2> QED
    BY <2>1, <2>2 DEF Edges
<1>3. ASSUME NEW x \in S
      PROVE  <<x, n[x]>> \in From(P, S)
  BY <1>1 DEF From
<1> QED
  BY <1>2, <1>3 DEF Edges

(* The edges that the definition in Tnext_2opt keeps, reverses and adds.    *)
EdgesSplit(P, R, n, A, C, Before, Seg, After) ==
  /\ {e \in P : <<e[2], A>> \in R /\ e[2] # MIN} = Edges(n, Before \ {A})
  /\ {e \in P : <<n[C], e[1]>> \in R /\ n[C] # MIN} = Edges(n, After)
  /\ {e \in P : <<n[A], e[1]>> \in R /\ <<e[2], C>> \in R /\ e[2] # MIN} = Edges(n, Seg \ {C})

LEMMA TwoOptEdges ==
  ASSUME NEW P, NEW n, IsGraph(P, n), IsCycle(n), NEW A \in City, NEW C \in City, NEW R, R = Reach(P),
         n[A] # C, A # C, n[A] # MIN, <<n[A], C>> \in R,
         NEW Before, Before = {x \in City : <<x, A>> \in R},
         NEW Seg, Seg = {x \in City : <<n[A], x>> \in R /\ <<x, C>> \in R},
         NEW After, After = {x \in City : n[C] # MIN /\ <<n[C], x>> \in R}
  PROVE  EdgesSplit(P, R, n, A, C, Before, Seg, After)
<1>1. IsCut(n, A, C, Before, Seg, After)
  BY TwoOptCuts
<1>2. n \in [City -> City] /\ P \subseteq City \X City /\ \A x, y \in City : <<x, y>> \in P <=> y = n[x]
  BY DEF IsCycle, IsGraph
<1>3. \A x \in City : <<n[x], A>> \in R /\ n[x] # MIN <=> x \in Before \ {A}
  <2> SUFFICES ASSUME NEW x \in City
               PROVE  <<n[x], A>> \in R /\ n[x] # MIN <=> x \in Before \ {A}
    OBVIOUS
  <2>1. <<n[x], A>> \in R /\ n[x] # MIN => <<x, A>> \in R
    BY ReachRules
  <2>2. <<n[A], A>> \notin R
    BY <1>1, <1>2 DEF IsCut
  <2>3. x \in Before \ {A} => <<n[x], A>> \in R /\ n[x] # MIN
    BY <1>1 DEF IsCut
  <2> QED
    BY <2>1, <2>2, <2>3
<1>4. \A x \in City : <<n[A], x>> \in R /\ <<n[x], C>> \in R /\ n[x] # MIN <=> x \in Seg \ {C}
  <2> SUFFICES ASSUME NEW x \in City
               PROVE  <<n[A], x>> \in R /\ <<n[x], C>> \in R /\ n[x] # MIN <=> x \in Seg \ {C}
    OBVIOUS
  <2>1. <<n[x], C>> \in R /\ n[x] # MIN => <<x, C>> \in R
    BY ReachRules
  <2>2. <<n[C], C>> \in R => n[C] = MIN
    <3>1. <<n[C], n[C]>> \in R
      BY <1>2, ReachRules
    <3>2. ASSUME <<n[C], C>> \in R, n[C] # MIN
          PROVE  C \in After
      BY <3>2
    <3> QED
      BY <1>1, <3>2 DEF IsCut
  <2>3. x \in Seg \ {C} => n[x] \in Seg /\ n[x] # MIN
    BY <1>1 DEF IsCut
  <2> QED
    BY <2>1, <2>2, <2>3
<1> DEFINE Kept == {e \in P : <<e[2], A>> \in R /\ e[2] # MIN}
           Rest == {e \in P : <<n[C], e[1]>> \in R /\ n[C] # MIN}
           Turned == {e \in P : <<n[A], e[1]>> \in R /\ <<e[2], C>> \in R /\ e[2] # MIN}
<1>5. \A e \in P : e[1] \in City /\ e[2] = n[e[1]]
  <2> SUFFICES ASSUME NEW e \in P PROVE e[1] \in City /\ e[2] = n[e[1]]
    OBVIOUS
  <2>1. e[1] \in City /\ e[2] \in City /\ e = <<e[1], e[2]>>
    BY <1>2
  <2> QED
    BY <1>2, <2>1
<1>6. Kept = From(P, Before \ {A})
  BY <1>3, <1>5 DEF From
<1>7. Rest = From(P, After)
  BY <1>5 DEF From
<1>8. Turned = From(P, Seg \ {C})
  BY <1>4, <1>5 DEF From
<1>9. Before \ {A} \subseteq City /\ After \subseteq City /\ Seg \ {C} \subseteq City
  OBVIOUS
<1> HIDE DEF Kept, Rest, Turned
<1>10. Kept = Edges(n, Before \ {A}) /\ Rest = Edges(n, After) /\ Turned = Edges(n, Seg \ {C})
  BY <1>6, <1>7, <1>8, <1>9, EdgesFrom
<1> QED
  BY <1>10 DEF Kept, Rest, Turned, EdgesSplit

(* The tour that Tnext_2opt defines. *)
IsTwoOpt(P, t, n, A, C, Before, Seg, After) ==
  /\ n = next(P) /\ A \in City /\ C \in City
  /\ t = <<A, n[A], C, n[C]>> /\ A # C
  /\ IsCut(n, A, C, Before, Seg, After)
  /\ Tnext_2opt(P, t) = {<<A, C>>, <<n[A], n[C]>>}
                         \cup Edges(n, (Before \ {A}) \cup After)
                         \cup EdgesBack(n, Seg \ {C})

LEMMA TwoOptTour ==
  ASSUME NEW P, P \subseteq City \X City, IsTour(P), NEW t \in Candidates_2opt(P)
  PROVE  \E n, A, C, Before, Seg, After : IsTwoOpt(P, t, n, A, C, Before, Seg, After)
<1> DEFINE n == next(P)
           R == Reach(P)
<1>1. IsGraph(P, n) /\ IsCycle(n)
  BY TourIsCycle
<1> HIDE DEF n, R
<1>2. PICK A, C \in City :
        /\ t = <<A, n[A], C, n[C]>>
        /\ n[A] # C /\ A # C /\ n[A] # MIN /\ <<n[A], C>> \in R
  BY TwoOptCities DEF n, R
<1>a. R = Reach(P)
  BY DEF R
<1>3. PICK Before, Seg, After :
        /\ Before = {x \in City : <<x, A>> \in R}
        /\ Seg = {x \in City : <<n[A], x>> \in R /\ <<x, C>> \in R}
        /\ After = {x \in City : n[C] # MIN /\ <<n[C], x>> \in R}
  OBVIOUS
<1>4. IsCut(n, A, C, Before, Seg, After)
  BY <1>1, <1>2, <1>3, <1>a, TwoOptCuts
<1>5. Tnext_2opt(P, t) = {<<A, C>>, <<n[A], n[C]>>}
                         \cup Edges(n, Before \ {A}) \cup Edges(n, After)
                         \cup {<<e[2], e[1]>> : e \in Edges(n, Seg \ {C})}
  <2>1. EdgesSplit(P, R, n, A, C, Before, Seg, After)
    BY <1>1, <1>2, <1>3, <1>a, TwoOptEdges
  <2>2. Tnext_2opt(P, t) =
          {<<A, C>>, <<n[A], n[C]>>}
          \cup {e \in P : <<e[2], A>> \in R /\ e[2] # MIN}
          \cup {e \in P : <<n[C], e[1]>> \in R /\ n[C] # MIN}
          \cup {<<e[2], e[1]>> : e \in {e \in P : <<n[A], e[1]>> \in R /\ <<e[2], C>> \in R /\ e[2] # MIN}}
    BY <1>2 DEF Tnext_2opt, R
  <2> QED
    BY <2>1, <2>2 DEF EdgesSplit
<1>6. {<<e[2], e[1]>> : e \in Edges(n, Seg \ {C})} = EdgesBack(n, Seg \ {C})
  <2>1. \A x \in Seg \ {C} : <<x, n[x]>> \in Edges(n, Seg \ {C})
                            /\ <<<<x, n[x]>>[2], <<x, n[x]>>[1]>> = <<n[x], x>>
    BY DEF Edges
  <2>2. \A e \in Edges(n, Seg \ {C}) : \E x \in Seg \ {C} : <<e[2], e[1]>> = <<n[x], x>>
    BY DEF Edges
  <2>3. \A x \in Seg \ {C} : <<n[x], x>> \in {<<e[2], e[1]>> : e \in Edges(n, Seg \ {C})}
    BY <2>1
  <2>4. \A d \in {<<e[2], e[1]>> : e \in Edges(n, Seg \ {C})} : d \in EdgesBack(n, Seg \ {C})
    BY <2>2 DEF EdgesBack
  <2> QED
    BY <2>3, <2>4 DEF EdgesBack
<1>7. Edges(n, Before \ {A}) \cup Edges(n, After) = Edges(n, (Before \ {A}) \cup After)
  BY DEF Edges
<1>8. IsTwoOpt(P, t, n, A, C, Before, Seg, After)
  BY <1>2, <1>4, <1>5, <1>6, <1>7 DEF n, IsTwoOpt
<1> QED
  BY <1>8

LEMMA TwoOptKeepsTour ==
  ASSUME NEW P, P \subseteq City \X City, IsTour(P), NEW t \in Candidates_2opt(P)
  PROVE  Tnext_2opt(P, t) \subseteq City \X City /\ IsTour(Tnext_2opt(P, t))
<1>0. PICK n, A, C, Before, Seg, After : IsTwoOpt(P, t, n, A, C, Before, Seg, After)
  BY TwoOptTour
<1>1. /\ n = next(P) /\ A \in City /\ C \in City
      /\ A # C /\ IsCut(n, A, C, Before, Seg, After)
      /\ Tnext_2opt(P, t) = {<<A, C>>, <<n[A], n[C]>>}
                             \cup Edges(n, (Before \ {A}) \cup After)
                             \cup EdgesBack(n, Seg \ {C})
  BY <1>0 DEF IsTwoOpt
<1>2. IsCycle(n)
  BY <1>1, TourIsCycle
<1>3. /\ n \in [City -> City]
      /\ \A x, y \in City : n[x] = n[y] => x = y
      /\ \A y \in City : \E x \in City : n[x] = y
  BY <1>2 DEF IsCycle
<1> DEFINE Q == Tnext_2opt(P, t)
           back == [y \in City |-> CHOOSE x \in City : n[x] = y]
           g == [x \in City |-> IF x = A THEN C ELSE IF x = n[A] THEN n[C]
                                ELSE IF x \in Seg THEN back[x] ELSE n[x]]
<1>4. back \in [City -> City] /\ \A x \in City : back[n[x]] = x /\ n[back[x]] = x
  <2>1. \A y \in City : back[y] \in City /\ n[back[y]] = y
    BY <1>3
  <2> QED
    BY <1>3, <2>1
<1> HIDE DEF back
<1>5. /\ g \in [City -> City] /\ g[A] = C /\ g[n[A]] = n[C]
      /\ \A x \in Seg \ {C} : g[n[x]] = x
      /\ \A x \in (Before \ {A}) \cup After : g[x] = n[x]
  <2>1. n[A] # A /\ n[A] \in Seg /\ Seg \subseteq City /\ A \notin Seg
    BY <1>1 DEF IsCut
  <2>2. g \in [City -> City] /\ g[A] = C /\ g[n[A]] = n[C]
    BY <1>1, <1>3, <1>4, <2>1
  <2>3. \A x \in Seg \ {C} : g[n[x]] = x
    <3> SUFFICES ASSUME NEW x \in Seg \ {C} PROVE g[n[x]] = x
      OBVIOUS
    <3>1. n[x] \in Seg /\ n[x] # A /\ n[x] # n[A] /\ x \in City
      BY <1>1, <1>3, <2>1 DEF IsCut
    <3> QED
      BY <1>4, <2>1, <3>1
  <2>4. \A x \in (Before \ {A}) \cup After : x \in City /\ x # A /\ x # n[A] /\ x \notin Seg
    BY <1>1 DEF IsCut
  <2> QED
    BY <2>2, <2>3, <2>4
<1> HIDE DEF g
<1>6. IsCycle(g)
  BY <1>1, <1>2, <1>5, ReversalIsCycle
<1>7. Q = Edges(g, City)
  <2>1. City = {A} \cup {n[A]} \cup ((Before \ {A}) \cup After) \cup {n[x] : x \in Seg \ {C}}
    <3>1. \A y \in Seg \ {n[A]} : \E x \in Seg \ {C} : n[x] = y
      <4> SUFFICES ASSUME NEW y \in Seg, y # n[A] PROVE \E x \in Seg \ {C} : n[x] = y
        OBVIOUS
      <4>1. PICK x \in City : n[x] = y
        BY <1>1, <1>3 DEF IsCut
      <4>2. x \notin Before /\ x \notin After /\ x # C
        BY <1>1, <4>1 DEF IsCut
      <4> QED
        BY <1>1, <4>1, <4>2 DEF IsCut
    <3>2. \A x \in Seg \ {C} : n[x] \in City
      BY <1>1, <1>3 DEF IsCut
    <3>3. n[A] \in City /\ City = Before \cup Seg \cup After
      BY <1>1, <1>3 DEF IsCut
    <3> QED
      BY <1>1, <3>1, <3>2, <3>3
  <2>2. EdgesBack(n, Seg \ {C}) = Edges(g, {n[x] : x \in Seg \ {C}})
    BY <1>5 DEF Edges, EdgesBack
  <2>3. Edges(n, (Before \ {A}) \cup After) = Edges(g, (Before \ {A}) \cup After)
    BY <1>5 DEF Edges
  <2>4. {<<A, C>>, <<n[A], n[C]>>} = Edges(g, {A}) \cup Edges(g, {n[A]})
    BY <1>5 DEF Edges
  <2>5. Q = Edges(g, {A}) \cup Edges(g, {n[A]}) \cup Edges(g, (Before \ {A}) \cup After)
            \cup Edges(g, {n[x] : x \in Seg \ {C}})
    BY <1>1, <2>2, <2>3, <2>4
  <2> QED
    BY <2>1, <2>5 DEF Edges
<1>8. IsGraph(Q, g)
  BY <1>5, <1>7 DEF IsGraph, Edges
<1> QED
  BY <1>6, <1>8, CycleIsTour DEF IsGraph

-----------------------------------------------------------------------------
(* The sum that ObjValue is.                                                *)

IsSum(W, X) ==
  /\ W \in [SUBSET X -> Nat]
  /\ W[{}] = 0
  /\ \A T \in SUBSET X : \A x \in X \ T : W[T \cup {x}] = W[T] + Distance[x]

Pairs == City \X City

LEMMA SumsExist == \E W : IsSum(W, Pairs)
<1> DEFINE Holds == {T \in SUBSET Pairs : \E W : IsSum(W, T)}
<1>1. {} \in Holds
  <2>1. IsSum([T \in SUBSET {} |-> 0], {})
    BY DEF IsSum
  <2> QED
    BY <2>1
<1>2. ASSUME NEW T \in Holds, NEW z \in Pairs \ T
      PROVE  T \cup {z} \in Holds
  <2>1. PICK W : IsSum(W, T)
    OBVIOUS
  <2> DEFINE X == T \cup {z}
             V == [U \in SUBSET X |-> IF z \in U THEN W[U \ {z}] + Distance[z] ELSE W[U]]
  <2>2. Distance[z] \in Nat
    BY DistanceIsFunction DEF Pairs
  <2>3. W \in [SUBSET T -> Nat] /\ W[{}] = 0
        /\ \A U \in SUBSET T : \A x \in T \ U : W[U \cup {x}] = W[U] + Distance[x]
    BY <2>1 DEF IsSum
  <2>4. V \in [SUBSET X -> Nat]
    <3> SUFFICES ASSUME NEW U \in SUBSET X
                 PROVE  (IF z \in U THEN W[U \ {z}] + Distance[z] ELSE W[U]) \in Nat
      OBVIOUS
    <3>1. CASE z \in U
      <4>1. U \ {z} \in SUBSET T
        OBVIOUS
      <4>2. W[U \ {z}] \in Nat
        BY <2>3, <4>1
      <4> QED
        BY <2>2, <3>1, <4>2
    <3>2. CASE z \notin U
      <4>1. U \in SUBSET T
        BY <3>2
      <4> QED
        BY <2>3, <3>2, <4>1
    <3> QED
      BY <3>1, <3>2
  <2>5. V[{}] = 0
    BY <2>3
  <2>6. ASSUME NEW U \in SUBSET X, NEW x \in X \ U
        PROVE  V[U \cup {x}] = V[U] + Distance[x]
    <3>1. U \cup {x} \in SUBSET X
      OBVIOUS
    <3>2. CASE x = z
      <4>1. (U \cup {x}) \ {z} = U /\ z \notin U /\ z \in U \cup {x}
        BY <3>2
      <4> QED
        BY <3>1, <3>2, <4>1
    <3>3. CASE x # z /\ z \in U
      <4>1. (U \cup {x}) \ {z} = (U \ {z}) \cup {x} /\ U \ {z} \in SUBSET T /\ x \in T \ (U \ {z})
        BY <3>3
      <4>2. W[(U \ {z}) \cup {x}] = W[U \ {z}] + Distance[x]
        BY <2>3, <4>1
      <4>3. V[U \cup {x}] = W[(U \ {z}) \cup {x}] + Distance[z] /\ V[U] = W[U \ {z}] + Distance[z]
        BY <3>1, <3>3, <4>1
      <4>4. W[U \ {z}] \in Nat /\ Distance[x] \in Nat
        BY <2>3, <4>1, DistanceIsFunction DEF Pairs
      <4> HIDE DEF V
      <4> QED
        BY <2>2, <4>2, <4>3, <4>4
    <3>4. CASE x # z /\ z \notin U
      <4>1. U \in SUBSET T /\ x \in T \ U /\ z \notin U \cup {x}
        BY <3>4
      <4> QED
        BY <2>3, <3>1, <4>1
    <3> QED
      BY <3>2, <3>3, <3>4
  <2>7. IsSum(V, X)
    <3> HIDE DEF V, X
    <3> QED
      BY <2>4, <2>5, <2>6 DEF IsSum
  <2> QED
    BY <2>7
<1>3. Pairs \in Holds
  <2> HIDE DEF Holds
  <2>1. Holds \in SUBSET SUBSET Pairs
    BY DEF Holds
  <2>2. IsFiniteSet(Pairs)
    BY EdgesAreFinite DEF Pairs
  <2> QED
    BY <1>1, <1>2, <2>1, <2>2, FiniteInduction
<1> QED
  BY <1>3

(* What MapThenFoldSet recurs on. *)
IsFold(iter, P) ==
  iter = [s \in SUBSET P |-> IF s = {} THEN 0
                             ELSE Distance[CHOOSE x \in s : TRUE] + iter[s \ {CHOOSE x \in s : TRUE}]]

LEMMA ObjValueIsSum ==
  ASSUME NEW W, IsSum(W, Pairs), NEW P \in SUBSET Pairs
  PROVE  ObjValue(P) = W[P]
<1> DEFINE fold == CHOOSE iter : IsFold(iter, P)
<1>1. ObjValue(P) = fold[P]
  BY DEF ObjValue, MapThenSumSet, MapThenFoldSet, IsFold
<1>2. ASSUME NEW s \in SUBSET P, s # {}
      PROVE  LET x == CHOOSE y \in s : TRUE IN
               /\ x \in s /\ Distance[x] \in Nat /\ W[s \ {x}] \in Nat
               /\ W[s] = Distance[x] + W[s \ {x}]
  <2> DEFINE x == CHOOSE y \in s : TRUE
  <2>1. x \in s
    BY <1>2
  <2> HIDE DEF x
  <2>2. s \ {x} \in SUBSET Pairs /\ x \in Pairs \ (s \ {x}) /\ (s \ {x}) \cup {x} = s
    BY <2>1
  <2>3. W[s] = W[s \ {x}] + Distance[x] /\ W[s \ {x}] \in Nat
    BY <2>2 DEF IsSum
  <2>4. Distance[x] \in Nat
    BY <2>2, DistanceIsFunction DEF Pairs
  <2>5. W[s] = Distance[x] + W[s \ {x}]
    BY <2>3, <2>4
  <2> QED
    BY <2>1, <2>3, <2>4, <2>5 DEF x
<1>3. IsFold([s \in SUBSET P |-> W[s]], P)
  <2> DEFINE w == [s \in SUBSET P |-> W[s]]
             v == [s \in SUBSET P |-> IF s = {} THEN 0
                                      ELSE Distance[CHOOSE x \in s : TRUE] + w[s \ {CHOOSE x \in s : TRUE}]]
  <2>1. ASSUME NEW s \in SUBSET P
        PROVE  w[s] = v[s]
    <3>1. CASE s = {}
      BY <3>1 DEF IsSum
    <3>2. CASE s # {}
      <4>1. s \ {CHOOSE x \in s : TRUE} \in SUBSET P
        OBVIOUS
      <4>2. w[s \ {CHOOSE x \in s : TRUE}] = W[s \ {CHOOSE x \in s : TRUE}] /\ w[s] = W[s]
        BY <4>1
      <4>3. v[s] = Distance[CHOOSE x \in s : TRUE] + w[s \ {CHOOSE x \in s : TRUE}]
        BY <3>2
      <4> HIDE DEF w, v
      <4> QED
        BY <1>2, <3>2, <4>2, <4>3
    <3> QED
      BY <3>1, <3>2
  <2>2. w = v
    BY <2>1
  <2> QED
    BY <2>2 DEF IsFold
<1>4. IsFold(fold, P)
  BY <1>3
<1> HIDE DEF fold
<1>5. ASSUME NEW s \in SUBSET P
      PROVE  fold[s] = IF s = {} THEN 0
                       ELSE Distance[CHOOSE x \in s : TRUE] + fold[s \ {CHOOSE x \in s : TRUE}]
  BY <1>4 DEF IsFold
<1> DEFINE Wrong == {s \in SUBSET P : fold[s] # W[s]}
<1>6. ASSUME NEW s \in SUBSET P
      PROVE  IsFiniteSet(s) /\ Cardinality(s) \in Nat
  BY EdgesAreFinite DEF Pairs
<1>7. Wrong = {}
  <2> SUFFICES ASSUME Wrong # {} PROVE FALSE
    OBVIOUS
  <2> DEFINE Sizes == {Cardinality(s) : s \in Wrong}
  <2>1. Sizes \in SUBSET Nat /\ Sizes # {}
    BY <1>6
  <2>2. PICK s \in Wrong : \A u \in Wrong : Cardinality(s) <= Cardinality(u)
    <3> HIDE DEF Sizes
    <3>1. PICK k \in Sizes : \A m \in Sizes : k <= m
      BY <2>1, LeastNatural
    <3> HIDE DEF Wrong
    <3> QED
      BY <3>1 DEF Sizes
  <2>3. s # {}
    BY <1>5 DEF IsSum
  <2> DEFINE x == CHOOSE y \in s : TRUE
  <2>4. x \in s /\ W[s] = Distance[x] + W[s \ {x}] /\ fold[s] = Distance[x] + fold[s \ {x}]
    BY <1>2, <1>5, <2>3
  <2> HIDE DEF x
  <2>5. s \ {x} \in Wrong
    BY <2>4
  <2>6. Cardinality(s \ {x}) = Cardinality(s) - 1 /\ Cardinality(s) \in Nat
    BY <1>6, <2>4, FS_RemoveElement
  <2> HIDE DEF Wrong
  <2> QED
    BY <2>2, <2>5, <2>6
<1> QED
  BY <1>1, <1>7

(* ObjValue adds the distances up in whatever order. *)
LEMMA ObjValueAdds ==
  /\ ObjValue({}) = 0
  /\ \A P \in SUBSET Pairs : ObjValue(P) \in Nat
  /\ \A P \in SUBSET Pairs : \A e \in Pairs \ P :
       ObjValue(P \cup {e}) = ObjValue(P) + Distance[e] /\ Distance[e] \in Nat
<1>1. PICK W : IsSum(W, Pairs)
  BY SumsExist
<1>2. \A P \in SUBSET Pairs : ObjValue(P) = W[P]
  BY <1>1, ObjValueIsSum
<1>3. W[{}] = 0 /\ \A P \in SUBSET Pairs : W[P] \in Nat
  BY <1>1 DEF IsSum
<1>4. ASSUME NEW P \in SUBSET Pairs, NEW e \in Pairs \ P
      PROVE  ObjValue(P \cup {e}) = ObjValue(P) + Distance[e] /\ Distance[e] \in Nat
  <2>1. P \cup {e} \in SUBSET Pairs
    OBVIOUS
  <2>2. W[P \cup {e}] = W[P] + Distance[e]
    BY <1>1 DEF IsSum
  <2>3. Distance[e] \in Nat
    BY DistanceIsFunction DEF Pairs
  <2> QED
    BY <1>2, <2>1, <2>2, <2>3
<1> QED
  BY <1>2, <1>3, <1>4

LEMMA ObjValueOfUnion ==
  ASSUME NEW P \in SUBSET Pairs, NEW Q \in SUBSET Pairs, P \cap Q = {}
  PROVE  ObjValue(P \cup Q) = ObjValue(P) + ObjValue(Q)
<1> DEFINE Holds == {T \in SUBSET Q : ObjValue(P \cup T) = ObjValue(P) + ObjValue(T)}
<1>1. {} \in Holds
  <2>1. P \cup {} = P
    OBVIOUS
  <2> QED
    BY <2>1, ObjValueAdds
<1>2. ASSUME NEW T \in Holds, NEW e \in Q \ T
      PROVE  T \cup {e} \in Holds
  <2>1. T \in SUBSET Pairs /\ P \cup T \in SUBSET Pairs /\ e \in Pairs \ T /\ e \in Pairs \ (P \cup T)
    OBVIOUS
  <2>2. ObjValue(T \cup {e}) = ObjValue(T) + Distance[e] /\ Distance[e] \in Nat
    BY <2>1, ObjValueAdds
  <2>3. ObjValue((P \cup T) \cup {e}) = ObjValue(P \cup T) + Distance[e]
    BY <2>1, ObjValueAdds
  <2>4. (P \cup T) \cup {e} = P \cup (T \cup {e})
    OBVIOUS
  <2>5. ObjValue(P \cup T) = ObjValue(P) + ObjValue(T)
    OBVIOUS
  <2>6. ObjValue(P) \in Nat /\ ObjValue(T) \in Nat
    BY <2>1, ObjValueAdds
  <2>7. ObjValue((P \cup T) \cup {e}) = ObjValue(P) + ObjValue(T \cup {e})
    BY <2>2, <2>3, <2>5, <2>6
  <2> QED
    BY <2>4, <2>7
<1>3. Q \in Holds
  <2> HIDE DEF Holds
  <2>1. Holds \in SUBSET SUBSET Q
    BY DEF Holds
  <2>2. IsFiniteSet(Q)
    BY EdgesAreFinite DEF Pairs
  <2> QED
    BY <1>1, <1>2, <2>1, <2>2, FiniteInduction
<1> QED
  BY <1>3

(* The sum over disjoint edges of different cities. *)
Plus(K, a, b, c) == K \cup {a, b, c}

LEMMA ObjValueOfThree ==
  ASSUME NEW K \in SUBSET Pairs, NEW a \in Pairs \ K, NEW b \in Pairs \ K, NEW c \in Pairs \ K,
         a # b, a # c, b # c
  PROVE  /\ ObjValue(Plus(K, a, b, c)) = ObjValue(K) + Distance[a] + Distance[b] + Distance[c]
         /\ ObjValue(K) \in Nat /\ Distance[a] \in Nat /\ Distance[b] \in Nat /\ Distance[c] \in Nat
<1> DEFINE K1 == K \cup {a}
           K2 == K1 \cup {b}
           K3 == K2 \cup {c}
<1>1. /\ K1 \in SUBSET Pairs /\ K2 \in SUBSET Pairs
      /\ b \in Pairs \ K1 /\ c \in Pairs \ K2 /\ K3 = Plus(K, a, b, c)
  BY DEF Plus
<1>2. ObjValue(K1) = ObjValue(K) + Distance[a] /\ ObjValue(K) \in Nat /\ Distance[a] \in Nat
  BY ObjValueAdds
<1> HIDE DEF K1
<1>3. ObjValue(K2) = ObjValue(K1) + Distance[b] /\ Distance[b] \in Nat
  BY <1>1, ObjValueAdds
<1> HIDE DEF K2
<1>4. ObjValue(K3) = ObjValue(K2) + Distance[c] /\ Distance[c] \in Nat
  BY <1>1, ObjValueAdds
<1> HIDE DEF K3
<1>5. ObjValue(K3) = ObjValue(K) + Distance[a] + Distance[b] + Distance[c]
  BY <1>2, <1>3, <1>4
<1> QED
  BY <1>1, <1>2, <1>3, <1>4, <1>5

LEMMA Oropt1DeltaIsExact ==
  ASSUME NEW P, P \subseteq City \X City, IsTour(P), NEW t \in Candidates_oropt1(P)
  PROVE  ObjValue(Tnext_oropt1(P, t)) = ObjValue(P) + getDeltaObj_oropt1(t)
<1> DEFINE n == next(P)
<1>1. IsGraph(P, n) /\ IsCycle(n)
  BY TourIsCycle
<1> HIDE DEF n
<1>2. PICK A, B, E \in City :
        /\ t = <<A, B, n[A], n[B], E>>
        /\ n[E] = A /\ A # MIN /\ n[A] # MIN
        /\ A # B /\ n[A] # B /\ n[A] # E /\ B # E
  BY Oropt1Cities DEF n
<1>3. /\ n \in [City -> City] /\ E # A
      /\ \A x, y \in City : n[x] = n[y] => x = y
      /\ P \subseteq City \X City /\ \A x, y \in City : <<x, y>> \in P <=> y = n[x]
  BY <1>1, <1>2 DEF IsCycle, IsGraph
<1> DEFINE K == {e \in P : e[1] # E /\ e[2] # n[A] /\ e[1] # B}
<1>4. Tnext_oropt1(P, t) = Plus(K, <<E, n[A]>>, <<B, A>>, <<A, n[B]>>)
  BY <1>2 DEF Tnext_oropt1, Plus
<1>5. P = Plus(K, <<E, A>>, <<A, n[A]>>, <<B, n[B]>>)
  <2>1. {<<E, A>>, <<A, n[A]>>, <<B, n[B]>>} \subseteq P
    BY <1>2, <1>3
  <2>2. ASSUME NEW e \in P, e \notin K
        PROVE  e \in {<<E, A>>, <<A, n[A]>>, <<B, n[B]>>}
    <3>1. e = <<e[1], e[2]>> /\ e[1] \in City /\ e[2] \in City
      BY <1>3
    <3>2. e[2] = n[e[1]]
      BY <1>3, <3>1
    <3>3. e[1] \in {E, A, B}
      BY <1>3, <2>2, <3>1, <3>2
    <3> QED
      BY <1>2, <3>1, <3>2, <3>3
  <2> QED
    BY <2>1, <2>2 DEF Plus
<1>6. /\ K \in SUBSET Pairs
      /\ \A y \in City : <<E, y>> \in Pairs \ K /\ <<A, y>> \in Pairs \ K /\ <<B, y>> \in Pairs \ K
  BY <1>3 DEF Pairs
<1> HIDE DEF K
<1>7. /\ ObjValue(Plus(K, <<E, n[A]>>, <<B, A>>, <<A, n[B]>>))
           = ObjValue(K) + Distance[<<E, n[A]>>] + Distance[<<B, A>>] + Distance[<<A, n[B]>>]
      /\ Distance[<<E, n[A]>>] \in Nat /\ Distance[<<B, A>>] \in Nat /\ Distance[<<A, n[B]>>] \in Nat
  <2>1. <<E, n[A]>> # <<B, A>> /\ <<E, n[A]>> # <<A, n[B]>> /\ <<B, A>> # <<A, n[B]>>
        /\ n[A] \in City /\ n[B] \in City
    BY <1>2, <1>3
  <2>2. <<E, n[A]>> \in Pairs \ K /\ <<B, A>> \in Pairs \ K /\ <<A, n[B]>> \in Pairs \ K /\ K \in SUBSET Pairs
    BY <1>6, <2>1
  <2> QED
    BY <2>1, <2>2, ObjValueOfThree
<1>8. /\ ObjValue(Plus(K, <<E, A>>, <<A, n[A]>>, <<B, n[B]>>))
           = ObjValue(K) + Distance[<<E, A>>] + Distance[<<A, n[A]>>] + Distance[<<B, n[B]>>]
      /\ ObjValue(K) \in Nat
      /\ Distance[<<E, A>>] \in Nat /\ Distance[<<A, n[A]>>] \in Nat /\ Distance[<<B, n[B]>>] \in Nat
  <2>1. <<E, A>> # <<A, n[A]>> /\ <<E, A>> # <<B, n[B]>> /\ <<A, n[A]>> # <<B, n[B]>>
        /\ n[A] \in City /\ n[B] \in City
    BY <1>2, <1>3
  <2>2. <<E, A>> \in Pairs \ K /\ <<A, n[A]>> \in Pairs \ K /\ <<B, n[B]>> \in Pairs \ K /\ K \in SUBSET Pairs
    BY <1>6, <2>1
  <2> QED
    BY <2>1, <2>2, ObjValueOfThree
<1>9. getDeltaObj_oropt1(t) = Distance[<<E, n[A]>>] + Distance[<<B, A>>] + Distance[<<A, n[B]>>]
                              - Distance[<<E, A>>] - Distance[<<A, n[A]>>] - Distance[<<B, n[B]>>]
  BY <1>2 DEF getDeltaObj_oropt1
<1> QED
  BY <1>4, <1>5, <1>7, <1>8, <1>9

LEMMA Oropt2DeltaIsExact ==
  ASSUME NEW P, P \subseteq City \X City, IsTour(P), NEW t \in Candidates_oropt2(P)
  PROVE  ObjValue(Tnext_oropt2(P, t)) = ObjValue(P) + getDeltaObj_oropt2(t)
<1> DEFINE n == next(P)
<1>1. IsGraph(P, n) /\ IsCycle(n)
  BY TourIsCycle
<1> HIDE DEF n
<1>2. PICK A, B, C, E \in City :
        /\ t = <<A, B, C, n[C], n[B], E>>
        /\ n[E] = A /\ n[A] = B
        /\ MIN \notin {A, B, n[B]}
        /\ C \notin {E, A, B, n[B]} /\ n[B] \notin {A, E}
  BY Oropt2Cities DEF n
<1>3. /\ n \in [City -> City] /\ E # A /\ A # B /\ E # B
      /\ P \subseteq City \X City /\ \A x, y \in City : <<x, y>> \in P <=> y = n[x]
  BY <1>1, <1>2 DEF IsCycle, IsGraph
<1> DEFINE K == {e \in P : e[1] \notin {E, A, B, C}}
           KN == K \cup {<<A, n[C]>>}
           KP == K \cup {<<A, B>>}
<1>4. Tnext_oropt2(P, t) = Plus(KN, <<E, n[B]>>, <<C, B>>, <<B, A>>)
  BY <1>2 DEF Tnext_oropt2, Plus
<1>5. P = Plus(KP, <<E, A>>, <<C, n[C]>>, <<B, n[B]>>)
  <2>1. {<<A, B>>, <<E, A>>, <<C, n[C]>>, <<B, n[B]>>} \subseteq P
    BY <1>2, <1>3
  <2>2. ASSUME NEW e \in P, e \notin K
        PROVE  e \in {<<A, B>>, <<E, A>>, <<C, n[C]>>, <<B, n[B]>>}
    <3>1. e = <<e[1], e[2]>> /\ e[1] \in City /\ e[2] \in City /\ e[1] \in {E, A, B, C}
      BY <1>3, <2>2
    <3>2. e[2] = n[e[1]]
      BY <1>3, <3>1
    <3> QED
      BY <1>2, <3>1, <3>2
  <2> QED
    BY <2>1, <2>2 DEF Plus
<1>6. /\ K \in SUBSET Pairs
      /\ \A y \in City : <<A, y>> \in Pairs \ K /\ <<E, y>> \in Pairs \ K
                         /\ <<B, y>> \in Pairs \ K /\ <<C, y>> \in Pairs \ K
  BY <1>3 DEF Pairs
<1> HIDE DEF K
<1>7. /\ ObjValue(KN) = ObjValue(K) + Distance[<<A, n[C]>>] /\ Distance[<<A, n[C]>>] \in Nat
      /\ ObjValue(KP) = ObjValue(K) + Distance[<<A, B>>] /\ Distance[<<A, B>>] \in Nat
      /\ ObjValue(K) \in Nat
  BY <1>2, <1>3, <1>6, ObjValueAdds
<1>8. /\ n[B] \in City /\ n[C] \in City /\ KN \in SUBSET Pairs /\ KP \in SUBSET Pairs
      /\ \A y \in City : /\ <<E, y>> \in (Pairs \ KN) \cap (Pairs \ KP)
                        /\ <<B, y>> \in (Pairs \ KN) \cap (Pairs \ KP)
                        /\ <<C, y>> \in (Pairs \ KN) \cap (Pairs \ KP)
  <2>1. n[B] \in City /\ n[C] \in City
    BY <1>3
  <2>2. KN \in SUBSET Pairs /\ KP \in SUBSET Pairs
    BY <1>6, <2>1
  <2>3. ASSUME NEW x \in {E, B, C}, NEW y \in City
        PROVE  <<x, y>> \in (Pairs \ KN) \cap (Pairs \ KP)
    <3>1. x # A
      BY <1>2, <1>3
    <3>2. <<x, y>> # <<A, n[C]>> /\ <<x, y>> # <<A, B>>
      BY <3>1
    <3>3. <<x, y>> \in Pairs \ K
      BY <1>6
    <3> QED
      BY <3>2, <3>3
  <2> QED
    BY <2>1, <2>2, <2>3
<1> HIDE DEF KN, KP
<1>9. /\ ObjValue(Plus(KN, <<E, n[B]>>, <<C, B>>, <<B, A>>))
           = ObjValue(KN) + Distance[<<E, n[B]>>] + Distance[<<C, B>>] + Distance[<<B, A>>]
      /\ Distance[<<E, n[B]>>] \in Nat /\ Distance[<<C, B>>] \in Nat /\ Distance[<<B, A>>] \in Nat
  <2>1. <<E, n[B]>> # <<C, B>> /\ <<E, n[B]>> # <<B, A>> /\ <<C, B>> # <<B, A>>
    BY <1>2, <1>3
  <2>2. <<E, n[B]>> \in Pairs \ KN /\ <<C, B>> \in Pairs \ KN /\ <<B, A>> \in Pairs \ KN /\ KN \in SUBSET Pairs
    BY <1>8, <2>1
  <2>3. \A a, b, c \in Pairs \ KN :
          a # b /\ a # c /\ b # c =>
            /\ ObjValue(Plus(KN, a, b, c)) = ObjValue(KN) + Distance[a] + Distance[b] + Distance[c]
            /\ Distance[a] \in Nat /\ Distance[b] \in Nat /\ Distance[c] \in Nat
    BY <2>2, ObjValueOfThree
  <2> QED
    BY <2>1, <2>2, <2>3
<1>10. /\ ObjValue(Plus(KP, <<E, A>>, <<C, n[C]>>, <<B, n[B]>>))
            = ObjValue(KP) + Distance[<<E, A>>] + Distance[<<C, n[C]>>] + Distance[<<B, n[B]>>]
       /\ Distance[<<E, A>>] \in Nat /\ Distance[<<C, n[C]>>] \in Nat /\ Distance[<<B, n[B]>>] \in Nat
  <2>1. <<E, A>> # <<C, n[C]>> /\ <<E, A>> # <<B, n[B]>> /\ <<C, n[C]>> # <<B, n[B]>>
    BY <1>2, <1>3
  <2>2. <<E, A>> \in Pairs \ KP /\ <<C, n[C]>> \in Pairs \ KP /\ <<B, n[B]>> \in Pairs \ KP /\ KP \in SUBSET Pairs
    BY <1>8, <2>1
  <2> QED
    BY <2>1, <2>2, ObjValueOfThree
<1>11. getDeltaObj_oropt2(t) = Distance[<<E, n[B]>>] + Distance[<<C, B>>] + Distance[<<B, A>>]
                               + Distance[<<A, n[C]>>] - Distance[<<E, A>>] - Distance[<<A, B>>]
                               - Distance[<<B, n[B]>>] - Distance[<<C, n[C]>>]
  BY <1>2 DEF getDeltaObj_oropt2
<1> QED
  BY <1>4, <1>5, <1>7, <1>9, <1>10, <1>11

-----------------------------------------------------------------------------
(* 2opt turns a path round, whose edges the query getDeltaObj_2opt leaves   *)
(* out: it is made for distances that are the same both ways.               *)

Symmetric == \A x, y \in City : Distance[<<x, y>>] = Distance[<<y, x>>]

LEMMA TurnedEdges ==
  ASSUME Symmetric, NEW n \in [City -> City], NEW S \in SUBSET City
  PROVE  ObjValue(EdgesBack(n, S)) = ObjValue(Edges(n, S))
<1> DEFINE Holds == {T \in SUBSET S : ObjValue(EdgesBack(n, T)) = ObjValue(Edges(n, T))}
<1>1. {} \in Holds
  <2>1. EdgesBack(n, {}) = Edges(n, {})
    BY DEF Edges, EdgesBack
  <2> QED
    BY <2>1
<1>2. ASSUME NEW T \in Holds, NEW x \in S \ T
      PROVE  T \cup {x} \in Holds
  <2>1. /\ Edges(n, T \cup {x}) = Edges(n, T) \cup {<<x, n[x]>>}
        /\ EdgesBack(n, T \cup {x}) = EdgesBack(n, T) \cup {<<n[x], x>>}
    BY DEF Edges, EdgesBack
  <2>2. /\ Edges(n, T) \in SUBSET Pairs /\ <<x, n[x]>> \in Pairs \ Edges(n, T)
        /\ EdgesBack(n, T) \in SUBSET Pairs /\ <<n[x], x>> \in Pairs \ EdgesBack(n, T)
    BY DEF Edges, EdgesBack, Pairs
  <2>3. /\ ObjValue(Edges(n, T \cup {x})) = ObjValue(Edges(n, T)) + Distance[<<x, n[x]>>]
        /\ ObjValue(EdgesBack(n, T \cup {x})) = ObjValue(EdgesBack(n, T)) + Distance[<<n[x], x>>]
    BY <2>1, <2>2, ObjValueAdds
  <2>4. Distance[<<x, n[x]>>] = Distance[<<n[x], x>>]
    BY DEF Symmetric
  <2> QED
    BY <2>3, <2>4
<1>3. S \in Holds
  <2> HIDE DEF Holds
  <2>1. Holds \in SUBSET SUBSET S
    BY DEF Holds
  <2>2. IsFiniteSet(S)
    BY CityAssumption, FS_Subset
  <2> QED
    BY <1>1, <1>2, <2>1, <2>2, FiniteInduction
<1> QED
  BY <1>3

LEMMA TwoOptDeltaIsExact ==
  ASSUME Symmetric, NEW P, P \subseteq City \X City, IsTour(P), NEW t \in Candidates_2opt(P)
  PROVE  ObjValue(Tnext_2opt(P, t)) = ObjValue(P) + getDeltaObj_2opt(t)
<1>1. PICK n, A, C, Before, Seg, After : IsTwoOpt(P, t, n, A, C, Before, Seg, After)
  BY TwoOptTour
<1>2. /\ n = next(P) /\ A \in City /\ C \in City
      /\ t = <<A, n[A], C, n[C]>> /\ A # C
      /\ IsCut(n, A, C, Before, Seg, After)
      /\ Tnext_2opt(P, t) = {<<A, C>>, <<n[A], n[C]>>}
                            \cup Edges(n, (Before \ {A}) \cup After)
                            \cup EdgesBack(n, Seg \ {C})
  BY <1>1 DEF IsTwoOpt
<1>3. IsGraph(P, n) /\ IsCycle(n)
  BY <1>2, TourIsCycle
<1>4. n \in [City -> City] /\ \A x, y \in City : n[x] = n[y] => x = y
  BY <1>3 DEF IsCycle
<1> DEFINE Rest == (Before \ {A}) \cup After
           Turn == Seg \ {C}
           KN == Edges(n, Rest) \cup EdgesBack(n, Turn)
           KP == Edges(n, Rest) \cup Edges(n, Turn)
<1>5. /\ Rest \in SUBSET City /\ Turn \in SUBSET City /\ Rest \cap Turn = {}
      /\ n[A] \in Seg /\ n[A] \in City /\ n[C] \in City /\ A \notin Seg /\ Seg \subseteq City
      /\ A \notin Rest /\ A \notin Turn /\ C \notin Rest /\ C \notin Turn
      /\ \A x \in Turn : n[x] \in Seg /\ n[x] # n[A]
      /\ \A x \in Rest : x # n[A] /\ x \notin Seg
      /\ City = Rest \cup Turn \cup {A, C}
  BY <1>2, <1>4 DEF IsCut
<1> HIDE DEF Rest, Turn
<1>6. ObjValue(KN) = ObjValue(KP) /\ ObjValue(KP) \in Nat
  <2>1. /\ Edges(n, Rest) \in SUBSET Pairs /\ Edges(n, Turn) \in SUBSET Pairs
        /\ EdgesBack(n, Turn) \in SUBSET Pairs
    BY <1>4, <1>5 DEF Edges, EdgesBack, Pairs
  <2>2. Edges(n, Rest) \cap Edges(n, Turn) = {}
    BY <1>5 DEF Edges
  <2>3. Edges(n, Rest) \cap EdgesBack(n, Turn) = {}
    BY <1>5 DEF Edges, EdgesBack
  <2>4. ObjValue(KN) = ObjValue(Edges(n, Rest)) + ObjValue(EdgesBack(n, Turn))
    BY <2>1, <2>3, ObjValueOfUnion
  <2>5. ObjValue(KP) = ObjValue(Edges(n, Rest)) + ObjValue(Edges(n, Turn))
    BY <2>1, <2>2, ObjValueOfUnion
  <2>6. ObjValue(EdgesBack(n, Turn)) = ObjValue(Edges(n, Turn))
    BY <1>4, <1>5, TurnedEdges
  <2>7. KP \in SUBSET Pairs
    BY <2>1
  <2> QED
    BY <2>4, <2>5, <2>6, <2>7, ObjValueAdds
<1>7. /\ KN \in SUBSET Pairs /\ KP \in SUBSET Pairs
      /\ <<A, C>> \in Pairs \ KN /\ <<n[A], n[C]>> \in Pairs \ (KN \cup {<<A, C>>})
      /\ <<A, n[A]>> \in Pairs \ KP /\ <<C, n[C]>> \in Pairs \ (KP \cup {<<A, n[A]>>})
  <2>1. /\ Edges(n, Rest) \in SUBSET Pairs /\ Edges(n, Turn) \in SUBSET Pairs
        /\ EdgesBack(n, Turn) \in SUBSET Pairs
    BY <1>4, <1>5 DEF Edges, EdgesBack, Pairs
  <2>2. <<A, C>> \notin KN /\ <<A, n[A]>> \notin KP /\ <<C, n[C]>> \notin KP
    BY <1>5 DEF Edges, EdgesBack
  <2>3. <<n[A], n[C]>> \notin KN
    BY <1>5 DEF Edges, EdgesBack
  <2> QED
    BY <1>2, <1>5, <2>1, <2>2, <2>3 DEF Pairs
<1>8. P = (KP \cup {<<A, n[A]>>}) \cup {<<C, n[C]>>}
  <2>1. P = Edges(n, City)
    <3>1. P = From(P, City)
      BY <1>3 DEF IsGraph, From
    <3> QED
      BY <1>3, <3>1, EdgesFrom
  <2> QED
    BY <1>5, <2>1 DEF Edges
<1>9. Tnext_2opt(P, t) = (KN \cup {<<A, C>>}) \cup {<<n[A], n[C]>>}
  BY <1>2 DEF Rest, Turn
<1> HIDE DEF KN, KP
<1>10. /\ ObjValue(KN \cup {<<A, C>>}) = ObjValue(KN) + Distance[<<A, C>>]
       /\ ObjValue(KP \cup {<<A, n[A]>>}) = ObjValue(KP) + Distance[<<A, n[A]>>]
       /\ Distance[<<A, C>>] \in Nat /\ Distance[<<A, n[A]>>] \in Nat
  BY <1>7, ObjValueAdds
<1> DEFINE KN1 == KN \cup {<<A, C>>}
           KP1 == KP \cup {<<A, n[A]>>}
<1>11. KN1 \in SUBSET Pairs /\ KP1 \in SUBSET Pairs
  BY <1>7
<1>12. /\ ObjValue(KN1 \cup {<<n[A], n[C]>>}) = ObjValue(KN1) + Distance[<<n[A], n[C]>>]
       /\ ObjValue(KP1 \cup {<<C, n[C]>>}) = ObjValue(KP1) + Distance[<<C, n[C]>>]
       /\ Distance[<<n[A], n[C]>>] \in Nat /\ Distance[<<C, n[C]>>] \in Nat
  <2>1. <<n[A], n[C]>> \in Pairs \ KN1 /\ <<C, n[C]>> \in Pairs \ KP1
    BY <1>7
  <2> HIDE DEF KN1, KP1
  <2> QED
    BY <1>11, <2>1, ObjValueAdds
<1>13. getDeltaObj_2opt(t) = Distance[<<A, C>>] + Distance[<<n[A], n[C]>>]
                             - Distance[<<A, n[A]>>] - Distance[<<C, n[C]>>]
  BY <1>2 DEF getDeltaObj_2opt
<1>14. P = KP1 \cup {<<C, n[C]>>} /\ Tnext_2opt(P, t) = KN1 \cup {<<n[A], n[C]>>}
  BY <1>8, <1>9
<1>15. ObjValue(KN1) = ObjValue(KN) + Distance[<<A, C>>] /\ ObjValue(KP1) = ObjValue(KP) + Distance[<<A, n[A]>>]
  BY <1>10
<1> HIDE DEF KN1, KP1
<1>16. ObjValue(P) = ObjValue(KP) + Distance[<<A, n[A]>>] + Distance[<<C, n[C]>>]
  BY <1>6, <1>10, <1>12, <1>14, <1>15
<1>17. ObjValue(Tnext_2opt(P, t)) = ObjValue(KP) + Distance[<<A, C>>] + Distance[<<n[A], n[C]>>]
  BY <1>6, <1>10, <1>12, <1>14, <1>15
<1> QED
  BY <1>6, <1>10, <1>12, <1>13, <1>16, <1>17

-----------------------------------------------------------------------------
(* The walk. *)

(* The models of theory T are those that Tours picks out. *)
LEMMA ToursAreTheModels ==
  ASSUME NEW P
  PROVE  P \in Tours <=> P \subseteq City \X City /\ IsTour(P)
<1>1. ASSUME P \in Tours
      PROVE  P \subseteq City \X City /\ IsTour(P)
  <2>1. PICK f \in [City -> City] : P = {<<c, f[c]>> : c \in City}
    BY <1>1 DEF Tours
  <2> QED
    BY <1>1, <2>1 DEF Tours
<1>2. ASSUME P \subseteq City \X City, IsTour(P)
      PROVE  P \in Tours
  <2> DEFINE n == next(P)
  <2>1. IsGraph(P, n) /\ IsCycle(n)
    BY <1>2, TourIsCycle
  <2> HIDE DEF n
  <2>2. n \in {g \in [City -> City] : \A x, y \in City : x # y => g[x] \notin {x, g[y]}}
    BY <2>1 DEF IsCycle
  <2>3. P = {<<c, n[c]>> : c \in City}
    <3>1. P = From(P, City)
      BY <1>2 DEF From
    <3>2. P = Edges(n, City)
      BY <2>1, <3>1, EdgesFrom
    <3> QED
      BY <3>2 DEF Edges
  <2> QED
    BY <1>2, <2>2, <2>3 DEF Tours
<1> QED
  BY <1>1, <1>2

LEMMA CandidatesKeepTours ==
  ASSUME NEW P \in Tours, NEW m \in Moves, NEW t \in Candidates(m, P)
  PROVE  Tnext(m, P, t) \in Tours
<1>1. P \subseteq City \X City /\ IsTour(P)
  BY ToursAreTheModels
<1>2. Tnext(m, P, t) \subseteq City \X City /\ IsTour(Tnext(m, P, t))
  <2>1. CASE m = "2opt"
    BY <1>1, <2>1, TwoOptKeepsTour DEF Candidates, Tnext
  <2>2. CASE m = "oropt1"
    BY <1>1, <2>2, Oropt1KeepsTour DEF Candidates, Tnext
  <2>3. CASE m = "oropt2"
    BY <1>1, <2>3, Oropt2KeepsTour DEF Candidates, Tnext
  <2> QED
    BY <2>1, <2>2, <2>3 DEF Moves
<1> QED
  BY <1>2, ToursAreTheModels

LEMMA CandidatesHaveExactDelta ==
  ASSUME NEW P \in Tours, NEW m \in Moves, NEW t \in Candidates(m, P), Symmetric \/ m # "2opt"
  PROVE  ObjValue(Tnext(m, P, t)) = ObjValue(P) + getDeltaObj(m, t)
<1>1. P \subseteq City \X City /\ IsTour(P)
  BY ToursAreTheModels
<1>2. CASE m = "2opt"
  BY <1>1, <1>2, TwoOptDeltaIsExact DEF Candidates, Tnext, getDeltaObj
<1>3. CASE m = "oropt1"
  BY <1>1, <1>3, Oropt1DeltaIsExact DEF Candidates, Tnext, getDeltaObj
<1>4. CASE m = "oropt2"
  BY <1>1, <1>4, Oropt2DeltaIsExact DEF Candidates, Tnext, getDeltaObj
<1> QED
  BY <1>2, <1>3, <1>4 DEF Moves

AtTour == dec_Path \in Tours

LEMMA WalkKeepsTours ==
  /\ StartTour => AtTour
  /\ AtTour /\ [AnyMove]_dec_Path => AtTour'
<1>1. ASSUME AtTour, AnyMove
      PROVE  AtTour'
  <2>1. PICK m \in Moves : \E t \in getValidMoves(m, dec_Path) : dec_Path' = Tnext(m, dec_Path, t)
    BY <1>1 DEF AnyMove, Move, Moves
  <2> QED
    BY <1>1, <2>1, CandidatesKeepTours DEF getValidMoves, AtTour
<1>2. ASSUME AtTour, UNCHANGED dec_Path
      PROVE  AtTour'
  BY <1>2 DEF AtTour
<1>3. StartTour => AtTour
  BY DEF StartTour, AtTour
<1> QED
  BY <1>1, <1>2, <1>3

(* On every instance, asymmetric ones as well, whatever moves a search has  *)
(* made: each move of the three move modellings of tsp.idp leads from the   *)
(* tour it is at to a tour.                                                 *)
THEOREM MovesAlwaysKeepTours == Walk => []MovesKeepTours
<1>1. AtTour => MovesKeepTours
  <2>1. ASSUME dec_Path \in Tours, NEW m \in Moves, NEW t \in Candidates(m, dec_Path)
        PROVE  IsTour(Tnext(m, dec_Path, t))
    BY <2>1, CandidatesKeepTours, ToursAreTheModels
  <2> QED
    BY <2>1 DEF MovesKeepTours, AtTour
<1> QED
  BY <1>1, WalkKeepsTours, PTL DEF Walk

(* Where distances are symmetric, the three queries getDeltaObj_m of        *)
(* tsp.idp are exact on every instance and in every tour reached.           *)
THEOREM DeltaIsAlwaysExact ==
  ASSUME Symmetric
  PROVE  Walk => []DeltaIsExact
<1>1. AtTour => DeltaIsExact
  BY CandidatesHaveExactDelta DEF DeltaIsExact, AtTour
<1> QED
  BY <1>1, WalkKeepsTours, PTL DEF Walk

(* Only that of 2opt needs the symmetry: the other two name every edge they *)
(* turn round.                                                              *)
THEOREM OroptDeltasAreExact ==
  Walk => [](\A m \in {"oropt1", "oropt2"} : \A t \in Candidates(m, dec_Path) :
                ObjValue(Tnext(m, dec_Path, t)) = ObjValue(dec_Path) + getDeltaObj(m, t))
<1> DEFINE Exact == \A m \in {"oropt1", "oropt2"} : \A t \in Candidates(m, dec_Path) :
                      ObjValue(Tnext(m, dec_Path, t)) = ObjValue(dec_Path) + getDeltaObj(m, t)
<1>1. AtTour => Exact
  BY CandidatesHaveExactDelta DEF AtTour, Moves
<1> QED
  BY <1>1, WalkKeepsTours, PTL DEF Walk

-----------------------------------------------------------------------------
(* 2opt misses no tour that differs in two undirected edges.                *)

Adjacent(f, x, y) == y = f[x] \/ x = f[y]

LEMMA UndirectedEdges ==
  ASSUME NEW P, NEW f, IsGraph(P, f), IsCycle(f)
  PROVE  /\ Undirected(P) = {{x, f[x]} : x \in City}
         /\ \A x, y \in City : {x, y} \in Undirected(P) <=> Adjacent(f, x, y)
<1>1. /\ f \in [City -> City] /\ P \subseteq City \X City
      /\ \A x, y \in City : <<x, y>> \in P <=> y = f[x]
      /\ \A x \in City : f[x] # x
  BY DEF IsGraph, IsCycle
<1>2. P = Edges(f, City)
  <2>1. P = From(P, City)
    BY <1>1 DEF From
  <2> QED
    BY <2>1, EdgesFrom
<1>3. ASSUME NEW e \in P
      PROVE  {e[1], e[2]} \in {{x, f[x]} : x \in City}
  <2>1. PICK x \in City : e = <<x, f[x]>>
    BY <1>2 DEF Edges
  <2>2. {e[1], e[2]} = {x, f[x]}
    BY <2>1
  <2> QED
    BY <2>2
<1>4. ASSUME NEW x \in City
      PROVE  {x, f[x]} \in Undirected(P)
  <2>1. <<x, f[x]>> \in P /\ <<x, f[x]>>[1] = x /\ <<x, f[x]>>[2] = f[x]
    BY <1>1
  <2> QED
    BY <2>1 DEF Undirected
<1>5. Undirected(P) = {{x, f[x]} : x \in City}
  BY <1>3, <1>4 DEF Undirected
<1>6. ASSUME NEW x \in City, NEW y \in City
      PROVE  {x, y} \in Undirected(P) <=> Adjacent(f, x, y)
  <2>1. ASSUME {x, y} \in Undirected(P)
        PROVE  Adjacent(f, x, y)
    <3>1. PICK z \in City : {x, y} = {z, f[z]}
      BY <1>5, <2>1
    <3> QED
      BY <1>1, <3>1 DEF Adjacent
  <2>2. ASSUME Adjacent(f, x, y)
        PROVE  {x, y} \in Undirected(P)
    <3>1. {x, y} = {x, f[x]} \/ {x, y} = {y, f[y]}
      BY <2>2 DEF Adjacent
    <3> QED
      BY <1>5, <3>1
  <2> QED
    BY <2>1, <2>2
<1> QED
  BY <1>5, <1>6

LEMMA TurningBack ==
  ASSUME NEW f, IsCycle(f), NEW x \in City, f[f[x]] = x
  PROVE  City = {x, f[x]}
<1>1. MIN \in City /\ f \in [City -> City] /\ \A y, z \in City : f[y] = f[z] => y = z
  BY MINType DEF IsCycle
<1>2. CASE MIN \in {x, f[x]}
  <2>1. {x, f[x]} \in SUBSET City /\ \A y \in {x, f[x]} : f[y] \in {x, f[x]}
    BY <1>1
  <2> QED
    BY <1>2, <2>1 DEF IsCycle
<1>3. CASE MIN \notin {x, f[x]}
  <2> DEFINE U == City \ {x, f[x]}
  <2>1. U \in SUBSET City /\ MIN \in U /\ \A y \in U : f[y] \in U
    BY <1>1, <1>3
  <2>2. U = City
    <3> HIDE DEF U
    <3> QED
      BY <2>1 DEF IsCycle
  <2> QED
    BY <2>2
<1> QED
  BY <1>2, <1>3

(* More than two cities in a cycle have two neighbours each. *)
LEMMA TwoNeighbours ==
  ASSUME NEW f, IsCycle(f), NEW x \in City, NEW y1 \in City, NEW y2 \in City, NEW y \in City,
         y1 # y2, Adjacent(f, x, y1), Adjacent(f, x, y2), Adjacent(f, x, y)
  PROVE  y \in {y1, y2}
  BY DEF Adjacent, IsCycle

(* Of the edges of n the cycle m lacks a - n[a] and c - n[c], and no other. *)
Lacks(n, m, a, c) ==
  /\ IsCycle(n) /\ IsCycle(m)
  /\ \A x \in City : n[n[x]] # x /\ m[m[x]] # x
  /\ a \in City /\ c \in City /\ a # c
  /\ ~Adjacent(m, a, n[a]) /\ ~Adjacent(m, c, n[c])
  /\ \A x \in City \ {a, c} : Adjacent(m, x, n[x])

(* A city that has lost no edge has not got one either. *)
LEMMA Untouched ==
  ASSUME NEW n, NEW m, NEW a, NEW c, Lacks(n, m, a, c),
         NEW x \in City, x \notin {a, c, n[a], n[c]}, NEW y \in City, Adjacent(m, x, y)
  PROVE  Adjacent(n, x, y)
<1>1. n \in [City -> City] /\ n[n[x]] # x
  BY DEF Lacks, IsCycle
<1>2. PICK z \in City : n[z] = x
  BY DEF Lacks, IsCycle
<1>3. z \notin {a, c} /\ z # n[x]
  BY <1>1, <1>2
<1>4. Adjacent(m, x, n[x]) /\ Adjacent(m, x, z)
  BY <1>2, <1>3 DEF Lacks, Adjacent
<1>5. y \in {n[x], z}
  BY <1>1, <1>3, <1>4, TwoNeighbours DEF Lacks
<1> QED
  BY <1>2, <1>5 DEF Adjacent

LEMMA LostEdgesAreApart ==
  ASSUME NEW n, NEW m, NEW a, NEW c, Lacks(n, m, a, c)
  PROVE  n[a] # c /\ n[c] # a
<1>1. /\ n \in [City -> City] /\ m \in [City -> City]
      /\ \A x, y \in City : n[x] = n[y] => x = y
      /\ a \in City /\ c \in City
      /\ \A x \in City : m[x] # x
  BY DEF Lacks, IsCycle
<1>2. ASSUME NEW x \in City, x \in {a, c, n[a], n[c]},
             \A y \in {a, c, n[a], n[c]} : y # x => ~Adjacent(m, x, y)
      PROVE  m[x] \in City /\ m[x] \notin {a, c, n[a], n[c]} /\ Adjacent(n, m[x], x)
  <2>1. m[x] \in City /\ Adjacent(m, x, m[x]) /\ Adjacent(m, m[x], x) /\ m[x] # x
    BY <1>1 DEF Adjacent
  <2>2. m[x] \notin {a, c, n[a], n[c]}
    BY <1>2, <2>1
  <2> QED
    BY <2>1, <2>2, Untouched
<1>3. ASSUME n[a] = c
      PROVE  FALSE
  <2>1. \A y \in {a, c, n[a], n[c]} : y # c => ~Adjacent(m, c, y)
    BY <1>3 DEF Lacks, Adjacent
  <2>2. m[c] \in City /\ m[c] \notin {a, c, n[a], n[c]} /\ Adjacent(n, m[c], c)
    BY <1>1, <1>2, <2>1
  <2> QED
    BY <1>1, <1>3, <2>2 DEF Adjacent
<1>4. ASSUME n[c] = a
      PROVE  FALSE
  <2>1. \A y \in {a, c, n[a], n[c]} : y # a => ~Adjacent(m, a, y)
    BY <1>4 DEF Lacks, Adjacent
  <2>2. m[a] \in City /\ m[a] \notin {a, c, n[a], n[c]} /\ Adjacent(n, m[a], a)
    BY <1>1, <1>2, <2>1
  <2> QED
    BY <1>1, <1>4, <2>2 DEF Adjacent
<1> QED
  BY <1>3, <1>4

(* What is left must be closed by a - c and n[a] - n[c], since a - n[c] and *)
(* n[a] - c would close two cycles.                                         *)
LEMMA NewEdges ==
  ASSUME NEW n, NEW m, NEW a, NEW c, Lacks(n, m, a, c),
         NEW Before, NEW Seg, NEW After, IsCut(n, a, c, Before, Seg, After)
  PROVE  Adjacent(m, a, c) /\ Adjacent(m, n[a], n[c])
<1> DEFINE b == n[a]
           d == n[c]
<1>1. /\ n \in [City -> City] /\ m \in [City -> City]
      /\ \A x, y \in City : n[x] = n[y] => x = y
      /\ \A x, y \in City : m[x] = m[y] => x = y
      /\ \A x \in City : n[x] # x /\ m[x] # x
      /\ a \in City /\ c \in City /\ a # c
      /\ \A x \in City : n[n[x]] # x /\ m[m[x]] # x
  BY DEF Lacks, IsCycle
<1>2. n[a] # c /\ n[c] # a
  BY LostEdgesAreApart
<1>3. /\ b \in City /\ d \in City /\ b = n[a] /\ d = n[c]
      /\ a # b /\ a # c /\ a # d /\ b # c /\ b # d /\ c # d
  BY <1>1, <1>2
<1>4. ~Adjacent(m, a, b) /\ ~Adjacent(m, c, d)
  BY DEF Lacks
<1> HIDE DEF b, d
<1>5. \A x, y \in City : x \notin {a, b, c, d} /\ Adjacent(m, x, y) => Adjacent(n, x, y)
  BY <1>3, Untouched
<1>6. \A x \in City \ {a, c} : Adjacent(m, x, n[x])
  BY DEF Lacks
<1>7. \A x, y \in City : Adjacent(m, x, y) => Adjacent(m, y, x)
  BY DEF Adjacent
<1>8. \A x, y1, y2, y \in City :
        y1 # y2 /\ Adjacent(m, x, y1) /\ Adjacent(m, x, y2) /\ Adjacent(m, x, y) => y \in {y1, y2}
  BY TwoNeighbours DEF Lacks
<1>9. \A x, z \in City : \E y \in City \ {z} : Adjacent(m, x, y)
  <2> SUFFICES ASSUME NEW x \in City, NEW z \in City
               PROVE  \E y \in City \ {z} : Adjacent(m, x, y)
    OBVIOUS
  <2>1. PICK y \in City : m[y] = x
    BY DEF Lacks, IsCycle
  <2>2. m[x] \in City /\ m[x] # y /\ Adjacent(m, x, m[x]) /\ Adjacent(m, x, y)
    BY <1>1, <2>1 DEF Adjacent
  <2> QED
    BY <2>2
<1>10. PICK before_a \in City : n[before_a] = a
  BY <1>1 DEF Lacks, IsCycle
<1>11. PICK before_c \in City : n[before_c] = c
  BY <1>1 DEF Lacks, IsCycle
<1>12. PICK y \in {c, d} : Adjacent(m, a, y) /\ y # before_a
  <2>1. PICK y \in City \ {before_a} : Adjacent(m, a, y)
    BY <1>1, <1>9
  <2>2. y # a /\ y # b
    BY <1>1, <1>4, <2>1 DEF Adjacent
  <2>3. y \in {c, d}
    <3> SUFFICES ASSUME y \notin {a, b, c, d} PROVE FALSE
      BY <2>2
    <3>1. Adjacent(n, y, a)
      BY <1>1, <1>5, <1>7, <2>1
    <3> QED
      BY <1>1, <1>3, <1>10, <2>1, <3>1 DEF Adjacent
  <2> QED
    BY <2>1, <2>3
<1>13. PICK z \in {c, d} : Adjacent(m, b, z) /\ z # n[b]
  <2>0. n[b] \in City
    BY <1>1, <1>3
  <2>1. PICK z \in City \ {n[b]} : Adjacent(m, b, z)
    BY <1>3, <1>9, <2>0
  <2>2. z # a /\ z # b
    BY <1>1, <1>3, <1>4, <2>1 DEF Adjacent
  <2>3. z \in {c, d}
    <3> SUFFICES ASSUME z \notin {a, b, c, d} PROVE FALSE
      BY <2>2
    <3>1. Adjacent(n, z, b)
      BY <1>3, <1>5, <1>7, <2>1
    <3> QED
      BY <1>1, <1>3, <2>1, <3>1 DEF Adjacent
  <2> QED
    BY <2>1, <2>3
<1>14. Adjacent(m, c, before_c) /\ before_c # a
  BY <1>3, <1>6, <1>7, <1>11, <1>1
<1>15. CASE y = c
  <2>1. ASSUME z = c
        PROVE  FALSE
    <3>1. Adjacent(m, c, a) /\ Adjacent(m, c, b) /\ before_c # b
      BY <1>1, <1>3, <1>7, <1>11, <1>12, <1>13, <1>15, <2>1
    <3> QED
      BY <1>1, <1>3, <1>8, <1>14, <3>1
  <2> QED
    BY <1>3, <1>12, <1>13, <1>15, <2>1
<1>16. CASE y = d
  <2>1. ASSUME z = d
        PROVE  FALSE
    <3>1. Adjacent(m, d, a) /\ Adjacent(m, d, b) /\ n[d] # a /\ n[d] # b /\ n[d] \in City
      BY <1>1, <1>3, <1>7, <1>10, <1>12, <1>13, <1>16, <2>1
    <3>2. Adjacent(m, d, n[d])
      BY <1>3, <1>6
    <3>3. a \in {n[d], b}
      BY <1>1, <1>3, <1>8, <3>1, <3>2
    <3> QED
      BY <1>3, <3>1, <3>3
  <2>2. Adjacent(m, b, c) /\ c # n[b]
    BY <1>13, <2>1
  <2> DEFINE U == City \ Seg
  <2>3. U \in SUBSET City /\ MIN \in U /\ U # City
    BY DEF IsCut
  <2>4. ASSUME NEW x \in U, m[x] \in Seg
        PROVE  FALSE
    <3>1. m[x] \in City /\ Adjacent(m, m[x], x) /\ x \in City
      BY <1>1 DEF Adjacent
    <3>2. CASE m[x] = b
      <4>1. Adjacent(m, b, n[b]) /\ n[b] \in Seg /\ n[b] \in City
        BY <1>1, <1>3, <1>6 DEF IsCut
      <4>a. Adjacent(m, b, x)
        BY <3>1, <3>2
      <4>2. x \in {c, n[b]}
        BY <1>1, <1>3, <1>8, <2>2, <3>1, <4>1, <4>a
      <4> QED
        BY <4>1, <4>2 DEF IsCut
    <3>3. CASE m[x] = c
      <4>1. before_c # b /\ before_c \in Seg
        BY <1>1, <1>3, <1>11, <2>2 DEF IsCut
      <4>2. x \in {b, before_c}
        BY <1>1, <1>3, <1>7, <1>8, <1>14, <2>2, <3>1, <3>3, <4>1
      <4> QED
        BY <1>3, <4>1, <4>2 DEF IsCut
    <3>4. CASE m[x] \notin {b, c}
      <4>1. m[x] \notin {a, b, c, d}
        BY <1>3, <2>4, <3>4 DEF IsCut
      <4>2. Adjacent(n, m[x], x)
        BY <1>5, <3>1, <4>1
      <4>3. x = n[m[x]] => x \in Seg
        BY <2>4, <3>4 DEF IsCut
      <4>4. m[x] = n[x] => x \in Seg
        BY <1>3, <2>4, <3>1, <3>4 DEF IsCut
      <4> QED
        BY <4>2, <4>3, <4>4 DEF Adjacent
    <3> QED
      BY <3>2, <3>3, <3>4
  <2>5. \A x \in U : m[x] \in U
    BY <1>1, <2>4
  <2>6. U = City
    <3> HIDE DEF U
    <3> QED
      BY <2>3, <2>5 DEF Lacks, IsCycle
  <2> QED
    BY <2>3, <2>6
<1> QED
  BY <1>12, <1>15, <1>16 DEF b, d

Exchanged(n, a, c) == {{a, c}, {n[a], n[c]}} \cup {{x, n[x]} : x \in City \ {a, c}}

LEMMA TwoOptExchanges ==
  ASSUME NEW P, NEW t, NEW n \in [City -> City], NEW a, NEW c, NEW Before, NEW Seg, NEW After,
         IsTwoOpt(P, t, n, a, c, Before, Seg, After)
  PROVE  Undirected(Tnext_2opt(P, t)) = Exchanged(n, a, c)
<1> DEFINE Q == Tnext_2opt(P, t)
           Rest == (Before \ {a}) \cup After
           Turn == Seg \ {c}
<1>1. Q = {<<a, c>>, <<n[a], n[c]>>} \cup Edges(n, Rest) \cup EdgesBack(n, Turn)
  BY DEF IsTwoOpt
<1>2. City \ {a, c} = Rest \cup Turn
  BY DEF IsTwoOpt, IsCut
<1> HIDE DEF Q, Rest, Turn
<1>3. ASSUME NEW e \in Q
      PROVE  {e[1], e[2]} \in Exchanged(n, a, c)
  <2>1. CASE e \in {<<a, c>>, <<n[a], n[c]>>}
    BY <2>1 DEF Exchanged
  <2>2. CASE e \in Edges(n, Rest)
    <3>1. PICK x \in Rest : e = <<x, n[x]>>
      BY <2>2 DEF Edges
    <3>2. {e[1], e[2]} = {x, n[x]} /\ x \in City \ {a, c}
      BY <1>2, <3>1
    <3> QED
      BY <3>2 DEF Exchanged
  <2>3. CASE e \in EdgesBack(n, Turn)
    <3>1. PICK x \in Turn : e = <<n[x], x>>
      BY <2>3 DEF EdgesBack
    <3>2. {e[1], e[2]} = {x, n[x]} /\ x \in City \ {a, c}
      BY <1>2, <3>1
    <3> QED
      BY <3>2 DEF Exchanged
  <2> QED
    BY <1>1, <2>1, <2>2, <2>3
<1>4. \A x, y : <<x, y>> \in Q \/ <<y, x>> \in Q => {x, y} \in Undirected(Q)
  <2> SUFFICES ASSUME NEW x, NEW y, <<x, y>> \in Q PROVE {x, y} \in Undirected(Q)
    OBVIOUS
  <2>1. <<x, y>>[1] = x /\ <<x, y>>[2] = y
    OBVIOUS
  <2> QED
    BY <2>1 DEF Undirected
<1>5. {a, c} \in Undirected(Q) /\ {n[a], n[c]} \in Undirected(Q)
  BY <1>1, <1>4
<1>6. ASSUME NEW x \in City \ {a, c}
      PROVE  {x, n[x]} \in Undirected(Q)
  <2>1. <<x, n[x]>> \in Q \/ <<n[x], x>> \in Q
    BY <1>1, <1>2 DEF Edges, EdgesBack
  <2> QED
    BY <1>4, <2>1
<1>7. Exchanged(n, a, c) \subseteq Undirected(Q)
  BY <1>5, <1>6 DEF Exchanged
<1>8. Undirected(Q) \subseteq Exchanged(n, a, c)
  BY <1>3 DEF Undirected
<1> QED
  BY <1>7, <1>8 DEF Q

LEMMA LacksExchanges ==
  ASSUME NEW n, NEW m, NEW a, NEW c, Lacks(n, m, a, c),
         Adjacent(m, a, c), Adjacent(m, n[a], n[c])
  PROVE  {{x, m[x]} : x \in City} = Exchanged(n, a, c)
<1> DEFINE b == n[a]
           d == n[c]
<1>1. /\ n \in [City -> City] /\ m \in [City -> City]
      /\ \A x, y \in City : n[x] = n[y] => x = y
      /\ \A x \in City : n[x] # x
      /\ a \in City /\ c \in City /\ a # c
      /\ \A x \in City : n[n[x]] # x
      /\ \A x \in City \ {a, c} : Adjacent(m, x, n[x])
  BY DEF Lacks, IsCycle
<1>2. /\ b \in City /\ d \in City /\ b = n[a] /\ d = n[c]
      /\ a # b /\ a # c /\ a # d /\ b # c /\ b # d /\ c # d
  BY <1>1, LostEdgesAreApart
<1>3. Adjacent(m, a, c) /\ Adjacent(m, b, d)
  OBVIOUS
<1>4. /\ {a, c} \in Exchanged(n, a, c) /\ {b, d} \in Exchanged(n, a, c)
      /\ \A x \in City \ {a, c} : {x, n[x]} \in Exchanged(n, a, c)
      /\ Exchanged(n, a, c) = {{a, c}, {b, d}} \cup {{x, n[x]} : x \in City \ {a, c}}
  BY DEF Exchanged
<1> HIDE DEF b, d
<1>5. \A x, y \in City : Adjacent(m, x, y) => Adjacent(m, y, x)
  BY DEF Adjacent
<1>6. \A x, y1, y2, y \in City :
        y1 # y2 /\ Adjacent(m, x, y1) /\ Adjacent(m, x, y2) /\ Adjacent(m, x, y) => y \in {y1, y2}
  BY TwoNeighbours DEF Lacks
<1>7. ASSUME NEW x \in City, NEW y \in City, Adjacent(m, x, y)
      PROVE  {x, y} \in Exchanged(n, a, c)
  <2>1. CASE x = a
    <3>1. PICK z \in City : n[z] = a
      BY <1>1 DEF Lacks, IsCycle
    <3>2. z \in City \ {a, c} /\ n[z] = a
      BY <1>1, <1>2, <3>1
    <3>3. Adjacent(m, a, z)
      BY <1>1, <1>5, <3>2
    <3>4. y \in {c, z}
      BY <1>1, <1>3, <1>6, <1>7, <2>1, <3>2, <3>3
    <3>5. {a, z} = {z, n[z]}
      BY <3>2
    <3> QED
      BY <1>4, <2>1, <3>2, <3>4, <3>5
  <2>2. CASE x = c
    <3>1. PICK z \in City : n[z] = c
      BY <1>1 DEF Lacks, IsCycle
    <3>2. z \in City \ {a, c} /\ n[z] = c
      BY <1>1, <1>2, <3>1
    <3>3. Adjacent(m, c, z) /\ Adjacent(m, c, a)
      BY <1>1, <1>3, <1>5, <3>2
    <3>4. y \in {a, z}
      BY <1>1, <1>6, <1>7, <2>2, <3>2, <3>3
    <3>5. {c, z} = {z, n[z]} /\ {c, a} = {a, c}
      BY <3>2
    <3> QED
      BY <1>4, <2>2, <3>2, <3>4, <3>5
  <2>3. CASE x = b
    <3>1. n[b] \in City /\ n[b] # d /\ Adjacent(m, b, n[b])
      BY <1>1, <1>2
    <3>2. y \in {d, n[b]}
      BY <1>2, <1>3, <1>6, <1>7, <2>3, <3>1
    <3> QED
      BY <1>2, <1>4, <2>3, <3>2
  <2>4. CASE x = d
    <3>1. n[d] \in City /\ n[d] # b /\ Adjacent(m, d, n[d]) /\ Adjacent(m, d, b)
      BY <1>1, <1>2, <1>3, <1>5
    <3>2. y \in {b, n[d]}
      BY <1>2, <1>6, <1>7, <2>4, <3>1
    <3>3. {d, b} = {b, d}
      OBVIOUS
    <3> QED
      BY <1>2, <1>4, <2>4, <3>2, <3>3
  <2>5. CASE x \notin {a, b, c, d}
    <3>1. Adjacent(n, x, y)
      BY <1>2, <1>7, <2>5, Untouched
    <3>2. CASE y = n[x]
      BY <1>4, <2>5, <3>2
    <3>3. CASE x = n[y]
      <4>1. y \in City \ {a, c} /\ {x, y} = {y, n[y]}
        BY <1>2, <2>5, <3>3
      <4> QED
        BY <1>4, <4>1
    <3> QED
      BY <3>1, <3>2, <3>3 DEF Adjacent
  <2> QED
    BY <2>1, <2>2, <2>3, <2>4, <2>5
<1>8. ASSUME NEW x \in City, NEW y \in City, Adjacent(m, x, y)
      PROVE  {x, y} \in {{z, m[z]} : z \in City}
  <2>1. {x, y} = {x, m[x]} \/ {x, y} = {y, m[y]}
    BY <1>8 DEF Adjacent
  <2> QED
    BY <2>1
<1>9. {{x, m[x]} : x \in City} \subseteq Exchanged(n, a, c)
  <2>1. \A x \in City : m[x] \in City /\ Adjacent(m, x, m[x])
    BY <1>1 DEF Adjacent
  <2> QED
    BY <1>7, <2>1
<1>10. Exchanged(n, a, c) \subseteq {{x, m[x]} : x \in City}
  <2>1. {a, c} \in {{x, m[x]} : x \in City} /\ {b, d} \in {{x, m[x]} : x \in City}
    BY <1>1, <1>2, <1>3, <1>8
  <2>2. \A x \in City \ {a, c} : {x, n[x]} \in {{z, m[z]} : z \in City}
    BY <1>1, <1>8
  <2> QED
    BY <1>4, <2>1, <2>2
<1> QED
  BY <1>9, <1>10

(* Two undirected edges of P that Q lacks are two edges of P that Q lacks,  *)
(* one behind the other in the order.                                       *)
LEMMA TwoLostEdges ==
  ASSUME NEW P \in Tours, NEW Q \in Tours, NEW n, n = next(P), NEW m, m = next(Q),
         Cardinality(Undirected(P) \ Undirected(Q)) = 2, NEW R, R = Reach(P)
  PROVE  \E a, c \in City : Lacks(n, m, a, c) /\ <<a, c>> \in R
<1>1. P \subseteq City \X City /\ IsTour(P) /\ Q \subseteq City \X City /\ IsTour(Q)
  BY ToursAreTheModels
<1>2. IsGraph(P, n) /\ IsCycle(n) /\ IsGraph(Q, m) /\ IsCycle(m)
  BY <1>1, TourIsCycle
<1>3. /\ n \in [City -> City] /\ m \in [City -> City]
      /\ \A x, y \in City : {x, y} \in Undirected(P) <=> Adjacent(n, x, y)
      /\ \A x, y \in City : {x, y} \in Undirected(Q) <=> Adjacent(m, x, y)
      /\ Undirected(P) = {{x, n[x]} : x \in City}
  <2>1. n \in [City -> City] /\ m \in [City -> City]
    BY <1>2 DEF IsCycle
  <2> QED
    BY <1>2, <2>1, UndirectedEdges
<1> DEFINE D == Undirected(P) \ Undirected(Q)
<1>4. PICK u, v \in D : u # v /\ D = {u, v}
  <2>1. IsFiniteSet(D) /\ Cardinality(D) = 2
    <3>1. IsFiniteSet(Undirected(P))
      <4>1. Undirected(P) \subseteq SUBSET City
        BY <1>3
      <4>2. IsFiniteSet(SUBSET City)
        BY CityAssumption, FS_SUBSET
      <4> QED
        BY <4>1, <4>2, FS_Subset
    <3> QED
      BY <3>1, FS_Difference
  <2> HIDE DEF D
  <2>2. PICK u \in D : TRUE
    <3>1. D # {}
      BY <2>1, FS_EmptySet
    <3> QED
      BY <3>1
  <2>3. IsFiniteSet(D \ {u}) /\ Cardinality(D \ {u}) = 1
    BY <2>1, <2>2, FS_RemoveElement
  <2>4. PICK v : D \ {u} = {v}
    BY <2>3, FS_Singleton
  <2> QED
    BY <2>2, <2>4
<1>5. PICK x \in City, y \in City : u = {x, n[x]} /\ v = {y, n[y]}
  BY <1>3, <1>4
<1>6. x # y
  BY <1>4, <1>5
<1>7. \A z \in City : n[n[z]] # z /\ m[m[z]] # z
  <2>1. ASSUME NEW z \in City, n[n[z]] = z
        PROVE  FALSE
    <3>1. City = {z, n[z]}
      BY <1>2, <2>1, TurningBack
    <3>2. {z, n[z]} = {n[z], n[n[z]]}
      BY <2>1
    <3> QED
      BY <1>4, <1>5, <3>1, <3>2
  <2>2. ASSUME NEW z \in City, m[m[z]] = z
        PROVE  FALSE
    <3>1. City = {z, m[z]}
      BY <1>2, <2>2, TurningBack
    <3>2. \A w \in City : n[w] # w
      BY <1>2 DEF IsCycle
    <3>3. {x, n[x]} = City /\ {y, n[y]} = City
      BY <1>3, <3>1, <3>2
    <3> QED
      BY <1>4, <1>5, <3>3
  <2> QED
    BY <2>1, <2>2
<1>8. ~Adjacent(m, x, n[x]) /\ ~Adjacent(m, y, n[y])
  BY <1>3, <1>4, <1>5
<1>9. \A z \in City \ {x, y} : Adjacent(m, z, n[z])
  <2> SUFFICES ASSUME NEW z \in City \ {x, y} PROVE Adjacent(m, z, n[z])
    OBVIOUS
  <2>1. \A w \in City : {z, n[z]} = {w, n[w]} => z = w
    BY <1>7
  <2>2. {z, n[z]} \notin D /\ {z, n[z]} \in Undirected(P)
    BY <1>3, <1>4, <1>5, <2>1
  <2> QED
    BY <1>3, <2>2
<1>10. Lacks(n, m, x, y) /\ Lacks(n, m, y, x)
  BY <1>2, <1>6, <1>7, <1>8, <1>9 DEF Lacks
<1>11. <<x, y>> \in R \/ <<y, x>> \in R
  BY <1>2, MINType, ReachIsOrder
<1> QED
  BY <1>10, <1>11

LEMMA TwoOptFindsAll ==
  ASSUME NEW P \in Tours, NEW Q \in Tours, Cardinality(Undirected(P) \ Undirected(Q)) = 2
  PROVE  \E t \in Candidates_2opt(P) : Undirected(Tnext_2opt(P, t)) = Undirected(Q)
<1> DEFINE n == next(P)
           m == next(Q)
           R == Reach(P)
<1>1. P \subseteq City \X City /\ IsTour(P) /\ Q \subseteq City \X City /\ IsTour(Q)
  BY ToursAreTheModels
<1>2. IsGraph(P, n) /\ IsCycle(n) /\ IsGraph(Q, m) /\ IsCycle(m)
  BY <1>1, TourIsCycle
<1>3. n = next(P) /\ m = next(Q) /\ R = Reach(P)
  OBVIOUS
<1> HIDE DEF n, m, R
<1>4. PICK a, c \in City : Lacks(n, m, a, c) /\ <<a, c>> \in R
  BY <1>3, TwoLostEdges
<1>5. a # c /\ n[a] # c
  BY <1>4, LostEdgesAreApart DEF Lacks
<1>6. n[a] # MIN /\ <<n[a], c>> \in R
  BY <1>2, <1>3, <1>4, <1>5, ReachSteps
<1> DEFINE t == <<a, n[a], c, n[c]>>
<1>7. t \in Candidates_2opt(P)
  <2> DEFINE p == <<a, c>>
  <2>1. p \in {q \in City \X City : n[q[1]] # q[2] /\ q[1] # q[2] /\ <<n[q[1]], q[2]>> \in R /\ n[q[1]] # MIN}
    BY <1>5, <1>6
  <2>2. t = <<p[1], n[p[1]], p[2], n[p[2]]>>
    OBVIOUS
  <2> HIDE DEF p, t
  <2> QED
    BY <1>3, <2>1, <2>2 DEF Candidates_2opt
<1>8. PICK n2, a2, c2, Before, Seg, After : IsTwoOpt(P, t, n2, a2, c2, Before, Seg, After)
  BY <1>1, <1>7, TwoOptTour
<1>9. n2 = n /\ a2 = a /\ c2 = c
  BY <1>3, <1>8 DEF IsTwoOpt
<1>10. IsTwoOpt(P, t, n, a, c, Before, Seg, After) /\ IsCut(n, a, c, Before, Seg, After)
  BY <1>8, <1>9 DEF IsTwoOpt
<1>11. Undirected(Tnext_2opt(P, t)) = Exchanged(n, a, c)
  <2>1. n \in [City -> City]
    BY <1>2 DEF IsCycle
  <2> HIDE DEF t
  <2> QED
    BY <1>10, <2>1, TwoOptExchanges
<1>12. Undirected(Q) = Exchanged(n, a, c)
  <2>1. Adjacent(m, a, c) /\ Adjacent(m, n[a], n[c])
    BY <1>4, <1>10, NewEdges
  <2>2. Undirected(Q) = {{x, m[x]} : x \in City}
    BY <1>2, UndirectedEdges
  <2> QED
    BY <1>4, <2>1, <2>2, LacksExchanges
<1> QED
  BY <1>7, <1>11, <1>12

(* In every tour that a walk by the moves reaches, 2opt offers every tour   *)
(* that differs in two edges, whichever way round it is gone.               *)
THEOREM TwoOptIsAlwaysComplete == Walk => []TwoOptIsComplete
<1>1. AtTour => TwoOptIsComplete
  <2> SUFFICES ASSUME AtTour, NEW Q \in Tours, Cardinality(Undirected(dec_Path) \ Undirected(Q)) = 2
               PROVE  Undirected(Q) \in {Undirected(Tnext_2opt(dec_Path, t)) : t \in Candidates_2opt(dec_Path)}
    BY DEF TwoOptIsComplete
  <2>1. \E t \in Candidates_2opt(dec_Path) : Undirected(Tnext_2opt(dec_Path, t)) = Undirected(Q)
    BY TwoOptFindsAll DEF AtTour
  <2> QED
    BY <2>1
<1> QED
  BY <1>1, WalkKeepsTours, PTL DEF Walk

(* A tour is, without direction, the tour gone the other way round.         *)
LEMMA OneWayOrTheOther ==
  ASSUME NEW f, IsCycle(f), NEW g, IsCycle(g),
         \A x, y \in City : Adjacent(f, x, y) <=> Adjacent(g, x, y), City # {}
  PROVE  g = f \/ \A x \in City : f[g[x]] = x
<1>1. /\ f \in [City -> City] /\ g \in [City -> City] /\ MIN \in City
      /\ \A x, y \in City : f[x] = f[y] => x = y
      /\ \A x, y \in City : g[x] = g[y] => x = y
  BY MINType DEF IsCycle
<1>2. \A x \in City : g[x] = f[x] \/ f[g[x]] = x
  BY <1>1 DEF Adjacent
<1>3. CASE g[MIN] = f[MIN]
  <2> DEFINE Along == {x \in City : g[x] = f[x]}
  <2>1. ASSUME NEW x \in Along
        PROVE  f[x] \in Along
    <3>1. CASE f[g[f[x]]] = f[x]
      <4>1. g[f[x]] = x
        BY <1>1, <3>1
      <4>2. City = {x, f[x]}
        BY <1>1, <4>1, TurningBack
      <4>3. f[f[x]] = x
        BY <1>1, <4>2 DEF IsCycle
      <4> QED
        BY <1>1, <4>1, <4>3
    <3> QED
      BY <1>1, <1>2, <3>1
  <2>2. MIN \in Along /\ Along \in SUBSET City
    BY <1>1, <1>3
  <2> HIDE DEF Along
  <2>3. Along = City
    BY <2>1, <2>2 DEF IsCycle
  <2> QED
    BY <1>1, <2>3 DEF Along
<1>4. CASE f[g[MIN]] = MIN
  <2> DEFINE Against == {x \in City : f[g[x]] = x}
  <2>1. ASSUME NEW x \in Against
        PROVE  g[x] \in Against
    <3>1. CASE g[g[x]] = f[g[x]]
      <4>1. City = {x, g[x]} /\ g[g[x]] = x
        BY <1>1, <3>1, TurningBack
      <4>2. f[x] \in {x, g[x]} /\ f[x] # x
        BY <1>1, <4>1 DEF IsCycle
      <4> QED
        BY <1>1, <4>1, <4>2
    <3> QED
      BY <1>1, <1>2, <3>1
  <2>2. MIN \in Against /\ Against \in SUBSET City
    BY <1>1, <1>4
  <2> HIDE DEF Against
  <2>3. Against = City
    BY <2>1, <2>2 DEF IsCycle
  <2> QED
    BY <2>3 DEF Against
<1> QED
  BY <1>1, <1>2, <1>3, <1>4

LEMMA SameEdgesSameLength ==
  ASSUME Symmetric, NEW P \in Tours, NEW Q \in Tours, Undirected(P) = Undirected(Q)
  PROVE  ObjValue(P) = ObjValue(Q)
<1> DEFINE f == next(P)
           g == next(Q)
<1>1. P \subseteq City \X City /\ IsTour(P) /\ Q \subseteq City \X City /\ IsTour(Q)
  BY ToursAreTheModels
<1>2. IsGraph(P, f) /\ IsCycle(f) /\ IsGraph(Q, g) /\ IsCycle(g)
  BY <1>1, TourIsCycle
<1> HIDE DEF f, g
<1>3. P = Edges(f, City) /\ Q = Edges(g, City)
  <2>1. P = From(P, City) /\ Q = From(Q, City)
    BY <1>1 DEF From
  <2> QED
    BY <1>2, <2>1, EdgesFrom
<1>4. CASE City = {}
  <2>1. P = Q
    BY <1>1, <1>4
  <2> QED
    BY <2>1
<1>5. CASE City # {}
  <2>1. \A x, y \in City : {x, y} \in Undirected(P) <=> Adjacent(f, x, y)
    BY <1>2, UndirectedEdges
  <2>2. \A x, y \in City : {x, y} \in Undirected(Q) <=> Adjacent(g, x, y)
    BY <1>2, UndirectedEdges
  <2>3. \A x, y \in City : Adjacent(f, x, y) <=> Adjacent(g, x, y)
    BY <2>1, <2>2
  <2>4. g = f \/ \A x \in City : f[g[x]] = x
    BY <1>2, <1>5, <2>3, OneWayOrTheOther
  <2>5. CASE g = f
    BY <1>3, <2>5
  <2>6. CASE \A x \in City : f[g[x]] = x
    <3>1. f \in [City -> City] /\ g \in [City -> City] /\ \A x, y \in City : f[x] = f[y] => x = y
      BY <1>2 DEF IsCycle
    <3>2. ASSUME NEW x \in City
          PROVE  <<x, f[x]>> \in EdgesBack(g, City)
      <4>1. f[x] \in City /\ g[f[x]] = x
        BY <2>6, <3>1
      <4> QED
        BY <4>1 DEF EdgesBack
    <3>3. ASSUME NEW x \in City
          PROVE  <<g[x], x>> \in Edges(f, City)
      <4>1. g[x] \in City /\ f[g[x]] = x
        BY <2>6, <3>1
      <4>2. <<g[x], f[g[x]]>> \in Edges(f, City)
        BY <4>1 DEF Edges
      <4> QED
        BY <4>1, <4>2
    <3>4. P = EdgesBack(g, City)
      <4>1. P \subseteq EdgesBack(g, City)
        BY <1>3, <3>2 DEF Edges
      <4>2. EdgesBack(g, City) \subseteq P
        BY <1>3, <3>3 DEF EdgesBack
      <4> QED
        BY <4>1, <4>2
    <3>5. ObjValue(EdgesBack(g, City)) = ObjValue(Edges(g, City))
      BY <3>1, TurnedEdges
    <3> QED
      BY <1>3, <3>4, <3>5
  <2> QED
    BY <2>4, <2>5, <2>6
<1> QED
  BY <1>4, <1>5

-----------------------------------------------------------------------------
(* The search. *)

(* What a user promises with the query getDeltaObj_m. *)
DeltasAreExact ==
  \A m \in Modelling, s \in Structure :
    HasDelta(m) =>
      \A t \in ValidMoves(m, s) :
        Neighbor(m, s, t) # NULL => Obj(Neighbor(m, s, t)) = Obj(s) + Delta(m, s, t)

Searching == pc \in {"while", "stop", "done"}

(* The current solution is the best one so far, and the sum its objective. *)
InStep ==
  Searching =>
    /\ initialSol \in Structure
    /\ currentSol \in Structure
    /\ iniObjVal = Obj(initialSol)
    /\ currentObj = Obj(currentSol)
    /\ bestObjVal = currentObj
    /\ currentSol = initialSol \/ currentObj < iniObjVal
    /\ \/ bestSol = currentSol
       \/ bestSol = NULL /\ currentSol = initialSol /\ pc # "done"

NoneImproving ==
  pc \in {"stop", "done"} /\ ~timeout =>
    \A t \in ValidMoves(modelling, currentSol) :
      HasDelta(modelling) /\ Delta(modelling, currentSol, t) >= 0

NothingYet == pc = "start" => currentSol = NULL

IInv == TypeOK /\ InStep /\ NoneImproving /\ NothingYet

(* What holds whatever the deltas are. *)
TInv == TypeOK /\ (Searching => initialSol \in Structure /\ currentSol \in Structure)

-----------------------------------------------------------------------------

LEMMA BoundType == Timeout \in Nat /\ ClockBound \in Nat /\ ClockBound > Timeout
  BY ServiceTypes DEF ServiceTypes, ClockBound

LEMMA ObjType == \A s \in Structure : s # NULL /\ Obj(s) \in Int
  BY ServiceTypes DEF ServiceTypes

LEMMA MoveTypes ==
  ASSUME NEW m \in Modelling, NEW s \in Structure
  PROVE  \A t \in ValidMoves(m, s) : /\ Neighbor(m, s, t) \in Structure \cup {NULL}
                                     /\ Delta(m, s, t) \in Int
  BY ServiceTypes DEF ServiceTypes

(* A pass that finds no best move has found no improving one. *)
LEMMA NoBestMove ==
  ASSUME modelling \in Modelling, currentSol \in Structure, BestMoves = {},
         NEW t \in ValidMoves(modelling, currentSol)
  PROVE  Delta(modelling, currentSol, t) >= 0
<1>1. PICK b \in ValidMoves(modelling, currentSol) :
        \A u \in ValidMoves(modelling, currentSol) :
          Delta(modelling, currentSol, b) <= Delta(modelling, currentSol, u)
  <2> DEFINE table == ValidMoves(modelling, currentSol)
             d == [u \in table |-> Delta(modelling, currentSol, u)]
  <2>1. IsFiniteSet(table) /\ table # {} /\ \A u \in table : d[u] \in Int
    BY TablesAreFinite, MoveTypes
  <2> HIDE DEF d
  <2>2. \E b \in table : \A u \in table : d[b] <= d[u]
    BY <2>1, LeastValue
  <2> QED
    BY <2>2 DEF d
<1>2. ~(Delta(modelling, currentSol, b) < 0)
  BY <1>1 DEF BestMoves
<1> QED
  BY <1>1, <1>2, MoveTypes

LEMMA InitIInv == Init => IInv
<1> SUFFICES ASSUME Init PROVE IInv
  OBVIOUS
<1>1. TypeOK
  BY BoundType DEF Init, BaseInit, TypeOK, BaseTypeOK, Labels
<1> QED
  BY <1>1 DEF Init, BaseInit, IInv, InStep, Searching, NoneImproving, NothingYet

LEMMA CrashIInv ==
  ASSUME IInv, Crash
  PROVE  IInv'
  BY DEF IInv, TypeOK, BaseTypeOK, Labels, Crash, solutions, initial, best, current, InStep,
     Searching, NoneImproving, NothingYet

(* What a pass ends in: a neighbour that is better by the delta. *)
LEMMA PassStep ==
  ASSUME DeltasAreExact, IInv, Pass
  PROVE  \/ Crash
         \/ \E t \in BestMoves, s \in Structure :
              /\ s = Neighbor(modelling, currentSol, t)
              /\ Obj(s) = currentObj + Delta(modelling, currentSol, t)
              /\ Obj(s) < currentObj
              /\ MoveTo(s, Obj(s))
              /\ pc = "while" /\ UNCHANGED <<pc, modelling, clock, initial>>
<1>1. /\ pc = "while" /\ HasDelta(modelling)
      /\ modelling \in Modelling /\ currentSol \in Structure
      /\ currentObj = Obj(currentSol) /\ currentObj \in Int
  BY ObjType DEF Pass, IInv, TypeOK, BaseTypeOK, InStep, Searching
<1> SUFFICES ASSUME NEW t \in BestMoves, NEW s \in getNeighborSolution(t), s # NULL,
                    MoveTo(s, currentObj + Delta(modelling, currentSol, t)),
                    UNCHANGED <<pc, modelling, clock, initial>>
             PROVE  /\ s \in Structure /\ s = Neighbor(modelling, currentSol, t)
                    /\ Obj(s) = currentObj + Delta(modelling, currentSol, t)
                    /\ Obj(s) < currentObj
  BY <1>1 DEF Pass
<1>2. t \in ValidMoves(modelling, currentSol) /\ Delta(modelling, currentSol, t) < 0
  BY DEF BestMoves
<1>3. s \in Structure /\ s = Neighbor(modelling, currentSol, t)
  BY <1>1, <1>2, MoveTypes DEF getNeighborSolution, FirstModel
<1>4. Obj(s) = currentObj + Delta(modelling, currentSol, t)
  BY <1>1, <1>2, <1>3, ObjType DEF DeltasAreExact
<1> QED
  BY <1>1, <1>2, <1>3, <1>4, MoveTypes

LEMMA NextIInv ==
  ASSUME DeltasAreExact
  PROVE  IInv /\ [Next]_vars => IInv'
<1> SUFFICES ASSUME IInv, [Next]_vars PROVE IInv'
  OBVIOUS
<1> USE DEF initial, best, current, solutions, baseVars
<1>1. CASE Start
  <2>1. ASSUME NEW s \in Structure, GetInitialSolution(s)
        PROVE  IInv'
    BY <2>1, ObjType DEF GetInitialSolution, IInv, TypeOK, BaseTypeOK, Labels, InStep, Searching,
       NoneImproving, NothingYet
  <2> QED
    BY <1>1, <2>1, CrashIInv DEF Start, BaseStart
<1>2. CASE LeaveLoop
  BY <1>2 DEF LeaveLoop, TimeoutAtHead, Goto, timeout, IInv, TypeOK, BaseTypeOK, Labels, InStep,
     Searching, NoneImproving, NothingYet
<1>3. CASE BadQuery \/ NoDeltaQuery
  BY <1>3, CrashIInv DEF BadQuery, GarbageQuery, NoDeltaQuery
<1>4. CASE Pass
  <2>1. ASSUME NEW s \in Structure, Obj(s) < currentObj, MoveTo(s, Obj(s)), pc = "while",
               UNCHANGED <<pc, modelling, clock, initial>>
        PROVE  IInv'
    BY <2>1, ObjType DEF MoveTo, KeepIfBetter, IInv, TypeOK, BaseTypeOK, InStep, Searching,
       NoneImproving, NothingYet
  <2> QED
    BY <1>4, <2>1, CrashIInv, PassStep
<1>5. CASE LocalOptimum
  <2>1. /\ pc = "while" /\ pc' = "stop" /\ UNCHANGED <<modelling, clock, solutions>>
        /\ modelling \in Modelling /\ currentSol \in Structure /\ BestMoves = {}
        /\ ValidMoves(modelling, currentSol) # {} => HasDelta(modelling)
    BY <1>5 DEF LocalOptimum, Goto, IInv, TypeOK, BaseTypeOK, InStep, Searching
  <2>2. TypeOK' /\ InStep'
    BY <2>1 DEF IInv, TypeOK, BaseTypeOK, Labels, InStep, Searching
  <2>3. NoneImproving'
    BY <2>1, NoBestMove DEF NoneImproving
  <2> QED
    BY <2>1, <2>2, <2>3 DEF IInv, NothingYet
<1>6. CASE Finish
  <2>1. TypeOK' /\ InStep'
    BY <1>6, ObjType DEF Finish, FinalObjective, CopyInitialIfNoneBetter, IInv, TypeOK,
       BaseTypeOK, Labels, InStep, Searching
  <2>2. NoneImproving'
    BY <1>6 DEF Finish, IInv, NoneImproving, timeout
  <2> QED
    BY <1>6, <2>1, <2>2 DEF Finish, IInv, NothingYet
<1>7. CASE TimePasses
  <2>1. TypeOK' /\ InStep'
    BY <1>7, BoundType DEF TimePasses, Tick, TimeLeft, IInv, TypeOK, BaseTypeOK, InStep, Searching
  <2>2. ~timeout' => ~timeout
    BY <1>7, BoundType DEF TimePasses, Tick, timeout, IInv, TypeOK, BaseTypeOK
  <2>3. NoneImproving'
    BY <1>7, <2>2 DEF TimePasses, Tick, IInv, NoneImproving
  <2> QED
    BY <1>7, <2>1, <2>3 DEF TimePasses, Tick, IInv, NothingYet
<1>8. CASE UNCHANGED vars
  BY <1>8 DEF vars, IInv, TypeOK, BaseTypeOK, InStep, Searching, NoneImproving, NothingYet, timeout
<1> QED
  BY <1>1, <1>2, <1>3, <1>4, <1>5, <1>6, <1>7, <1>8 DEF Next, Step

-----------------------------------------------------------------------------

(* BestImprovementSearch::doSearch is always in a state of its types,       *)
(* whatever deltas the user's query returns.                                *)
THEOREM TypeCorrect == Spec => []TypeOK
<1> USE DEF initial, best, current, solutions, baseVars
<1>1. Init => TInv
  BY BoundType DEF Init, BaseInit, TInv, TypeOK, BaseTypeOK, Labels, Searching
<1>2. TInv /\ [Next]_vars => TInv'
  <2> SUFFICES ASSUME TInv, [Next]_vars PROVE TInv'
    OBVIOUS
  <2>1. CASE Crash
    BY <2>1 DEF Crash, TInv, TypeOK, BaseTypeOK, Labels, Searching
  <2>2. ASSUME NEW s \in Structure, GetInitialSolution(s)
        PROVE  TInv'
    BY <2>2, ObjType DEF GetInitialSolution, TInv, TypeOK, BaseTypeOK, Labels, Searching
  <2>3. CASE LeaveLoop \/ LocalOptimum
    BY <2>3 DEF LeaveLoop, LocalOptimum, TimeoutAtHead, Goto, TInv, TypeOK, BaseTypeOK, Labels,
       Searching
  <2>4. CASE Pass /\ ~Crash
    <3>1. PICK t \in BestMoves : \E s \in getNeighborSolution(t) :
            /\ s # NULL /\ MoveTo(s, currentObj + Delta(modelling, currentSol, t))
            /\ pc = "while" /\ UNCHANGED <<pc, modelling, clock, initial>>
      BY <2>4 DEF Pass
    <3>2. /\ modelling \in Modelling /\ currentSol \in Structure
          /\ t \in ValidMoves(modelling, currentSol)
      BY <3>1 DEF BestMoves, TInv, TypeOK, BaseTypeOK, Searching
    <3>3. PICK s \in Structure :
            /\ MoveTo(s, currentObj + Delta(modelling, currentSol, t))
            /\ pc = "while" /\ UNCHANGED <<pc, modelling, clock, initial>>
      BY <3>1, <3>2, MoveTypes DEF getNeighborSolution, FirstModel
    <3>4. currentObj + Delta(modelling, currentSol, t) \in Int
      BY <3>2, MoveTypes DEF TInv, TypeOK, BaseTypeOK
    <3> QED
      BY <3>3, <3>4 DEF MoveTo, KeepIfBetter, TInv, TypeOK, BaseTypeOK, Searching
  <2>5. CASE Finish
    BY <2>5, ObjType DEF Finish, FinalObjective, CopyInitialIfNoneBetter, TInv, TypeOK,
       BaseTypeOK, Labels, Searching
  <2>6. CASE TimePasses
    BY <2>6, BoundType DEF TimePasses, Tick, TimeLeft, TInv, TypeOK, BaseTypeOK, Searching
  <2>7. CASE UNCHANGED vars
    BY <2>7 DEF vars, TInv, TypeOK, BaseTypeOK, Searching
  <2> QED
    BY <2>1, <2>2, <2>3, <2>4, <2>5, <2>6, <2>7
    DEF Next, Step, Start, BaseStart, BadQuery, GarbageQuery, NoDeltaQuery
<1>3. TInv => TypeOK
  BY DEF TInv
<1> QED
  BY <1>1, <1>2, <1>3, PTL DEF Spec

(* With exact deltas, doSearch returns within its time limit only when no   *)
(* valid move leads to a better solution.                                   *)
THEOREM StopsOnlyInLocalOptimum ==
  ASSUME DeltasAreExact
  PROVE  Spec => []StopsInLocalOptimum
<1>1. IInv => StopsInLocalOptimum
  <2> SUFFICES ASSUME IInv, pc = "done", ~timeout,
                      NEW t \in ValidMoves(modelling, currentSol),
                      Neighbor(modelling, currentSol, t) # NULL
               PROVE  Obj(Neighbor(modelling, currentSol, t)) >= Obj(currentSol)
    BY DEF StopsInLocalOptimum
  <2>1. modelling \in Modelling /\ currentSol \in Structure
    BY DEF IInv, TypeOK, BaseTypeOK, InStep, Searching
  <2>2. /\ HasDelta(modelling)
        /\ Delta(modelling, currentSol, t) >= 0 /\ Delta(modelling, currentSol, t) \in Int
    BY <2>1, MoveTypes DEF IInv, NoneImproving
  <2>3. Obj(Neighbor(modelling, currentSol, t)) = Obj(currentSol) + Delta(modelling, currentSol, t)
    BY <2>1, <2>2 DEF DeltasAreExact
  <2> QED
    BY <2>1, <2>2, <2>3, ObjType
<1>2. IInv /\ [Next]_vars => IInv'
  BY NextIInv
<1> QED
  BY <1>1, <1>2, InitIInv, PTL DEF Spec

(* With exact deltas, every move of doSearch goes to a neighbour of least   *)
(* objective.                                                               *)
THEOREM DescendsSteepest ==
  ASSUME DeltasAreExact
  PROVE  Spec => SteepestDescent
<1> DEFINE Steepest ==
      currentSol # NULL /\ currentSol' # currentSol =>
        \A t \in ValidMoves(modelling, currentSol) :
          Neighbor(modelling, currentSol, t) # NULL =>
            Obj(currentSol') <= Obj(Neighbor(modelling, currentSol, t))
<1>1. IInv /\ [Next]_vars => [Steepest]_vars
  <2> SUFFICES ASSUME IInv, Next, currentSol # NULL, currentSol' # currentSol,
                      NEW u \in ValidMoves(modelling, currentSol),
                      Neighbor(modelling, currentSol, u) # NULL
               PROVE  Obj(currentSol') <= Obj(Neighbor(modelling, currentSol, u))
    OBVIOUS
  <2> USE DEF initial, best, current, solutions, baseVars
  <2>1. Start \/ Pass
    BY DEF Next, Step, LeaveLoop, TimeoutAtHead, Goto, BadQuery, GarbageQuery, NoDeltaQuery, Crash,
       LocalOptimum, Finish, TimePasses, Tick
  <2>2. CASE Start
    BY <2>2 DEF Start, BaseStart, GetInitialSolution, Crash, IInv, NothingYet
  <2>3. CASE Pass
    <3>1. PICK t \in BestMoves, s \in Structure :
            /\ pc = "while" /\ MoveTo(s, Obj(s))
            /\ Obj(s) = currentObj + Delta(modelling, currentSol, t)
      BY <2>3, PassStep DEF Crash
    <3>2. /\ currentSol' = s /\ currentObj = Obj(currentSol) /\ currentSol \in Structure
          /\ modelling \in Modelling
      BY <3>1 DEF MoveTo, IInv, TypeOK, BaseTypeOK, InStep, Searching
    <3>3. /\ t \in ValidMoves(modelling, currentSol)
          /\ Delta(modelling, currentSol, t) <= Delta(modelling, currentSol, u)
      BY DEF BestMoves
    <3>4. HasDelta(modelling)
      BY <2>3 DEF Pass
    <3>5. Obj(Neighbor(modelling, currentSol, u)) = Obj(currentSol) + Delta(modelling, currentSol, u)
      BY <3>2, <3>4 DEF DeltasAreExact
    <3> QED
      BY <3>1, <3>2, <3>3, <3>5, MoveTypes, ObjType
  <2> QED
    BY <2>1, <2>2, <2>3
<1>2. IInv /\ [Next]_vars => IInv'
  BY NextIInv
<1> QED
  BY <1>1, <1>2, InitIInv, PTL DEF Spec, SteepestDescent

(* To its caller, a step of the search is a step of the contract or none.   *)
LEMMA StepKeepsContract ==
  ASSUME DeltasAreExact
  PROVE  IInv /\ IInv' /\ [Next]_vars => [Contract!Next]_(Contract!contractVars)
<1> SUFFICES ASSUME IInv, IInv', [Next]_vars
             PROVE  [Contract!Next]_(Contract!contractVars)
  OBVIOUS
<1> USE DEF Contract!contractVars
<1> USE DEF initial, best, current, solutions, baseVars
<1>1. ASSUME Crash, pc \notin {"done", "crashed"}
      PROVE  Contract!Next
  BY <1>1 DEF Crash, Contract!Fail, Contract!Next
<1>2. CASE Start
  <2>1. ASSUME NEW s \in Structure, GetInitialSolution(s)
        PROVE  Contract!Next
    BY <2>1 DEF GetInitialSolution, Contract!Begin, Contract!Next
  <2> QED
    BY <1>1, <1>2, <2>1 DEF Start, BaseStart
<1>3. CASE BadQuery \/ NoDeltaQuery
  BY <1>1, <1>3 DEF BadQuery, GarbageQuery, NoDeltaQuery
<1>4. CASE LeaveLoop \/ LocalOptimum
  BY <1>4 DEF LeaveLoop, TimeoutAtHead, LocalOptimum, Goto
<1>5. CASE Pass
  <2>1. CASE Crash
    BY <1>1, <1>5, <2>1 DEF Pass
  <2>2. CASE pc = "while" /\ UNCHANGED <<pc, modelling, clock, initial>>
    BY <2>2
  <2> QED
    BY <1>5, <2>1, <2>2, PassStep
<1>6. CASE Finish
  <2>1. /\ pc = "stop" /\ pc' = "done" /\ initialSol' = initialSol
        /\ bestSol' \in Structure /\ bestObjVal' = Obj(bestSol')
        /\ bestSol' = initialSol \/ Obj(bestSol') < Obj(initialSol)
    BY <1>6, ObjType DEF Finish, FinalObjective, CopyInitialIfNoneBetter, IInv, InStep, Searching
  <2>2. Contract!Return
    BY <2>1 DEF Contract!Return, Contract!Promised
  <2> QED
    BY <2>2 DEF Contract!Next
<1>7. CASE TimePasses
  BY <1>7 DEF TimePasses, Tick
<1>8. CASE UNCHANGED vars
  BY <1>8 DEF vars
<1> QED
  BY <1>2, <1>3, <1>4, <1>5, <1>6, <1>7, <1>8 DEF Next, Step

(* With exact deltas, doSearch implements the contract of a search.         *)
THEOREM ImplementsContract ==
  ASSUME DeltasAreExact
  PROVE  Spec => KeepsContract
<1>1. Init => Contract!Init
  BY DEF Init, BaseInit, Contract!Init
<1>2. IInv /\ [Next]_vars => IInv'
  BY NextIInv
<1>3. IInv /\ IInv' /\ [Next]_vars => [Contract!Next]_(Contract!contractVars)
  BY StepKeepsContract
<1> QED
  BY <1>1, <1>2, <1>3, InitIInv, PTL DEF Spec, KeepsContract, Contract!Spec

-----------------------------------------------------------------------------
(* The safety half of termination. *)
StepsLeft ==
  CASE pc = "while"               -> 2
    [] pc = "stop"                -> 1
    [] pc \in {"done", "crashed"} -> 0

ComesCloser ==
  /\ pc' # "start"
  /\ \/ pc = "start"
     \/ Obj(currentSol') < Obj(currentSol)
     \/ currentSol' = currentSol /\ StepsLeft' < StepsLeft /\ StepsLeft' >= 0

(* No step of doSearch goes on for nothing. *)
StepsComeCloser == [][Step => ComesCloser]_vars

(* With exact deltas, every pass of doSearch lowers the objective, or it is *)
(* the last: a search in which objectives cannot fall for ever has no       *)
(* infinite sequence of steps, whatever the clock does.                     *)
THEOREM EveryStepComesCloser ==
  ASSUME DeltasAreExact
  PROVE  Spec => StepsComeCloser
<1>1. ASSUME IInv, Step PROVE ComesCloser
  <2> USE DEF initial, best, current, solutions
  <2>1. CASE Start
    BY <2>1 DEF Start, BaseStart, GetInitialSolution, Crash, ComesCloser
  <2>2. ASSUME pc = "while", pc' \in {"stop", "crashed"}, UNCHANGED currentSol
        PROVE  ComesCloser
    <3>1. StepsLeft = 2 /\ StepsLeft' \in {0, 1}
      BY <2>2 DEF StepsLeft
    <3> QED
      BY <2>2, <3>1 DEF ComesCloser
  <2>3. CASE LeaveLoop \/ BadQuery \/ NoDeltaQuery \/ LocalOptimum
    BY <2>2, <2>3 DEF LeaveLoop, TimeoutAtHead, BadQuery, GarbageQuery, NoDeltaQuery, LocalOptimum,
       Goto, Crash
  <2>4. CASE Pass
    <3>1. pc = "while" /\ currentObj = Obj(currentSol)
      BY <1>1, <2>4 DEF Pass, IInv, InStep, Searching
    <3>2. CASE Crash
      BY <2>2, <3>1, <3>2 DEF Crash
    <3>3. ASSUME NEW s \in Structure, Obj(s) < currentObj, MoveTo(s, Obj(s)), UNCHANGED pc
          PROVE  ComesCloser
      BY <3>1, <3>3 DEF MoveTo, ComesCloser
    <3> QED
      BY <1>1, <2>4, <3>2, <3>3, PassStep
  <2>5. CASE Finish
    <3>1. pc = "stop" /\ pc' = "done" /\ UNCHANGED currentSol
      BY <2>5 DEF Finish
    <3>2. StepsLeft = 1 /\ StepsLeft' = 0
      BY <3>1 DEF StepsLeft
    <3> QED
      BY <3>1, <3>2 DEF ComesCloser
  <2> QED
    BY <1>1, <2>1, <2>3, <2>4, <2>5 DEF Step
<1>2. IInv /\ [Next]_vars => [Step => ComesCloser]_vars
  BY <1>1
<1>3. IInv /\ [Next]_vars => IInv'
  BY NextIInv
<1> QED
  BY <1>2, <1>3, InitIInv, PTL DEF Spec, StepsComeCloser

-----------------------------------------------------------------------------
(* Best improvement search on tsp.idp. *)

(* The services of the search are the blocks of tsp.idp. *)
ServesTSP ==
  /\ Structure = Tours
  /\ Modelling \subseteq Moves
  /\ NoTour = NULL
  /\ \A P \in Tours : Obj(P) = ObjValue(P)
  /\ \A m \in Modelling, P \in Tours :
       /\ ValidMoves(m, P) = getValidMoves(m, P)
       /\ \A t \in getValidMoves(m, P) : /\ Neighbor(m, P, t) = SearchNeighbor(m, P, t)
                                         /\ Delta(m, P, t) = SearchDelta(m, P, t)

LEMMA TSPMove ==
  ASSUME ServesTSP, "2opt" \in Modelling => Symmetric,
         NEW m \in Modelling, NEW P \in Structure, NEW t \in ValidMoves(m, P)
  PROVE  /\ Neighbor(m, P, t) = Tnext(m, P, t) /\ Tnext(m, P, t) \in Structure
         /\ Obj(Tnext(m, P, t)) = Obj(P) + Delta(m, P, t)
         /\ Delta(m, P, t) = getDeltaObj(m, t)
<1>1. P \in Tours /\ m \in Moves /\ t \in getValidMoves(m, P)
  BY DEF ServesTSP
<1>2. t \in Candidates(m, P)
  BY <1>1 DEF getValidMoves
<1>3. Tnext(m, P, t) \in Tours /\ IsTour(Tnext(m, P, t))
  BY <1>1, <1>2, CandidatesKeepTours, ToursAreTheModels
<1>4. ObjValue(Tnext(m, P, t)) = ObjValue(P) + getDeltaObj(m, t)
  BY <1>1, <1>2, CandidatesHaveExactDelta
<1> QED
  BY <1>1, <1>3, <1>4 DEF ServesTSP, SearchNeighbor, SearchDelta

(* The user of tsp.idp keeps the promise the search relies on, where the   *)
(* distances are symmetric or 2opt is not among the moves.                  *)
THEOREM TSPKeepsPromise ==
  ASSUME ServesTSP, "2opt" \in Modelling => Symmetric
  PROVE  DeltasAreExact
  BY TSPMove DEF DeltasAreExact

(* There the search implements its contract: what it returns is the tour it *)
(* began with or a shorter one, and what it reports is that tour's length.  *)
(* On asymmetric distances it may return a longer one with 2opt.            *)
THEOREM TSPSearchKeepsContract ==
  ASSUME ServesTSP, "2opt" \in Modelling => Symmetric
  PROVE  Spec => KeepsContract
  BY TSPKeepsPromise, ImplementsContract

(* The 2-optimal tours: none that differs in two edges is shorter. *)
TwoOptimal(P) ==
  \A Q \in Tours :
    Cardinality(Undirected(P) \ Undirected(Q)) = 2 => ObjValue(Q) >= ObjValue(P)

ResultIsTwoOptimal ==
  pc = "done" /\ ~timeout /\ modelling = "2opt" => TwoOptimal(bestSol)

LEMMA TwoOptDeltaType ==
  ASSUME NEW P \in Tours, NEW t \in Candidates_2opt(P)
  PROVE  getDeltaObj("2opt", t) \in Int
<1> DEFINE n == next(P)
           R == Reach(P)
<1>1. P \subseteq City \X City /\ IsTour(P)
  BY ToursAreTheModels
<1>2. n \in [City -> City]
  BY <1>1, TourIsCycle DEF IsCycle
<1> HIDE DEF n, R
<1>3. PICK A, C \in City :
        /\ t = <<A, n[A], C, n[C]>>
        /\ n[A] # C /\ A # C /\ n[A] # MIN /\ <<n[A], C>> \in R
  BY <1>1, TwoOptCities DEF n, R
<1>4. /\ <<A, C>> \in City \X City /\ <<n[A], n[C]>> \in City \X City
      /\ <<A, n[A]>> \in City \X City /\ <<C, n[C]>> \in City \X City
  BY <1>2
<1> QED
  BY <1>3, <1>4, DistanceIsFunction DEF getDeltaObj, getDeltaObj_2opt

(* A local optimum of 2opt is 2-optimal, since no exchange is missed. *)
LEMMA LocalOptimumIsTwoOptimal ==
  ASSUME Symmetric, NEW P \in Tours, getValidMoves("2opt", P) = {}
  PROVE  TwoOptimal(P)
<1> SUFFICES ASSUME NEW Q \in Tours, Cardinality(Undirected(P) \ Undirected(Q)) = 2
             PROVE  ObjValue(Q) >= ObjValue(P)
  BY DEF TwoOptimal
<1>1. PICK t \in Candidates_2opt(P) : Undirected(Tnext_2opt(P, t)) = Undirected(Q)
  BY TwoOptFindsAll
<1> DEFINE N == Tnext("2opt", P, t)
<1>2. "2opt" \in Moves /\ t \in Candidates("2opt", P) /\ N = Tnext_2opt(P, t)
  BY DEF Moves, Candidates, Tnext
<1>3. N \in Tours /\ ObjValue(N) = ObjValue(P) + getDeltaObj("2opt", t)
  BY <1>2, CandidatesKeepTours, CandidatesHaveExactDelta
<1>4. ObjValue(N) = ObjValue(Q)
  BY <1>1, <1>2, <1>3, SameEdgesSameLength
<1>5. ~(getDeltaObj("2opt", t) < 0)
  BY <1>2 DEF getValidMoves
<1>6. getDeltaObj("2opt", t) \in Int /\ ObjValue(P) \in Int
  <2>1. P \in SUBSET Pairs
    BY ToursAreTheModels DEF Pairs
  <2>2. getDeltaObj("2opt", t) \in Int
    BY <1>1, TwoOptDeltaType
  <2> QED
    BY <2>1, <2>2, ObjValueAdds
<1> QED
  BY <1>3, <1>4, <1>5, <1>6

(* On every instance of the travelling salesman problem with symmetric      *)
(* distances, doSearch with the move 2opt returns within its time limit     *)
(* only a 2-optimal tour.                                                   *)
THEOREM ReturnsTwoOptimalTour ==
  ASSUME Symmetric, ServesTSP
  PROVE  Spec => []ResultIsTwoOptimal
<1>1. IInv => ResultIsTwoOptimal
  <2> SUFFICES ASSUME IInv, pc = "done", ~timeout, modelling = "2opt" PROVE TwoOptimal(bestSol)
    BY DEF ResultIsTwoOptimal
  <2>1. bestSol = currentSol /\ currentSol \in Structure /\ modelling \in Modelling
    BY DEF IInv, TypeOK, BaseTypeOK, InStep, Searching
  <2>2. currentSol \in Tours /\ ValidMoves(modelling, currentSol) = getValidMoves("2opt", currentSol)
    BY <2>1 DEF ServesTSP
  <2>3. ASSUME NEW t \in getValidMoves("2opt", currentSol)
        PROVE  FALSE
    <3>1. getDeltaObj("2opt", t) < 0
      BY DEF getValidMoves
    <3>2. Delta(modelling, currentSol, t) >= 0
      BY <2>2 DEF IInv, NoneImproving
    <3>3. Delta(modelling, currentSol, t) = getDeltaObj("2opt", t)
      BY <2>1, <2>2, TSPMove
    <3>4. Delta(modelling, currentSol, t) \in Int
      BY <2>1, <2>2, MoveTypes
    <3> QED
      BY <3>1, <3>2, <3>3, <3>4
  <2> QED
    BY <2>1, <2>2, <2>3, LocalOptimumIsTwoOptimal
<1>2. IInv /\ [Next]_vars => IInv'
  BY TSPKeepsPromise, NextIInv
<1> QED
  BY <1>1, <1>2, InitIInv, PTL DEF Spec
=============================================================================
