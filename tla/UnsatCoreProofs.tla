--------------------------- MODULE UnsatCoreProofs ---------------------------
(***************************************************************************)
(* Left alone, minimizeAssumps returns a minimal set of assumptions without *)
(* a model, whatever the problem and whatever the explanations of the      *)
(* solver.  It never tries an assumption twice: what was necessary beside  *)
(* more assumptions is necessary beside fewer.  Disturbed, it loses at     *)
(* most one assumption of each kind.                                       *)
(***************************************************************************)
EXTENDS UnsatCore, FiniteSetTheorems, TLAPS

(* The core with what is left out for the moment. *)
Whole == IF pc = "solve" THEN core \cup elem ELSE core

(* The assumptions the loops have tried and put back. *)
Tried == IF array = "assumeTrue" THEN (core \cap AssumeTrue) \ todo ELSE core \ todo

Minimising == pc \in {"loop", "solve", "done"}

WholeIsUnsat == Minimising => Whole \in unsats

TriedAreNecessary == Minimising => \A x \in Tried : Whole \ {x} \notin unsats

AllTried == pc = "done" => Tried = core

OneKind ==
  /\ todo \subseteq Kind(array)
  /\ pc = "loop" => elem = {}
  /\ pc = "solve" => elem \subseteq Kind(array) /\ \E e \in Assumptions : elem = {e}

IInv ==
  /\ TypeOK
  /\ ~Disturbed => /\ shouldTerminate = FALSE
                   /\ OneKind /\ WholeIsUnsat /\ TriedAreNecessary /\ AllTried

-----------------------------------------------------------------------------

(* What is unsatisfiable stays so with more assumptions. *)
LEMMA Monotone ==
  ASSUME TypeOK, NEW A \in unsats, NEW B \in SUBSET Assumptions, A \subseteq B
  PROVE  B \in unsats
  BY DEF TypeOK, Problems

LEMMA GoalType ==
  ASSUME NEW c \in SUBSET Assumptions
  PROVE  Cardinality(c) \in Nat
  BY UnsatCoreAssumption, FS_Subset, FS_CardinalityType

LEMMA BoundTypes == MaxRequests \in Nat /\ MaxLimits \in Nat
  BY UnsatCoreAssumption

LEMMA InitIInv == Init => IInv
<1> SUFFICES ASSUME Init PROVE IInv
  OBVIOUS
<1>1. TypeOK
  <2>1. requests \in 0 .. MaxRequests /\ limits \in 0 .. MaxLimits
    BY BoundTypes DEF Init
  <2> QED
    BY <2>1 DEF Init, TypeOK
<1>2. shouldTerminate = FALSE /\ OneKind /\ WholeIsUnsat /\ TriedAreNecessary /\ AllTried
  BY <1>1 DEF Init, OneKind, Minimising, WholeIsUnsat, TriedAreNecessary, AllTried, TypeOK
<1> QED
  BY <1>1, <1>2 DEF IInv

(* What an undisturbed expansion answers is so. *)
LEMMA UndisturbedAnswer ==
  ASSUME IInv, NEW A \in SUBSET Assumptions, NEW r \in Answers,
         Expand(A, r), UNCHANGED requests, ~Disturbed'
  PROVE  /\ ~Disturbed /\ shouldTerminate' = FALSE /\ ~r.interrupted
         /\ r.unsat => r.explanation \in unsats /\ r.explanation \subseteq A
         /\ ~r.unsat => A \notin unsats
<1>1. ~Disturbed /\ UNCHANGED limits
  <2>1. limits \in Nat
    BY DEF IInv, TypeOK
  <2>2. limits' = 0 /\ requests = 0
    BY DEF IInv, TypeOK, Disturbed, Expand
  <2> QED
    BY <2>1, <2>2 DEF Disturbed, Expand
<1>2. ~shouldTerminate /\ shouldTerminate' = FALSE
  BY <1>1 DEF IInv, Expand
<1>3. r \in Undisturbed(A)
  BY <1>1, <1>2 DEF Expand, IInv, TypeOK
<1> QED
  BY <1>1, <1>2, <1>3 DEF Undisturbed, Refuted, Answer

-----------------------------------------------------------------------------
(* Types. *)

LEMMA BeginType ==
  ASSUME NEW a \in {"assumeTrue", "assumeFalse"}, NEW c \in SUBSET Assumptions, Begin(a, c)
  PROVE  /\ pc' = "loop" /\ array' = a /\ core' = c /\ todo' \subseteq c /\ elem' = {}
         /\ goal' \in Nat
  BY GoalType DEF Begin

LEMMA ExpandType ==
  ASSUME TypeOK, NEW A, NEW r, Expand(A, r)
  PROVE  limits' \in 0 .. MaxLimits /\ shouldTerminate' \in BOOLEAN
<1>1. UNCHANGED limits \/ (limits < MaxLimits /\ limits' = limits + 1)
  BY DEF Expand
<1>2. limits \in 0 .. MaxLimits
  BY DEF TypeOK
<1>3. limits' \in 0 .. MaxLimits
  BY <1>1, <1>2, BoundTypes
<1> QED
  BY <1>3 DEF Expand

LEMMA EndArrayType ==
  ASSUME TypeOK, EndArray
  PROVE  /\ pc' \in {"loop", "done"} /\ array' \in {"assumeTrue", "assumeFalse"}
         /\ core' = core /\ todo' \subseteq core /\ elem' \subseteq Assumptions \ core
         /\ goal' \in Nat
  BY BeginType DEF EndArray, TypeOK

LEMMA TypePreserved == TypeOK /\ [Next]_vars => TypeOK'
<1> SUFFICES ASSUME TypeOK, [Next]_vars PROVE TypeOK'
  OBVIOUS
<1>1. CASE FirstSolve
  <2>1. PICK r \in Answers :
          /\ Expand(Assumptions, r)
          /\ IF r.unsat
               THEN Begin("assumeTrue", r.explanation)
               ELSE pc' = "satisfiable" /\ UNCHANGED <<array, core, todo, elem, goal>>
    BY <1>1 DEF FirstSolve
  <2>2. r.explanation \in SUBSET Assumptions
    BY DEF Answers
  <2>3. limits' \in 0 .. MaxLimits /\ shouldTerminate' \in BOOLEAN
    BY <2>1, ExpandType
  <2>4. UNCHANGED <<unsats, requests>>
    BY <1>1 DEF FirstSolve
  <2>5. CASE r.unsat
    BY <2>1, <2>2, <2>3, <2>4, <2>5, BeginType DEF TypeOK
  <2>6. CASE ~r.unsat
    BY <2>1, <2>3, <2>4, <2>6 DEF TypeOK
  <2> QED
    BY <2>5, <2>6
<1>2. CASE LoopEnds
  <2>1. EndArray /\ UNCHANGED <<unsats, requests, limits>> /\ shouldTerminate' \in BOOLEAN
    BY <1>2 DEF LoopEnds
  <2> QED
    BY <2>1, EndArrayType DEF TypeOK
<1>3. CASE LeaveOut
  BY <1>3 DEF LeaveOut, TypeOK
<1>4. CASE Solve
  <2>1. PICK r \in Answers :
          /\ Expand(core, r)
          /\ \/ r.interrupted /\ EndArray
             \/ PutBack /\ TryNext
             \/ Restart(r.explanation)
             \/ TryNext /\ UNCHANGED core
    BY <1>4 DEF Solve, Interrupted
  <2>2. r.explanation \in SUBSET Assumptions
    BY DEF Answers
  <2>3. limits' \in 0 .. MaxLimits /\ shouldTerminate' \in BOOLEAN
    BY <2>1, ExpandType
  <2>4. UNCHANGED <<unsats, requests>>
    BY <1>4 DEF Solve
  <2>5. CASE EndArray
    BY <2>3, <2>4, <2>5, EndArrayType DEF TypeOK
  <2>6. CASE PutBack /\ TryNext
    BY <2>3, <2>4, <2>6 DEF PutBack, TryNext, TypeOK
  <2>7. CASE Restart(r.explanation)
    BY <2>2, <2>3, <2>4, <2>7, BeginType DEF Restart, TypeOK
  <2>8. CASE TryNext /\ UNCHANGED core
    BY <2>3, <2>4, <2>8 DEF TryNext, TypeOK
  <2> QED
    BY <2>1, <2>5, <2>6, <2>7, <2>8
<1>5. CASE Throw
  BY <1>5 DEF Throw, TypeOK
<1>6. CASE Request
  <2>1. requests' \in 0 .. MaxRequests
    BY <1>6, BoundTypes DEF Request, TypeOK
  <2> QED
    BY <1>6, <2>1 DEF Request, TypeOK
<1>7. CASE UNCHANGED vars
  BY <1>7 DEF vars, TypeOK
<1> QED
  BY <1>1, <1>2, <1>3, <1>4, <1>5, <1>6, <1>7 DEF Next, minimizeAssumps

-----------------------------------------------------------------------------
(* What holds of the core. *)

Kept == shouldTerminate = FALSE /\ OneKind /\ WholeIsUnsat /\ TriedAreNecessary /\ AllTried

(* A pass begins with nothing tried of its own kind. *)
LEMMA BeginKept ==
  ASSUME TypeOK, NEW a \in {"assumeTrue", "assumeFalse"}, NEW c \in SUBSET Assumptions,
         Begin(a, c), UNCHANGED unsats, c \in unsats, shouldTerminate' = FALSE,
         a = "assumeFalse" => \A x \in c \cap AssumeTrue : c \ {x} \notin unsats
  PROVE  Kept'
<1>1. /\ pc' = "loop" /\ array' = a /\ core' = c /\ elem' = {} /\ todo' = c \cap Kind(a)
      /\ Whole' = c
  BY DEF Begin, Whole
<1>2. OneKind' /\ WholeIsUnsat' /\ AllTried'
  BY <1>1 DEF OneKind, WholeIsUnsat, AllTried, Minimising, Kind
<1>3. \A x \in Tried' : x \in c \cap AssumeTrue /\ a = "assumeFalse"
  BY <1>1 DEF Tried, Kind, Assumptions
<1>4. TriedAreNecessary'
  BY <1>1, <1>3 DEF TriedAreNecessary, Minimising
<1> QED
  BY <1>2, <1>4 DEF Kept

(* A solve that finds a model shows the assumption it left out necessary. *)
LEMMA PutBackKept ==
  ASSUME TypeOK, Kept, pc = "solve", PutBack, TryNext, UNCHANGED unsats,
         core \notin unsats, shouldTerminate' = FALSE
  PROVE  Kept'
<1>1. PICK e \in Kind(array) : elem = {e}
  BY DEF Kept, OneKind
<1>2. Whole = core \cup {e} /\ Whole' = Whole /\ e \notin core
  BY <1>1 DEF Whole, PutBack, TryNext, TypeOK
<1>3. OneKind' /\ WholeIsUnsat' /\ AllTried'
  BY <1>1, <1>2 DEF Kept, OneKind, WholeIsUnsat, AllTried, Minimising, PutBack, TryNext, Kind
<1>4. Tried' \subseteq Tried \cup {e}
  BY <1>1 DEF Tried, PutBack, TryNext
<1>5. Whole \ {e} = core
  BY <1>2
<1>6. TriedAreNecessary'
  BY <1>2, <1>4, <1>5 DEF Kept, TriedAreNecessary, Minimising, TryNext
<1> QED
  BY <1>3, <1>6 DEF Kept

(* What was tried before is in every explanation, and still necessary. *)
LEMMA RestartKept ==
  ASSUME TypeOK, Kept, pc = "solve", NEW c \in unsats, c \subseteq core,
         Restart(c), UNCHANGED unsats, shouldTerminate' = FALSE
  PROVE  Kept'
<1>1. c \in SUBSET Assumptions
  BY DEF TypeOK
<1>2. ASSUME array = "assumeFalse", NEW x \in c \cap AssumeTrue
      PROVE  c \ {x} \notin unsats
  <2>1. x \in Tried
    BY <1>2, UnsatCoreAssumption DEF Kept, OneKind, Kind, Tried
  <2>2. Whole \ {x} \notin unsats
    BY <2>1 DEF Kept, TriedAreNecessary, Minimising
  <2>3. Whole \ {x} \in SUBSET Assumptions /\ c \ {x} \subseteq Whole \ {x}
    BY DEF Whole, TypeOK
  <2> QED
    BY <2>2, <2>3, Monotone
<1> QED
  BY <1>1, <1>2, BeginKept DEF Restart, TypeOK

(* Nor does it matter if the explanation were not used. *)
LEMMA DropKept ==
  ASSUME TypeOK, Kept, pc = "solve", NEW c \in unsats, c \subseteq core,
         TryNext, UNCHANGED <<core, unsats>>, shouldTerminate' = FALSE
  PROVE  Kept'
<1>1. core \in unsats
  BY Monotone DEF TypeOK
<1>2. Whole' = core
  BY DEF Whole, TryNext
<1>3. OneKind' /\ WholeIsUnsat' /\ AllTried'
  BY <1>1, <1>2 DEF Kept, OneKind, WholeIsUnsat, AllTried, Minimising, TryNext, Kind
<1>4. ASSUME NEW x \in Tried
      PROVE  core \ {x} \notin unsats
  <2>1. Whole \ {x} \notin unsats
    BY DEF Kept, TriedAreNecessary, Minimising
  <2>2. Whole \ {x} \in SUBSET Assumptions /\ core \ {x} \subseteq Whole \ {x}
    BY DEF Whole, TypeOK
  <2> QED
    BY <2>1, <2>2, Monotone
<1>5. Tried' = Tried
  BY DEF Tried, TryNext
<1>6. TriedAreNecessary'
  BY <1>2, <1>4, <1>5 DEF TriedAreNecessary, Minimising
<1> QED
  BY <1>3, <1>6 DEF Kept

(* An array ends when all of it is tried. *)
LEMMA EndArrayKept ==
  ASSUME TypeOK, Kept, pc = "loop", todo = {}, EndArray, UNCHANGED unsats,
         shouldTerminate' = FALSE
  PROVE  Kept'
<1>1. Whole = core /\ core \in unsats
  BY DEF Kept, Whole, WholeIsUnsat, Minimising
<1>2. \A x \in Tried : core \ {x} \notin unsats
  BY <1>1 DEF Kept, TriedAreNecessary, Minimising
<1>3. CASE array = "assumeTrue" /\ Begin("assumeFalse", core)
  <2>1. \A x \in core \cap AssumeTrue : core \ {x} \notin unsats
    BY <1>2, <1>3 DEF Tried
  <2> QED
    BY <1>1, <1>3, <2>1, BeginKept DEF TypeOK
<1>4. CASE array = "assumeFalse" /\ pc' = "done" /\ UNCHANGED <<array, core, todo, elem, goal>>
  <2>1. Whole' = core /\ Tried' = Tried /\ Tried = core
    BY <1>4 DEF Whole, Tried
  <2>2. WholeIsUnsat' /\ TriedAreNecessary' /\ AllTried'
    BY <1>1, <1>2, <1>4, <2>1 DEF WholeIsUnsat, TriedAreNecessary, AllTried
  <2>3. OneKind'
    BY <1>4 DEF Kept, OneKind, Kind
  <2> QED
    BY <2>2, <2>3 DEF Kept
<1> QED
  BY <1>3, <1>4 DEF EndArray

-----------------------------------------------------------------------------

(* Disturbances are not forgotten. *)
LEMMA StaysDisturbed ==
  ASSUME TypeOK, [Next]_vars, ~Disturbed'
  PROVE  ~Disturbed
<1>1. limits \in Nat /\ requests \in Nat
  BY DEF TypeOK
<1>2. (UNCHANGED requests \/ requests' = requests + 1)
      /\ (UNCHANGED limits \/ limits' = limits + 1)
  BY DEF Next, minimizeAssumps, Request, FirstSolve, LoopEnds, LeaveOut, Solve, Throw, Expand, vars
<1> QED
  BY <1>1, <1>2 DEF Disturbed

LEMMA KeptPreserved ==
  ASSUME IInv, [Next]_vars, ~Disturbed'
  PROVE  Kept'
<1> TypeOK /\ ~Disturbed /\ Kept
  BY StaysDisturbed DEF IInv, Kept
<1>1. CASE FirstSolve
  <2>1. PICK r \in Answers :
          /\ Expand(Assumptions, r)
          /\ IF r.unsat
               THEN Begin("assumeTrue", r.explanation)
               ELSE pc' = "satisfiable" /\ UNCHANGED <<array, core, todo, elem, goal>>
    BY <1>1 DEF FirstSolve
  <2>2. pc = "first" /\ UNCHANGED <<unsats, requests>>
    BY <1>1 DEF FirstSolve
  <2>3. shouldTerminate' = FALSE /\ (r.unsat => r.explanation \in unsats)
    BY <2>1, <2>2, UndisturbedAnswer
  <2>4. CASE r.unsat
    BY <2>1, <2>2, <2>3, <2>4, BeginKept DEF Answers
  <2>5. CASE ~r.unsat
    BY <2>1, <2>2, <2>3, <2>5
    DEF Kept, OneKind, WholeIsUnsat, TriedAreNecessary, AllTried, Minimising, Kind
  <2> QED
    BY <2>4, <2>5
<1>2. CASE LoopEnds
  <2>1. pc = "loop" /\ todo = {} /\ EndArray /\ UNCHANGED unsats /\ shouldTerminate' = FALSE
    BY <1>2 DEF LoopEnds, Kept
  <2> QED
    BY <2>1, EndArrayKept
<1>3. CASE LeaveOut
  <2>1. PICK e \in todo : elem' = {e} /\ core' = core \ {e} /\ todo' = todo \ {e}
    BY <1>3 DEF LeaveOut
  <2>2. pc = "loop" /\ pc' = "solve" /\ UNCHANGED <<unsats, array, shouldTerminate>>
    BY <1>3 DEF LeaveOut
  <2>3. e \in core /\ e \in Kind(array) /\ e \in Assumptions
    BY <2>1 DEF TypeOK, Kept, OneKind
  <2>4. Whole = core /\ Whole' = core
    BY <2>1, <2>2, <2>3 DEF Whole
  <2>5. Tried' \subseteq Tried
    BY <2>1, <2>2 DEF Tried
  <2>6. OneKind'
    BY <2>1, <2>2, <2>3 DEF Kept, OneKind, Kind
  <2>7. WholeIsUnsat' /\ TriedAreNecessary' /\ AllTried'
    BY <2>2, <2>4, <2>5 DEF Kept, WholeIsUnsat, TriedAreNecessary, AllTried, Minimising
  <2> QED
    BY <2>2, <2>6, <2>7 DEF Kept
<1>4. CASE Solve
  <2>1. PICK r \in Answers :
          /\ Expand(core, r)
          /\ \/ r.interrupted
             \/ ~r.unsat /\ PutBack /\ TryNext
             \/ r.unsat /\ Restart(r.explanation)
             \/ r.unsat /\ TryNext /\ UNCHANGED core
    BY <1>4 DEF Solve
  <2>2. pc = "solve" /\ UNCHANGED <<unsats, requests>>
    BY <1>4 DEF Solve
  <2>3. /\ shouldTerminate' = FALSE /\ ~r.interrupted
        /\ r.unsat => r.explanation \in unsats /\ r.explanation \subseteq core
        /\ ~r.unsat => core \notin unsats
    BY <2>1, <2>2, UndisturbedAnswer DEF TypeOK
  <2>4. CASE ~r.unsat /\ PutBack /\ TryNext
    BY <2>2, <2>3, <2>4, PutBackKept
  <2>5. CASE r.unsat /\ Restart(r.explanation)
    BY <2>2, <2>3, <2>5, RestartKept
  <2>6. CASE r.unsat /\ TryNext /\ UNCHANGED core
    BY <2>2, <2>3, <2>6, DropKept
  <2> QED
    BY <2>1, <2>3, <2>4, <2>5, <2>6
<1>5. CASE Throw
  BY <1>5 DEF Throw, Kept
<1>6. CASE Request
  <2>1. requests' = requests + 1 /\ requests \in Nat
    BY <1>6 DEF Request, TypeOK
  <2> QED
    BY <2>1 DEF Disturbed
<1>7. CASE UNCHANGED vars
  BY <1>7 DEF vars, Kept, OneKind, WholeIsUnsat, TriedAreNecessary, AllTried, Minimising,
     Whole, Tried, Kind
<1> QED
  BY <1>1, <1>2, <1>3, <1>4, <1>5, <1>6, <1>7 DEF Next, minimizeAssumps

LEMMA Invariance == Spec => []IInv
<1>1. IInv /\ [Next]_vars => IInv'
  BY TypePreserved, KeptPreserved DEF IInv, Kept
<1> QED
  BY InitIInv, <1>1, PTL DEF Spec

(* minimizeAssumps is always in a state of its types. *)
THEOREM TypeCorrect == Spec => []TypeOK
<1>1. IInv => TypeOK
  BY DEF IInv
<1> QED
  BY Invariance, <1>1, PTL

(* Left alone, minimizeAssumps returns assumptions without a model, all of *)
(* which are necessary: no proper subset of them is without a model.       *)
THEOREM CoreIsMinimal == Spec => []UndisturbedCoreIsMinimal
<1>1. IInv => UndisturbedCoreIsMinimal
  <2> SUFFICES ASSUME IInv, pc = "done", ~Disturbed
               PROVE  core \in unsats /\ \A A \in unsats : A \subseteq core => A = core
    BY DEF UndisturbedCoreIsMinimal
  <2>0. core \in unsats
    BY DEF IInv, WholeIsUnsat, Minimising, Whole
  <2> SUFFICES ASSUME NEW A \in unsats, A \subseteq core
               PROVE  core \subseteq A
    BY <2>0
  <2> SUFFICES ASSUME NEW x \in core, x \notin A
               PROVE  FALSE
    OBVIOUS
  <2>1. x \in Tried /\ Whole = core
    BY DEF IInv, AllTried, Whole
  <2>2. core \ {x} \notin unsats
    BY <2>1 DEF IInv, TriedAreNecessary, Minimising
  <2>3. A \subseteq core \ {x} /\ core \ {x} \in SUBSET Assumptions
    BY DEF IInv, TypeOK
  <2> QED
    BY <2>2, <2>3, Monotone DEF IInv
<1> QED
  BY Invariance, <1>1, PTL

-----------------------------------------------------------------------------
(* Whatever disturbs it. *)

(* What the pass over the first kind may have lost to an interruption. *)
Lost(a) ==
  IF a = "assumeTrue" THEN {{}} ELSE {x \in SUBSET AssumeTrue : Cardinality(x) <= 1}

Empty == core = {} /\ elem = {} /\ todo = {}

(* A pass has a goal an empty explanation would be smaller than. *)
HasGoal == todo # {} \/ pc = "solve" => goal >= 1

FewAreLost ==
  pc \in {"loop", "solve"} => Empty \/ \E x \in Lost(array) : Whole \cup x \in unsats

MInv ==
  /\ TypeOK
  /\ OneKind
  /\ HasGoal
  /\ FewAreLost
  /\ AtMostOneOfEachKindIsMissing

LEMMA FewAreLostTypes ==
  \A a \in {"assumeTrue", "assumeFalse"} :
     {} \in Lost(a) /\ Lost(a) \subseteq {x \in SUBSET AssumeTrue : Cardinality(x) <= 1}
BY FS_EmptySet DEF Lost

LEMMA SingletonIsOne == \A e : Cardinality({e}) = 1
BY FS_Singleton

(* A pass over what is unsatisfiable but for what may have been lost. *)
LEMMA BeginShort ==
  ASSUME TypeOK, NEW a \in {"assumeTrue", "assumeFalse"}, NEW c \in SUBSET Assumptions,
         Begin(a, c), UNCHANGED unsats,
         c = {} \/ \E x \in Lost(a) : c \cup x \in unsats
  PROVE  (OneKind /\ HasGoal /\ FewAreLost /\ AtMostOneOfEachKindIsMissing)'
<1>1. pc' = "loop" /\ array' = a /\ core' = c /\ todo' = c \cap Kind(a) /\ elem' = {}
      /\ goal' = Cardinality(c)
  BY DEF Begin
<1>2. OneKind'
  BY <1>1 DEF OneKind, Kind
<1>3. HasGoal'
  <2>1. IsFiniteSet(c)
    BY UnsatCoreAssumption, FS_Subset
  <2>2. c # {} => Cardinality(c) \in Nat /\ Cardinality(c) # 0
    BY <2>1, FS_CardinalityType, FS_EmptySet
  <2> QED
    BY <1>1, <2>2 DEF HasGoal
<1>4. FewAreLost'
  BY <1>1 DEF FewAreLost, Empty, Whole, Lost
<1>5. AtMostOneOfEachKindIsMissing'
  BY <1>1 DEF AtMostOneOfEachKindIsMissing
<1> QED
  BY <1>2, <1>3, <1>4, <1>5

(* The end of a pass, with or without one that was left out. *)
LEMMA EndArrayShort ==
  ASSUME MInv, pc \in {"loop", "solve"}, EndArray, UNCHANGED unsats
  PROVE  (OneKind /\ HasGoal /\ FewAreLost /\ AtMostOneOfEachKindIsMissing)'
<1> TypeOK /\ OneKind /\ HasGoal /\ FewAreLost
  BY DEF MInv
<1>1. PICK y \in SUBSET Kind(array) : Cardinality(y) <= 1 /\ Whole = core \cup y
                                      /\ (pc = "loop" => y = {})
  <2>1. CASE pc = "loop"
    BY <2>1, FS_EmptySet DEF Whole
  <2>2. CASE pc = "solve"
    BY <2>2, SingletonIsOne DEF Whole, OneKind
  <2> QED
    BY <2>1, <2>2
<1>2. core \in SUBSET Assumptions
  BY DEF TypeOK
<1>3. CASE array = "assumeTrue" /\ Begin("assumeFalse", core)
  <2>1. core = {} \/ core \cup y \in unsats
    BY <1>1, <1>3 DEF FewAreLost, Empty, Lost
  <2>2. y \in Lost("assumeFalse")
    BY <1>1, <1>3 DEF Lost, Kind
  <2> QED
    BY <1>2, <1>3, <2>1, <2>2, BeginShort
<1>4. CASE array = "assumeFalse" /\ pc' = "done" /\ UNCHANGED <<array, core, todo, elem, goal>>
  <2>1. AtMostOneOfEachKindIsMissing'
    <3>1. CASE Empty
      BY <1>4, <3>1 DEF AtMostOneOfEachKindIsMissing, Empty
    <3>2. CASE ~Empty
      <4>1. PICK x \in Lost(array) : Whole \cup x \in unsats
        BY <3>2 DEF FewAreLost
      <4>2. x \in SUBSET AssumeTrue /\ Cardinality(x) <= 1 /\ y \in SUBSET AssumeFalse
        BY <1>1, <1>4, <4>1 DEF Lost, Kind
      <4>3. core \cup x \cup y = Whole \cup x
        BY <1>1
      <4>4. core \cup x \cup y \in unsats'
        BY <4>1, <4>3
      <4> QED
        BY <1>1, <1>4, <4>2, <4>4 DEF AtMostOneOfEachKindIsMissing
    <3> QED
      BY <3>1, <3>2
  <2>2. OneKind' /\ FewAreLost'
    BY <1>4 DEF OneKind, FewAreLost, Kind
  <2>3. HasGoal'
    BY <1>4 DEF HasGoal
  <2> QED
    BY <2>1, <2>2, <2>3
<1> QED
  BY <1>3, <1>4 DEF EndArray

(* What an expansion explains has no model, or it explains nothing.        *)
LEMMA AnyAnswer ==
  ASSUME TypeOK, NEW A \in SUBSET Assumptions, NEW r \in Answers,
         Expand(A, r), r.unsat
  PROVE  r.explanation = {} \/ (r.explanation \in unsats /\ r.explanation \subseteq A)
<1>1. r \in Undisturbed(A) \/ r \in Requested(A) \/ r \in Limited(A)
  BY DEF Expand
<1>2. CASE r \in Limited(A)
  BY <1>2 DEF Limited, Answer
<1>3. CASE r \in Undisturbed(A)
  BY <1>3 DEF Undisturbed, Refuted, Answer
<1>4. CASE r \in Requested(A)
  BY <1>4 DEF Requested, Refuted, Answer
<1> QED
  BY <1>1, <1>2, <1>3, <1>4

LEMMA MInvPreserved == MInv /\ [Next]_vars => MInv'
<1> SUFFICES ASSUME MInv, [Next]_vars
             PROVE  (OneKind /\ HasGoal /\ FewAreLost /\ AtMostOneOfEachKindIsMissing)'
  BY TypePreserved DEF MInv
<1> TypeOK /\ OneKind /\ HasGoal /\ FewAreLost /\ AtMostOneOfEachKindIsMissing
  BY DEF MInv
<1>1. CASE FirstSolve
  <2>1. PICK r \in Answers :
          /\ Expand(Assumptions, r)
          /\ IF r.unsat
               THEN Begin("assumeTrue", r.explanation)
               ELSE pc' = "satisfiable" /\ UNCHANGED <<array, core, todo, elem, goal>>
    BY <1>1 DEF FirstSolve
  <2>2. pc = "first" /\ UNCHANGED <<unsats, requests>>
    BY <1>1 DEF FirstSolve
  <2>3. CASE r.unsat
    <3>1. r.explanation = {} \/ r.explanation \in unsats
      BY <2>1, <2>2, <2>3, AnyAnswer, Assumptions \in SUBSET Assumptions
    <3>2. r.explanation = {} \/ \E x \in Lost("assumeTrue") : r.explanation \cup x \in unsats
      BY <3>1 DEF Lost
    <3> QED
      BY <2>1, <2>2, <2>3, <3>2, BeginShort DEF Answers
  <2>4. CASE ~r.unsat
    BY <2>1, <2>4 DEF OneKind, HasGoal, FewAreLost, AtMostOneOfEachKindIsMissing, Kind
  <2> QED
    BY <2>3, <2>4
<1>2. CASE LoopEnds
  BY <1>2, EndArrayShort DEF LoopEnds
<1>3. CASE LeaveOut
  <2>1. PICK e \in todo : elem' = {e} /\ core' = core \ {e} /\ todo' = todo \ {e}
    BY <1>3 DEF LeaveOut
  <2>2. pc = "loop" /\ pc' = "solve" /\ UNCHANGED <<unsats, array, goal>>
    BY <1>3 DEF LeaveOut
  <2>3. e \in core /\ e \in Kind(array) /\ e \in Assumptions
    BY <2>1 DEF TypeOK, OneKind
  <2>4. Whole = core /\ Whole' = core /\ ~Empty
    BY <2>1, <2>2, <2>3 DEF Whole, Empty
  <2>5. OneKind'
    BY <2>1, <2>2, <2>3 DEF OneKind, Kind
  <2>6. HasGoal'
    BY <2>1, <2>2 DEF HasGoal
  <2>7. FewAreLost'
    BY <2>2, <2>4 DEF FewAreLost, Lost
  <2>8. AtMostOneOfEachKindIsMissing'
    BY <2>2 DEF AtMostOneOfEachKindIsMissing
  <2> QED
    BY <2>5, <2>6, <2>7, <2>8
<1>4. CASE Solve
  <2>1. PICK r \in Answers :
          /\ Expand(core, r)
          /\ \/ Interrupted
             \/ PutBack /\ TryNext
             \/ ~r.interrupted /\ r.unsat /\ Restart(r.explanation)
             \/ /\ ~r.interrupted /\ r.unsat
                /\ ~(Cardinality(r.explanation) < goal)
                /\ TryNext /\ UNCHANGED core
    BY <1>4 DEF Solve
  <2>2. pc = "solve" /\ UNCHANGED <<unsats, requests>>
    BY <1>4 DEF Solve
  <2>3. core \in SUBSET Assumptions /\ r.explanation \in SUBSET Assumptions
    BY DEF TypeOK, Answers
  <2>4. CASE Interrupted
    BY <2>2, <2>4, EndArrayShort DEF Interrupted
  <2>5. CASE ~r.interrupted /\ r.unsat /\ Restart(r.explanation)
    <3>1. r.explanation = {} \/ r.explanation \in unsats
      BY <2>1, <2>3, <2>5, AnyAnswer
    <3>2. array \in {"assumeTrue", "assumeFalse"}
      BY DEF TypeOK
    <3>3. r.explanation = {} \/ \E x \in Lost(array) : r.explanation \cup x \in unsats
      BY <3>1, <3>2, FewAreLostTypes
    <3> QED
      BY <2>2, <2>3, <2>5, <3>2, <3>3, BeginShort DEF Restart
  <2>6. CASE PutBack /\ TryNext
    <3>1. Whole = core' /\ Whole' = core' /\ pc' = "loop" /\ UNCHANGED <<array, todo, goal>>
          /\ elem' = {} /\ ~Empty
      BY <2>2, <2>6 DEF PutBack, TryNext, Whole, Empty, OneKind
    <3>2. OneKind' /\ HasGoal'
      BY <2>2, <3>1 DEF OneKind, HasGoal, Kind
    <3>3. FewAreLost'
      BY <2>2, <3>1 DEF FewAreLost, Lost
    <3> QED
      BY <3>1, <3>2, <3>3 DEF AtMostOneOfEachKindIsMissing
  <2>7. CASE /\ ~r.interrupted /\ r.unsat
             /\ ~(Cardinality(r.explanation) < goal)
             /\ TryNext /\ UNCHANGED core
    <3>1. r.explanation # {}
      BY <2>2, <2>7, FS_EmptySet DEF HasGoal, TypeOK
    <3>2. core \in unsats
      BY <2>1, <2>3, <2>7, <3>1, AnyAnswer, Monotone
    <3>3. pc' = "loop" /\ elem' = {} /\ UNCHANGED <<array, todo, goal, core, unsats>>
      BY <2>2, <2>7 DEF TryNext
    <3>4. OneKind' /\ HasGoal'
      BY <3>3, <2>2 DEF OneKind, HasGoal, Kind
    <3>5. Whole' = core /\ core \cup {} = core
      BY <3>3 DEF Whole
    <3>6. {} \in Lost(array')
      BY <3>3, FewAreLostTypes DEF TypeOK
    <3>7. FewAreLost'
      BY <3>2, <3>3, <3>5, <3>6 DEF FewAreLost, Lost
    <3> QED
      BY <3>3, <3>4, <3>7 DEF AtMostOneOfEachKindIsMissing
  <2> QED
    BY <2>1, <2>4, <2>5, <2>6, <2>7
<1>5. CASE Throw
  BY <1>5 DEF Throw, OneKind, HasGoal, FewAreLost, AtMostOneOfEachKindIsMissing, Kind
<1>6. CASE Request
  BY <1>6 DEF Request, OneKind, HasGoal, FewAreLost, Empty, Whole, Lost,
     AtMostOneOfEachKindIsMissing, Kind
<1>7. CASE UNCHANGED vars
  BY <1>7 DEF vars, OneKind, HasGoal, FewAreLost, Empty, Whole, Lost,
     AtMostOneOfEachKindIsMissing, Kind
<1> QED
  BY <1>1, <1>2, <1>3, <1>4, <1>5, <1>6, <1>7 DEF Next, minimizeAssumps

(* However it is interrupted, and whatever it is told is unsatisfiable, the *)
(* result of minimizeAssumps is empty or lacks at most one assumption of    *)
(* each kind to be without a model.                                         *)
THEOREM AtMostOneOfEachKindIsLost == Spec => []AtMostOneOfEachKindIsMissing
<1>1. Init => MInv
  <2> SUFFICES ASSUME Init PROVE MInv
    OBVIOUS
  <2>1. TypeOK
    BY InitIInv DEF IInv
  <2> QED
    BY <2>1 DEF Init, MInv, OneKind, HasGoal, FewAreLost, AtMostOneOfEachKindIsMissing
<1>2. MInv => AtMostOneOfEachKindIsMissing
  BY DEF MInv
<1> QED
  BY <1>1, <1>2, MInvPreserved, PTL DEF Spec

-----------------------------------------------------------------------------
(* The safety half of termination: first solve, the two arrays one after    *)
(* the other, end.                                                          *)
Phase ==
  CASE pc = "first"                                              -> 3
    [] pc \in {"loop", "solve"} /\ array = "assumeTrue"          -> 2
    [] pc \in {"loop", "solve"} /\ array = "assumeFalse"         -> 1
    [] pc \in {"done", "satisfiable", "terminated"}              -> 0

(* Within a pass an assumption is left out, or the answer to that comes. *)
PassGoesOn ==
  \/ Cardinality(todo') < Cardinality(todo)
  \/ todo' = todo /\ pc = "solve" /\ pc' = "loop"

ComesCloser ==
  \/ Phase' < Phase
  \/ /\ Phase' = Phase
     /\ goal' < goal \/ (goal' = goal /\ PassGoesOn)

(* No call of expansion is for nothing. *)
StepsComeCloser == [][minimizeAssumps => ComesCloser]_vars

LEMMA BeginPhase ==
  ASSUME NEW a \in {"assumeTrue", "assumeFalse"}, NEW c, Begin(a, c)
  PROVE  /\ a = "assumeTrue" => Phase' = 2
         /\ a = "assumeFalse" => Phase' = 1
         /\ goal' = Cardinality(c)
  BY DEF Begin, Phase

LEMMA EndArrayComesCloser ==
  ASSUME TypeOK, pc \in {"loop", "solve"}, EndArray
  PROVE  Phase' < Phase
<1>1. CASE array = "assumeTrue" /\ Begin("assumeFalse", core)
  <2>1. Phase' = 1
    BY <1>1, BeginPhase
  <2>2. Phase = 2
    BY <1>1 DEF Phase
  <2> QED
    BY <2>1, <2>2
<1>2. CASE array = "assumeFalse" /\ pc' = "done"
  BY <1>2 DEF Phase
<1> QED
  BY <1>1, <1>2 DEF EndArray

(* However it is disturbed, each step of minimizeAssumps ends an array,     *)
(* lowers the goal, leaves out another of finitely many assumptions or takes *)
(* the answer to that: there is no infinite sequence of calls of expansion. *)
THEOREM EveryStepComesCloser == Spec => StepsComeCloser
<1>1. ASSUME TypeOK, minimizeAssumps PROVE ComesCloser
  <2>1. array \in {"assumeTrue", "assumeFalse"} /\ core \subseteq Assumptions /\ todo \subseteq core
        /\ goal \in Nat
    BY <1>1 DEF TypeOK
  <2>2. CASE FirstSolve
    <3>1. pc = "first" /\ (pc' = "satisfiable" \/ \E c : Begin("assumeTrue", c))
      BY <2>2 DEF FirstSolve
    <3>2. Phase = 3
      BY <3>1 DEF Phase
    <3>3. CASE pc' = "satisfiable"
      <4>1. Phase' = 0
        BY <3>3 DEF Phase
      <4> QED
        BY <3>2, <4>1 DEF ComesCloser
    <3>4. ASSUME NEW c, Begin("assumeTrue", c) PROVE ComesCloser
      <4>1. Phase' = 2
        BY <3>4, BeginPhase
      <4> QED
        BY <3>2, <4>1 DEF ComesCloser
    <3> QED
      BY <3>1, <3>3, <3>4
  <2>3. CASE LoopEnds
    BY <1>1, <2>3, EndArrayComesCloser DEF LoopEnds, ComesCloser
  <2>4. CASE LeaveOut
    <3>1. PICK e \in todo : todo' = todo \ {e}
      BY <2>4 DEF LeaveOut
    <3>2. /\ pc = "loop" /\ pc' = "solve" /\ UNCHANGED <<array, goal>>
      BY <2>4 DEF LeaveOut
    <3>3. IsFiniteSet(todo)
      BY <2>1, UnsatCoreAssumption, FS_Subset
    <3>4. Cardinality(todo') = Cardinality(todo) - 1 /\ Cardinality(todo) \in Nat
      BY <3>1, <3>3, FS_RemoveElement, FS_CardinalityType
    <3>5. Phase' = Phase
      BY <2>1, <3>2 DEF Phase
    <3> QED
      BY <3>2, <3>4, <3>5 DEF ComesCloser, PassGoesOn
  <2>5. CASE Solve
    <3>1. pc = "solve"
      BY <2>5 DEF Solve
    <3>2. CASE Interrupted
      BY <1>1, <3>1, <3>2, EndArrayComesCloser DEF Interrupted, ComesCloser
    <3>3. CASE TryNext
      <4>1. Phase' = Phase
        BY <2>1, <3>1, <3>3 DEF TryNext, Phase
      <4> QED
        BY <3>1, <3>3, <4>1 DEF TryNext, ComesCloser, PassGoesOn
    <3>4. ASSUME NEW c, Cardinality(c) < goal, Restart(c)
          PROVE  ComesCloser
      <4>1. /\ array = "assumeTrue" => Phase' = 2
            /\ array = "assumeFalse" => Phase' = 1
            /\ goal' = Cardinality(c)
        BY <2>1, <3>4, BeginPhase DEF Restart
      <4>2. /\ array = "assumeTrue" => Phase = 2
            /\ array = "assumeFalse" => Phase = 1
        BY <3>1 DEF Phase
      <4> QED
        BY <2>1, <3>4, <4>1, <4>2 DEF ComesCloser
    <3> QED
      BY <2>5, <3>2, <3>3, <3>4 DEF Solve
  <2>6. CASE Throw
    <3>1. pc \in {"first", "solve"} /\ pc' = "terminated"
      BY <2>6 DEF Throw
    <3> QED
      BY <2>1, <3>1 DEF Phase, ComesCloser
  <2> QED
    BY <1>1, <2>2, <2>3, <2>4, <2>5, <2>6 DEF minimizeAssumps
<1>2. TypeOK /\ [Next]_vars => [minimizeAssumps => ComesCloser]_vars
  BY <1>1
<1>3. Init => TypeOK
  BY InitIInv DEF IInv
<1> QED
  BY <1>2, <1>3, TypePreserved, PTL DEF Spec, StepsComeCloser
=============================================================================
