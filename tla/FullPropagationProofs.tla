------------------------ MODULE FullPropagationProofs ------------------------
(***************************************************************************)
(* What all models have in common lies between an under- and an over-      *)
(* approximation.  Models that are excluded from later searches have all   *)
(* literals still in doubt: a search without success speaks for them too.  *)
(***************************************************************************)
EXTENDS FullPropagation, TLAPS

Common == {l \in Literals : \A m \in models : l \in Lits(m)}

Searching == pc \in {"loop", "solve", "retract"}

Between ==
  /\ pc = "start" => under = {}
  /\ Searching => under \subseteq Common /\ Common \subseteq under \cup over
  /\ Searching /\ method = "intersection" => under = {}

ExcludedHaveDoubtful ==
  /\ pc = "start" => excluded = {}
  /\ Searching => \A m \in excluded : over \subseteq Lits(m)

(* The iteration ends early only when there is nothing in doubt. *)
EndIsCertain ==
  /\ ~terminate
  /\ pc = "start" => ~terminated
  /\ pc \in {"loop", "solve"} /\ terminated => over \subseteq Common

OneAssumption ==
  /\ pc \in {"start", "loop"} \/ method = "intersection" => assumption = {} /\ tried = {}
  /\ pc \in {"solve", "retract"} /\ method = "assumptions" =>
       \E a \in Literals : tried = {a} /\ assumption = {Neg(a)}
  /\ pc = "solve" => tried \subseteq over

GivenIsCommon == given \subseteq Common

IInv ==
  /\ TypeOK
  /\ pc = "retract" => method = "assumptions"
  /\ Between /\ ExcludedHaveDoubtful /\ EndIsCertain /\ OneAssumption /\ GivenIsCommon
  /\ PropagationIsExact /\ NilMeansInconsistent

-----------------------------------------------------------------------------

(* A model has a literal or its negation. *)
LEMMA EitherLiteral ==
  ASSUME NEW m \in Assignments, NEW l \in Literals
  PROVE  /\ Lits(m) \subseteq Literals
         /\ Neg(l) \in Literals
         /\ Neg(l) \notin Lits(m) <=> l \in Lits(m)
<1>1. PICK a \in Atoms, b \in Signs : l = <<a, b>>
  BY DEF Literals
<1>2. m[a] \in Signs
  BY DEF Assignments
<1>3. Neg(l) = <<a, -b>> /\ -b \in Signs
  BY <1>1 DEF Neg, Signs
<1>4. l \in Lits(m) <=> m[a] = b
  BY <1>1 DEF Lits
<1>5. Neg(l) \in Lits(m) <=> m[a] = -b
  BY <1>3 DEF Lits
<1>6. \A x \in Atoms : m[x] \in Signs
  BY DEF Assignments
<1>7. Lits(m) \subseteq Literals
  BY <1>6 DEF Lits, Literals
<1>8. Neg(l) \in Literals
  BY <1>3 DEF Literals
<1>9. m[a] = b <=> m[a] # -b
  BY <1>2 DEF Signs
<1> QED
  BY <1>4, <1>5, <1>7, <1>8, <1>9

(* A model found is one, and what ends the iteration with it is that no    *)
(* other is left.                                                          *)
LEMMA FoundModel ==
  ASSUME TypeOK, ~terminate, NEW r, calculate(r), r # NULL
  PROVE  /\ r \in models /\ r \in Assignments /\ r \in Candidates
         /\ excluded' \subseteq excluded \cup {r}
         /\ excluded' \subseteq models
         /\ terminated' \in BOOLEAN
         /\ terminated' => Candidates = {r}
  BY DEF calculate, findNext, NoNext, Found, Candidates, TypeOK, TaskTypeOK

LEMMA NoModelFound ==
  ASSUME TypeOK, ~terminate, calculate(NULL)
  PROVE  /\ excluded' = excluded /\ terminated' = TRUE
         /\ terminated \/ Candidates = {}
        /\ terminated' \in BOOLEAN
  BY NullIsNoModel DEF calculate, findNext, NoNext, Found, Candidates, TypeOK, TaskTypeOK

LEMMA CalculateType ==
  ASSUME TypeOK, ~terminate, NEW r, calculate(r), UNCHANGED assumption
  PROVE  TaskTypeOK'
<1>1. excluded' \subseteq models /\ terminated' \in BOOLEAN
  BY FoundModel, NoModelFound DEF TypeOK, TaskTypeOK
<1>2. UNCHANGED <<models, terminate>> /\ shouldTerminate' \in BOOLEAN
  BY DEF calculate
<1> QED
  BY <1>1, <1>2 DEF TypeOK, TaskTypeOK

(* With a model found, what it lacks is no longer in doubt. *)
LEMMA Narrowed ==
  ASSUME TypeOK, NEW r \in models
  PROVE  Common \subseteq Lits(r)
  BY DEF Common

LEMMA InitIInv == Init => IInv
<1> SUFFICES ASSUME Init PROVE IInv
  OBVIOUS
<1>1. requests \in 0 .. MaxRequests
  BY FullPropAssumption DEF Init
<1>2. TypeOK
  BY <1>1 DEF Init, TaskInit, TypeOK, TaskTypeOK
<1>3. GivenIsCommon
  BY DEF Init, GivenIsCommon, Common
<1> QED
  BY <1>2, <1>3 DEF Init, TaskInit, IInv, Between, Searching, ExcludedHaveDoubtful, EndIsCertain,
     OneAssumption, PropagationIsExact, NilMeansInconsistent

LEMMA CommonSame ==
  ASSUME UNCHANGED models
  PROVE  Common' = Common
  BY DEF Common

(* The method chosen begins with the literals of a first model. *)
LEMMA StartAssumptionsIInv ==
  ASSUME IInv, StartAssumptions
  PROVE  IInv'
<1> TypeOK /\ ~terminate /\ pc = "start" /\ ~terminated /\ excluded = {} /\ assumption = {}
  BY DEF IInv, EndIsCertain, StartAssumptions, ExcludedHaveDoubtful, OneAssumption
<1>1. PICK r : /\ calculate(r)
               /\ IF r = NULL
                    THEN pc' = "nil" /\ UNCHANGED <<under, over>>
                    ELSE pc' = "loop" /\ under' = given /\ over' = Lits(r) \ given
  BY DEF StartAssumptions
<1>2. /\ UNCHANGED <<assumption, method, given, tried, requests, models, terminate>>
      /\ shouldTerminate' \in BOOLEAN
  BY <1>1 DEF StartAssumptions, calculate
<1>3. Candidates = models
  BY DEF Candidates
<1>4. CASE r = NULL
  <2>1. excluded' = excluded /\ terminated' \in BOOLEAN /\ models = {}
    BY <1>1, <1>3, <1>4, NoModelFound
  <2>2. TypeOK'
    <3>1. TaskTypeOK'
      BY <1>1, <1>2, CalculateType
    <3>2. pc' = "nil" /\ UNCHANGED <<under, over>>
      BY <1>1, <1>4
    <3> QED
      BY <1>2, <3>1, <3>2 DEF TypeOK
  <2> QED
    BY <1>1, <1>2, <1>4, <2>1, <2>2, CommonSame
    DEF IInv, Between, Searching, ExcludedHaveDoubtful, EndIsCertain, OneAssumption,
        GivenIsCommon, PropagationIsExact, NilMeansInconsistent, StartAssumptions
<1>5. CASE r # NULL
  <2>1. /\ r \in models /\ r \in Assignments /\ excluded' \subseteq {r}
        /\ terminated' \in BOOLEAN
        /\ terminated' => models = {r}
    BY <1>1, <1>3, <1>5, FoundModel
  <2>2. Lits(r) \subseteq Literals
    BY <2>1, EitherLiteral DEF Lits, Literals, Assignments
  <2>3. TypeOK'
    <3>1. TaskTypeOK'
      BY <1>1, <1>2, CalculateType
    <3> QED
      BY <1>1, <1>2, <1>5, <2>2, <3>1 DEF TypeOK
  <2>4. Common \subseteq Lits(r) /\ Common' = Common /\ given \subseteq Common
    BY <1>2, <2>1, Narrowed, CommonSame DEF IInv, GivenIsCommon
  <2>5. Between' /\ GivenIsCommon'
    BY <1>1, <1>2, <1>5, <2>4 DEF Between, GivenIsCommon, StartAssumptions
  <2>6. ExcludedHaveDoubtful'
    BY <1>1, <1>5, <2>1 DEF ExcludedHaveDoubtful
  <2>7. terminated' => over' \subseteq Common'
    BY <1>1, <1>5, <2>1, <2>2, <2>4 DEF Common
  <2> QED
    BY <1>1, <1>2, <1>5, <2>3, <2>5, <2>6, <2>7
    DEF IInv, EndIsCertain, OneAssumption, PropagationIsExact, NilMeansInconsistent, StartAssumptions
<1> QED
  BY <1>4, <1>5

(* The solver is asked for a model without a literal in doubt. *)
LEMMA AssumeIInv ==
  ASSUME IInv, Assume
  PROVE  IInv'
<1>1. PICK a \in over : tried' = {a} /\ assumption' = assumption \cup {Neg(a)}
  BY DEF Assume, addAssumption
<1>2. /\ pc = "loop" /\ pc' = "solve" /\ method = "assumptions"
      /\ UNCHANGED <<models, excluded, terminated, terminate, shouldTerminate,
                     method, given, under, over, requests>>
  BY DEF Assume
<1>3. a \in Literals /\ Neg(a) \in Literals
  BY <1>1 DEF IInv, TypeOK, Neg, Literals, Signs
<1>4. assumption = {}
  BY <1>2 DEF IInv, OneAssumption
<1>5. TypeOK'
  BY <1>1, <1>2, <1>3, <1>4 DEF IInv, TypeOK, TaskTypeOK
<1>6. OneAssumption'
  BY <1>1, <1>2, <1>3, <1>4 DEF OneAssumption
<1> QED
  BY <1>2, <1>5, <1>6, CommonSame
  DEF IInv, Between, Searching, ExcludedHaveDoubtful, EndIsCertain, GivenIsCommon,
      PropagationIsExact, NilMeansInconsistent

(* A search without success, ended or not, shows the literal common. *)
LEMMA SolveAssumedIInv ==
  ASSUME IInv, SolveAssumed
  PROVE  IInv'
<1> TypeOK /\ ~terminate
  BY DEF IInv, EndIsCertain
<1>1. PICK r : calculate(r) /\ Learn(r)
  BY DEF SolveAssumed
<1>2. /\ pc = "solve" /\ pc' = "retract" /\ method = "assumptions"
      /\ UNCHANGED <<assumption, method, given, tried, requests, models, terminate>>
  BY <1>1 DEF SolveAssumed, calculate
<1>3. PICK a \in Literals : tried = {a} /\ assumption = {Neg(a)} /\ a \in over
  BY <1>2 DEF IInv, OneAssumption
<1>4. under \subseteq Common /\ Common \subseteq under \cup over /\ Common' = Common
  BY <1>2, CommonSame DEF IInv, Between, Searching
<1>5. \A m \in excluded : over \subseteq Lits(m)
  BY <1>2 DEF IInv, ExcludedHaveDoubtful, Searching
<1>6. over' \subseteq over /\ under' \subseteq under \cup {a}
  BY <1>1, <1>3 DEF Learn
<1>7. TypeOK'
  <2>1. TaskTypeOK'
    BY <1>1, <1>2, CalculateType
  <2> QED
    BY <1>2, <1>3, <1>6, <2>1 DEF TypeOK
<1>8. under' \subseteq Common /\ Common \subseteq under' \cup over'
      /\ \A m \in excluded' : over' \subseteq Lits(m)
  <2>1. CASE r = NULL
    <3>1. excluded' = excluded /\ (terminated \/ Candidates = {})
      BY <1>1, <2>1, NoModelFound
    <3>2. a \in Common
      <4>1. CASE terminated
        BY <1>2, <1>3, <4>1 DEF IInv, EndIsCertain
      <4>2. CASE Candidates = {}
        <5>1. ASSUME NEW m \in models PROVE a \in Lits(m)
          <6>1. CASE m \in excluded
            BY <1>3, <1>5, <6>1
          <6>2. CASE m \notin excluded
            <7>1. Neg(a) \notin Lits(m)
              BY <1>3, <4>2, <6>2 DEF Candidates
            <7> QED
              BY <7>1, EitherLiteral DEF TypeOK, TaskTypeOK
          <6> QED
            BY <6>1, <6>2
        <5> QED
          BY <5>1 DEF Common
      <4> QED
        BY <3>1, <4>1, <4>2
    <3>3. under' = under \cup {a} /\ over' = over \ {a}
      BY <1>1, <1>3, <2>1 DEF Learn
    <3> QED
      BY <1>4, <1>5, <3>1, <3>2, <3>3
  <2>2. CASE r # NULL
    <3>1. r \in models /\ excluded' \subseteq excluded \cup {r}
      BY <1>1, <2>2, FoundModel
    <3>2. Common \subseteq Lits(r)
      BY <3>1, Narrowed
    <3>3. over' = over \cap Lits(r) /\ under' = under
      BY <1>1, <2>2 DEF Learn
    <3> QED
      BY <1>4, <1>5, <3>1, <3>2, <3>3
  <2> QED
    BY <2>1, <2>2
<1>9. OneAssumption'
  BY <1>2, <1>3 DEF OneAssumption
<1> QED
  BY <1>2, <1>4, <1>7, <1>8, <1>9
  DEF IInv, Between, Searching, ExcludedHaveDoubtful, EndIsCertain, GivenIsCommon,
      PropagationIsExact, NilMeansInconsistent

LEMMA RetractIInv ==
  ASSUME IInv, Retract
  PROVE  IInv'
<1>1. /\ pc = "retract" /\ pc' = "loop" /\ tried' = {}
      /\ UNCHANGED <<models, excluded, terminate, shouldTerminate, method, given, under, over, requests>>
  BY DEF Retract
<1>2. PICK a \in tried : assumption' = assumption \ {Neg(a)} /\ terminated' = FALSE
  BY DEF Retract, removeAssumption
<1>3. assumption' = {}
  BY <1>1, <1>2 DEF IInv, OneAssumption
<1>4. TaskTypeOK'
  BY <1>1, <1>2, <1>3 DEF IInv, TypeOK, TaskTypeOK
<1>5. TypeOK'
  BY <1>1, <1>4 DEF IInv, TypeOK
<1> QED
  BY <1>1, <1>2, <1>3, <1>5, CommonSame
  DEF IInv, Between, Searching, ExcludedHaveDoubtful, EndIsCertain, OneAssumption, GivenIsCommon,
      PropagationIsExact, NilMeansInconsistent

LEMMA EndAssumptionsIInv ==
  ASSUME IInv, EndAssumptions
  PROVE  IInv'
<1>1. /\ pc = "loop" /\ pc' = "done" /\ method = "assumptions" /\ over = {}
      /\ UNCHANGED <<taskVars, propVars, requests>>
  BY DEF EndAssumptions
<1>2. under = Common
  BY <1>1 DEF IInv, Between, Searching
<1>3. TypeOK'
  BY <1>1 DEF IInv, TypeOK, TaskTypeOK, taskVars, propVars
<1> QED
  BY <1>1, <1>2, <1>3, CommonSame
  DEF IInv, Between, Searching, ExcludedHaveDoubtful, EndIsCertain, OneAssumption, GivenIsCommon,
      PropagationIsExact, NilMeansInconsistent, Common, taskVars, propVars

(* Intersection begins with the literals of a first model, or crashes. *)
LEMMA StartIntersectionIInv ==
  ASSUME IInv, StartIntersection
  PROVE  IInv'
<1> TypeOK /\ ~terminate /\ pc = "start" /\ ~terminated /\ excluded = {} /\ assumption = {}
  BY DEF IInv, EndIsCertain, StartIntersection, ExcludedHaveDoubtful, OneAssumption
<1>1. PICK r : /\ calculate(r)
               /\ IF r = NULL THEN pc' = "crashed" /\ UNCHANGED over
                              ELSE pc' = "loop" /\ over' = Lits(r)
  BY DEF StartIntersection
<1>2. /\ UNCHANGED <<assumption, method, given, under, tried, requests, models, terminate>>
      /\ shouldTerminate' \in BOOLEAN
  BY <1>1 DEF StartIntersection, calculate
<1>3. Candidates = models
  BY DEF Candidates
<1>4. TaskTypeOK'
  BY <1>1, <1>2, CalculateType
<1>5. under = {}
  BY DEF IInv, Between
<1>6. CASE r = NULL
  <2>1. pc' = "crashed" /\ UNCHANGED over
    BY <1>1, <1>6
  <2>2. TypeOK'
    BY <1>2, <1>4, <2>1 DEF TypeOK
  <2> QED
    BY <1>2, <2>1, <2>2, CommonSame
    DEF IInv, Between, Searching, ExcludedHaveDoubtful, EndIsCertain, OneAssumption,
        GivenIsCommon, PropagationIsExact, NilMeansInconsistent, StartIntersection
<1>7. CASE r # NULL
  <2>1. /\ r \in models /\ r \in Assignments /\ excluded' \subseteq {r}
        /\ terminated' => models = {r}
    BY <1>1, <1>3, <1>7, FoundModel
  <2>2. Lits(r) \subseteq Literals
    BY <2>1, EitherLiteral DEF Lits, Literals, Assignments
  <2>3. pc' = "loop" /\ over' = Lits(r)
    BY <1>1, <1>7
  <2>4. TypeOK'
    BY <1>2, <1>4, <2>2, <2>3 DEF TypeOK
  <2>5. Common \subseteq Lits(r) /\ Common' = Common
    BY <1>2, <2>1, Narrowed, CommonSame
  <2>6. Between'
    BY <1>2, <1>5, <2>3, <2>5 DEF Between
  <2>7. ExcludedHaveDoubtful'
    BY <2>1, <2>3 DEF ExcludedHaveDoubtful
  <2>8. terminated' => over' \subseteq Common'
    BY <2>1, <2>2, <2>3, <2>5 DEF Common
  <2> QED
    BY <1>2, <2>3, <2>4, <2>5, <2>6, <2>7, <2>8
    DEF IInv, EndIsCertain, OneAssumption, GivenIsCommon, PropagationIsExact,
        NilMeansInconsistent, StartIntersection
<1> QED
  BY <1>6, <1>7

(* The clause excludes the models that have all that is in doubt. *)
LEMMA ExcludeIInv ==
  ASSUME IInv, Exclude
  PROVE  IInv'
<1>1. /\ pc = "loop" /\ pc' = "solve" /\ method = "intersection"
      /\ UNCHANGED <<models, assumption, terminated, terminate, shouldTerminate, propVars, requests>>
      /\ excluded' = excluded \cup {m \in models : {Neg(l) : l \in over} \cap Lits(m) = {}}
  BY DEF Exclude, addClause
<1>2. ASSUME NEW m \in models, {Neg(l) : l \in over} \cap Lits(m) = {}
      PROVE  over \subseteq Lits(m)
  <2> SUFFICES ASSUME NEW l \in over PROVE l \in Lits(m)
    OBVIOUS
  <2>1. Neg(l) \notin Lits(m)
    BY <1>2
  <2>2. m \in Assignments /\ l \in Literals
    BY DEF IInv, TypeOK, TaskTypeOK
  <2> QED
    BY <2>1, <2>2, EitherLiteral
<1>3. \A m \in excluded' : over \subseteq Lits(m)
  BY <1>1, <1>2 DEF IInv, ExcludedHaveDoubtful, Searching
<1>4. TaskTypeOK'
  BY <1>1 DEF IInv, TypeOK, TaskTypeOK
<1>5. TypeOK'
  BY <1>1, <1>4 DEF IInv, TypeOK, propVars
<1> QED
  BY <1>1, <1>3, <1>5, CommonSame
  DEF IInv, Between, Searching, ExcludedHaveDoubtful, EndIsCertain, OneAssumption, GivenIsCommon,
      PropagationIsExact, NilMeansInconsistent, propVars

(* Each model found narrows the intersection; when none is left, those that *)
(* were excluded had all of it.                                            *)
LEMMA SolveExcludingIInv ==
  ASSUME IInv, SolveExcluding
  PROVE  IInv'
<1> TypeOK /\ ~terminate
  BY DEF IInv, EndIsCertain
<1>1. PICK r : /\ calculate(r)
               /\ IF r = NULL
                    THEN pc' = "done" /\ under' = given \cup over /\ UNCHANGED over
                    ELSE pc' = "loop" /\ over' = over \cap Lits(r) /\ UNCHANGED under
  BY DEF SolveExcluding, Intersect
<1>2. /\ pc = "solve" /\ method = "intersection"
      /\ UNCHANGED <<assumption, method, given, tried, requests, models, terminate>>
  BY <1>1 DEF SolveExcluding, calculate
<1>3. /\ under = {} /\ Common \subseteq over /\ Common' = Common /\ given \subseteq Common
      /\ \A m \in excluded : over \subseteq Lits(m)
      /\ assumption = {}
  BY <1>2, CommonSame
  DEF IInv, Between, Searching, GivenIsCommon, ExcludedHaveDoubtful, OneAssumption
<1>4. Candidates = models \ excluded
  BY <1>3 DEF Candidates
<1>5. over \subseteq Literals
  BY DEF TypeOK
<1>6. TaskTypeOK'
  BY <1>1, <1>2, CalculateType
<1>7. CASE r = NULL
  <2>1. pc' = "done" /\ under' = given \cup over /\ UNCHANGED over
    BY <1>1, <1>7
  <2>2. terminated \/ models \ excluded = {}
    BY <1>1, <1>4, <1>7, NoModelFound
  <2>3. over \subseteq Common
    <3>1. CASE terminated
      BY <1>2, <3>1 DEF IInv, EndIsCertain
    <3>2. CASE models \ excluded = {}
      BY <1>3, <1>5, <3>2 DEF Common
    <3> QED
      BY <2>2, <3>1, <3>2
  <2>4. under' = Common'
    BY <1>3, <2>1, <2>3
  <2>5. TypeOK'
    BY <1>2, <1>6, <2>1 DEF TypeOK
  <2> QED
    BY <1>2, <1>3, <2>1, <2>4, <2>5
    DEF IInv, Between, Searching, ExcludedHaveDoubtful, EndIsCertain, OneAssumption,
        GivenIsCommon, PropagationIsExact, NilMeansInconsistent, Common
<1>8. CASE r # NULL
  <2>1. pc' = "loop" /\ over' = over \cap Lits(r) /\ UNCHANGED under
    BY <1>1, <1>8
  <2>2. /\ r \in models /\ excluded' \subseteq excluded \cup {r}
        /\ terminated' => models \ excluded = {r}
    BY <1>1, <1>4, <1>8, FoundModel
  <2>3. Common \subseteq over'
    BY <1>3, <2>1, <2>2, Narrowed
  <2>4. \A m \in excluded \cup {r} : over' \subseteq Lits(m)
    BY <1>3, <2>1
  <2>5. terminated' => over' \subseteq Common
    BY <1>5, <2>1, <2>2, <2>4 DEF Common
  <2>6. TypeOK'
    BY <1>2, <1>6, <2>1 DEF TypeOK
  <2> QED
    BY <1>2, <1>3, <2>1, <2>2, <2>3, <2>4, <2>5, <2>6
    DEF IInv, Between, Searching, ExcludedHaveDoubtful, EndIsCertain, OneAssumption,
        GivenIsCommon, PropagationIsExact, NilMeansInconsistent
<1> QED
  BY <1>7, <1>8

LEMMA EnumerateIInv ==
  ASSUME IInv, Enumerate
  PROVE  IInv'
<1>1. /\ pc = "start" /\ UNCHANGED <<taskVars, method, given, over, tried, requests>>
      /\ \/ models = {} /\ pc' = "nil" /\ UNCHANGED under
         \/ models # {} /\ pc' = "done" /\ under' = given \cup Common
  BY DEF Enumerate, Common
<1>2. TaskTypeOK'
  BY <1>1 DEF IInv, TypeOK, TaskTypeOK, taskVars
<1>3. Common \subseteq Literals /\ given \subseteq Common
  BY DEF IInv, GivenIsCommon, Common
<1>4. TypeOK'
  BY <1>1, <1>2, <1>3 DEF IInv, TypeOK
<1>5. pc' = "done" => under' = Common'
  BY <1>1, <1>3, CommonSame DEF taskVars
<1> QED
  BY <1>1, <1>3, <1>4, <1>5, CommonSame
  DEF IInv, Between, Searching, ExcludedHaveDoubtful, EndIsCertain, OneAssumption, GivenIsCommon,
      PropagationIsExact, NilMeansInconsistent, Common, taskVars

(* An exception ends it: nothing is claimed. *)
LEMMA ThrowIInv ==
  ASSUME IInv, Throw
  PROVE  IInv'
<1> TypeOK /\ ~terminate
  BY DEF IInv, EndIsCertain
<1>1. /\ pc' = "stopped" /\ UNCHANGED <<propVars, requests, models, terminate, shouldTerminate, assumption>>
      /\ \E r \in Candidates \cup {NULL} : findNext(r)
  BY DEF Throw, calculateThrows
<1>2. excluded' \subseteq models /\ terminated' \in BOOLEAN
  BY <1>1 DEF findNext, NoNext, Found, Candidates, TypeOK, TaskTypeOK
<1>3. TaskTypeOK'
  BY <1>1, <1>2 DEF TypeOK, TaskTypeOK
<1>4. TypeOK'
  BY <1>1, <1>3 DEF TypeOK, propVars
<1>5. method = "intersection" => assumption = {} /\ tried = {}
  BY DEF IInv, OneAssumption
<1> QED
  BY <1>1, <1>4, <1>5, CommonSame
  DEF IInv, Between, Searching, ExcludedHaveDoubtful, EndIsCertain, OneAssumption, GivenIsCommon,
      PropagationIsExact, NilMeansInconsistent, propVars

LEMMA RequestIInv ==
  ASSUME IInv, Request
  PROVE  IInv'
<1>1. /\ shouldTerminate' = TRUE /\ requests' = requests + 1 /\ requests < MaxRequests
      /\ UNCHANGED <<models, excluded, assumption, terminated, terminate, pc, propVars>>
  BY DEF Request
<1>2. TaskTypeOK' /\ UNCHANGED <<pc, method, given, under, over, tried>>
  BY <1>1 DEF IInv, TypeOK, TaskTypeOK, propVars
<1>3. requests' \in 0 .. MaxRequests
  BY <1>1, FullPropAssumption DEF IInv, TypeOK
<1>4. TypeOK'
  BY <1>2, <1>3 DEF IInv, TypeOK
<1> QED
  BY <1>1, <1>4, CommonSame
  DEF IInv, Between, Searching, ExcludedHaveDoubtful, EndIsCertain, OneAssumption, GivenIsCommon,
      PropagationIsExact, NilMeansInconsistent, Common, propVars

LEMMA StutterIInv ==
  ASSUME IInv, UNCHANGED vars
  PROVE  IInv'
<1>1. UNCHANGED <<taskVars, pc, propVars, requests>>
  BY DEF vars
<1>2. TaskTypeOK'
  BY <1>1 DEF IInv, TypeOK, TaskTypeOK, taskVars
<1>3. TypeOK'
  BY <1>1, <1>2 DEF IInv, TypeOK, propVars
<1> QED
  BY <1>1, <1>3, CommonSame
  DEF IInv, Between, Searching, ExcludedHaveDoubtful, EndIsCertain, OneAssumption, GivenIsCommon,
      PropagationIsExact, NilMeansInconsistent, Common, propVars, taskVars

LEMMA Invariance == Spec => []IInv
<1>1. IInv /\ [Next]_vars => IInv'
  BY StartAssumptionsIInv, AssumeIInv, SolveAssumedIInv, RetractIInv, EndAssumptionsIInv,
     StartIntersectionIInv, ExcludeIInv, SolveExcludingIInv, EnumerateIInv, ThrowIInv,
     RequestIInv, StutterIInv
  DEF Next, optimalpropagate, propagate, propagateNoAssumps
<1> QED
  BY InitIInv, <1>1, PTL DEF Spec

(* optimalpropagate is always in a state of its types. *)
THEOREM TypeCorrect == Spec => []TypeOK
<1>1. IInv => TypeOK
  BY DEF IInv
<1> QED
  BY Invariance, <1>1, PTL

(* Each of the three ways returns the literals common to all models, no    *)
(* more and no less, or nil for theories without models only, whatever is  *)
(* requested meanwhile.                                                    *)
THEOREM AnswersExactly == Spec => []AnswerIsExact
<1>1. IInv => AnswerIsExact
  BY DEF IInv, AnswerIsExact
<1> QED
  BY Invariance, <1>1, PTL
=============================================================================
