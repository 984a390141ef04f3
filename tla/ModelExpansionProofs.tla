------------------------ MODULE ModelExpansionProofs ------------------------
(***************************************************************************)
(* Why the result of an expansion can be trusted unless a request from     *)
(* outside straddles its beginning: a search that ends early was told to,  *)
(* by the watch or by a request of this call, and neither is forgotten     *)
(* before the result is made.  A request that comes too late to be noted   *)
(* leaves the flag up.                                                     *)
(***************************************************************************)
EXTENDS ModelExpansion, TLAPS

BeforeResult == pc \in {"ground", "grounded", "solve", "solved"}

WithResult == pc \in {"join", "result"}

(* Nobody stops the solver or raises the flag without being asked to. *)
OnlyOnDemand ==
  /\ terminate => wentOut \/ asked # "no"
  /\ handler = "notify" => asked # "no"
  /\ shouldTerminate => asked # "no"
  /\ watch = "fire" => wentOut

(* A request of this call stays visible until the solver has returned. *)
RequestSeen == asked = "during" /\ BeforeResult => shouldTerminate

SearchState ==
  /\ BeforeResult => result = NoResult
  /\ pc \in {"ground", "grounded", "solve"} => ~complete
  /\ pc = "solved" /\ ~complete => terminate
  /\ complete => found = models

(* A search cut short is on record when the result is made. *)
CutOnRecord ==
  WithResult =>
    /\ ~complete /\ asked # "before" => wentOut \/ result.interrupted
    /\ asked = "during" => shouldTerminate \/ result.interrupted \/ found = 0
    /\ result.interrupted => asked # "no"
    /\ result.unsat <=> found = 0
    /\ ~result.optimumfound

IInv ==
  /\ TypeOK
  /\ OnlyOnDemand /\ RequestSeen /\ SearchState /\ CutOnRecord
  /\ UnsatIsJustified /\ OptimumIsOptimal /\ ModelsAreReturned /\ RequestLeavesItsMark

-----------------------------------------------------------------------------

LEMMA BoundTypes == MaxModels \in Nat /\ MaxCalls \in Nat /\ MaxRequests \in Nat
  BY BoundsAssumption

LEMMA InitIInv == Init => IInv
<1> SUFFICES ASSUME Init PROVE IInv
  OBVIOUS
<1>1. /\ calls \in 0 .. MaxCalls /\ models \in 0 .. MaxModels /\ found \in 0 .. models
      /\ requests \in 0 .. MaxRequests
  BY BoundTypes DEF Init
<1>2. TypeOK
  BY <1>1 DEF Init, TypeOK, Labels, Results, NoResult
<1> QED
  BY <1>2 DEF Init, IInv, OnlyOnDemand, RequestSeen, BeforeResult, SearchState, WithResult, CutOnRecord,
     UnsatIsJustified, OptimumIsOptimal, ModelsAreReturned, RequestLeavesItsMark

(* The final result says what it should of each of its fields. *)
LEMMA FinalFields ==
  ASSUME TypeOK
  PROVE  /\ FinalResult \in Results
         /\ FinalResult.unsat <=> result.unsat
         /\ FinalResult.interrupted =>
              wentOut \/ result.interrupted
         /\ wentOut \/ result.interrupted =>
              FinalResult.interrupted \/ FinalResult.unsat
         /\ ~FinalResult.interrupted /\ FinalResult.unsat => ~wentOut
         /\ FinalResult.optimumfound => ~result.interrupted /\ ~wentOut
<1>1. CASE result.unsat /\ ~wentOut
  BY <1>1 DEF FinalResult, NoResult, Results, TypeOK
<1>2. CASE ~(result.unsat /\ ~wentOut)
  <2> DEFINE o == ~result.interrupted /\ ~wentOut
             i == result.interrupted \/ wentOut
  <2>1. FinalResult = [result EXCEPT !.optimumfound = o, !.interrupted = i]
    BY <1>2 DEF FinalResult
  <2>2. o \in BOOLEAN /\ i \in BOOLEAN
    OBVIOUS
  <2> HIDE DEF o, i
  <2>3. FinalResult \in Results /\ FinalResult.unsat = result.unsat
        /\ FinalResult.optimumfound = o /\ FinalResult.interrupted = i
    BY <2>1, <2>2 DEF Results, TypeOK
  <2> QED
    BY <1>2, <2>3 DEF o, i
<1> QED
  BY <1>1, <1>2

-----------------------------------------------------------------------------
(* Types. *)

LEMMA WorkerType ==
  ASSUME TypeOK, Call \/ Worker
  PROVE  TypeOK'
<1>1. CASE Call
  <2>1. calls' \in 0 .. MaxCalls
    BY <1>1, BoundTypes DEF Call, TypeOK
  <2>2. models' \in 0 .. MaxModels /\ found' \in 0 .. models'
    BY <1>1, BoundTypes DEF Call, NewSearch
  <2>3. NoResult \in Results
    BY DEF NoResult, Results
  <2> QED
    BY <1>1, <2>1, <2>2, <2>3 DEF Call, NewSearch, TypeOK, Labels
<1>2. CASE LastCheck
  BY <1>2 DEF LastCheck, Goto, searchVars, sharedVars, watchVars, requestVars, TypeOK, Labels
<1>3. CASE StartSolver
  BY <1>3 DEF StartSolver, Goto, searchVars, requestVars, TypeOK, Labels
<1>4. CASE SearchAborts
  BY <1>4 DEF SearchAborts, Goto, searchVars, sharedVars, watchVars, requestVars, TypeOK, Labels
<1>5. CASE Fail
  BY <1>5 DEF Fail, Goto, searchVars, watchVars, requestVars, TypeOK, Labels
<1>6. CASE TakeRequest
  <2> DEFINE u == (found = 0)
  <2>1. u \in BOOLEAN
    OBVIOUS
  <2>2. result' = [result EXCEPT !.unsat = u, !.interrupted = shouldTerminate]
    BY <1>6 DEF TakeRequest
  <2> HIDE DEF u
  <2>3. result' \in Results
    BY <2>1, <2>2 DEF TypeOK, Results
  <2> QED
    BY <1>6, <2>3 DEF TakeRequest, Goto, searchVars, requestVars, TypeOK, Labels
<1>7. CASE LateRequest
  BY <1>7 DEF LateRequest, Goto, searchVars, sharedVars, watchVars, requestVars, TypeOK, Labels
<1>8. CASE Return
  <2>1. result' \in Results /\ shouldTerminate' \in BOOLEAN
    BY <1>8, FinalFields DEF Return, FlagAfter, TypeOK
  <2> QED
    BY <1>8, <2>1 DEF Return, Goto, searchVars, watchVars, requestVars, TypeOK, Labels
<1> QED
  BY <1>1, <1>2, <1>3, <1>4, <1>5, <1>6, <1>7, <1>8 DEF Worker

LEMMA SearchType ==
  ASSUME TypeOK, Search
  PROVE  TypeOK'
<1>1. CASE FindModel
  <2>1. found' \in 0 .. models'
    BY <1>1 DEF FindModel, Goto, TypeOK
  <2> QED
    BY <1>1, <2>1 DEF FindModel, Goto, sharedVars, watchVars, requestVars, TypeOK, Labels
<1>2. CASE SearchEnds
  BY <1>2 DEF SearchEnds, Goto, sharedVars, watchVars, requestVars, TypeOK, Labels
<1>3. CASE UnsatThrown
  BY <1>3 DEF UnsatThrown, Goto, sharedVars, requestVars, TypeOK, Labels, Results
<1>4. CASE SearchFails
  BY <1>4 DEF SearchFails, Goto, searchVars, sharedVars, requestVars, TypeOK, Labels
<1> QED
  BY <1>1, <1>2, <1>3, <1>4 DEF Search

LEMMA OthersType ==
  ASSUME TypeOK, Watch \/ GoOut \/ Request \/ Notify
  PROVE  TypeOK'
<1> USE DEF workerVars, searchVars, sharedVars, requestVars, watchVars
<1>1. CASE WatchLoops
  BY <1>1 DEF WatchLoops, TypeOK
<1>2. CASE Fire
  BY <1>2 DEF Fire, call_on_timeout, TypeOK
<1>3. CASE GoOut
  BY <1>3 DEF GoOut, TypeOK
<1>4. CASE Request
  <2>1. requests' \in 0 .. MaxRequests
    BY <1>4, BoundTypes DEF Request, TypeOK
  <2> QED
    BY <1>4, <2>1 DEF Request, TypeOK
<1>5. CASE Notify
  <2>1. terminate' \in BOOLEAN
    BY <1>5 DEF Notify
  <2> QED
    BY <1>5, <2>1 DEF Notify, TypeOK
<1> QED
  BY <1>1, <1>2, <1>3, <1>4, <1>5 DEF Watch

LEMMA StutterType ==
  ASSUME TypeOK, UNCHANGED vars
  PROVE  TypeOK'
  BY DEF vars, workerVars, searchVars, sharedVars, requestVars, watchVars, TypeOK

LEMMA TypePreserved == TypeOK /\ [Next]_vars => TypeOK'
  BY WorkerType, SearchType, OthersType, StutterType DEF Next

-----------------------------------------------------------------------------
(* What is on record. *)

Record == OnlyOnDemand /\ RequestSeen /\ SearchState /\ CutOnRecord

Claims == UnsatIsJustified /\ OptimumIsOptimal /\ ModelsAreReturned /\ RequestLeavesItsMark

LEMMA CallRecord ==
  ASSUME IInv, Call
  PROVE  (Record /\ Claims)'
  BY DEF IInv, Call, NewSearch, NoResult, Record, OnlyOnDemand, RequestSeen, SearchState,
     CutOnRecord, BeforeResult, WithResult, Claims, UnsatIsJustified, OptimumIsOptimal,
     ModelsAreReturned, RequestLeavesItsMark

(* Of the worker's steps before the result only the last takes a request   *)
(* back, and it notes it.                                                  *)
LEMMA WorkerRecord ==
  ASSUME IInv, Worker, ~Return
  PROVE  (Record /\ Claims)'
<1> USE DEF IInv, Goto, searchVars, sharedVars, watchVars, requestVars, Record, OnlyOnDemand,
        RequestSeen, SearchState, CutOnRecord, BeforeResult, WithResult, Claims,
        UnsatIsJustified, OptimumIsOptimal, ModelsAreReturned, RequestLeavesItsMark
<1>1. CASE LastCheck
  BY <1>1 DEF LastCheck
<1>2. CASE StartSolver
  BY <1>2 DEF StartSolver
<1>3. CASE SearchAborts
  BY <1>3 DEF SearchAborts
<1>4. CASE Fail
  BY <1>4 DEF Fail
<1>5. CASE TakeRequest
  <2> DEFINE u == (found = 0)
  <2>1. result = NoResult /\ pc = "solved"
    BY <1>5 DEF TakeRequest
  <2>2. result' = [NoResult EXCEPT !.unsat = u, !.interrupted = shouldTerminate]
    BY <1>5, <2>1 DEF TakeRequest
  <2> HIDE DEF u
  <2>3. result'.unsat = u /\ result'.interrupted = shouldTerminate /\ result'.optimumfound = FALSE
    BY <2>2 DEF NoResult
  <2>4. UNCHANGED <<found, complete, wentOut, asked, models>>
    BY <1>5 DEF TakeRequest
  <2>5. CutOnRecord'
    BY <2>1, <2>3, <2>4 DEF u, TypeOK
  <2> QED
    BY <1>5, <2>5 DEF TakeRequest
<1>6. CASE LateRequest
  BY <1>6 DEF LateRequest, Joined
<1> QED
  BY <1>1, <1>2, <1>3, <1>4, <1>5, <1>6 DEF Worker

(* What the result claims is what is on record. *)
LEMMA ReturnRecord ==
  ASSUME IInv, Return
  PROVE  (Record /\ Claims)'
<1>1. /\ pc = "result" /\ pc' \in {"returned", "crashed"} /\ result' = FinalResult
      /\ shouldTerminate' = (shouldTerminate /\ ~wentOut)
      /\ UNCHANGED <<calls, models, requestVars, searchVars, terminate, watchVars>>
  BY DEF Return, FlagAfter, Goto
<1>2. /\ result'.unsat <=> found = 0
      /\ result'.interrupted => wentOut \/ result.interrupted
      /\ wentOut \/ result.interrupted => result'.interrupted \/ result'.unsat
      /\ ~result'.interrupted /\ result'.unsat => ~wentOut
      /\ result'.optimumfound => ~result.interrupted /\ ~wentOut
  BY <1>1, FinalFields DEF IInv, CutOnRecord, WithResult
<1>3. Record'
  BY <1>1 DEF IInv, Record, OnlyOnDemand, RequestSeen, SearchState, CutOnRecord, BeforeResult,
     WithResult, requestVars, searchVars, watchVars
<1>4. UnsatIsJustified'
  BY <1>1, <1>2 DEF IInv, UnsatIsJustified, CutOnRecord, WithResult, SearchState, requestVars,
     searchVars, watchVars
<1>5. OptimumIsOptimal'
  BY <1>1, <1>2 DEF IInv, OptimumIsOptimal, CutOnRecord, WithResult, requestVars, searchVars, watchVars
<1>6. ModelsAreReturned'
  BY <1>1, <1>2 DEF IInv, TypeOK, ModelsAreReturned, searchVars, watchVars
<1>7. RequestLeavesItsMark'
  <2> SUFFICES ASSUME asked = "during", found > 0, ~result'.interrupted
               PROVE  shouldTerminate'
    BY <1>1 DEF RequestLeavesItsMark, requestVars, searchVars
  <2>1. found # 0 /\ ~result'.unsat
    BY <1>2 DEF IInv, TypeOK
  <2> QED
    BY <1>1, <1>2, <2>1 DEF IInv, CutOnRecord, WithResult
<1> QED
  BY <1>3, <1>4, <1>5, <1>6, <1>7 DEF Claims

LEMMA SearchRecord ==
  ASSUME IInv, Search
  PROVE  (Record /\ Claims)'
<1> USE DEF IInv, TypeOK, Goto, searchVars, sharedVars, watchVars, requestVars, Record, OnlyOnDemand,
        RequestSeen, SearchState, CutOnRecord, BeforeResult, WithResult, Claims,
        UnsatIsJustified, OptimumIsOptimal, ModelsAreReturned, RequestLeavesItsMark
<1>1. CASE FindModel
  BY <1>1 DEF FindModel
<1>2. CASE SearchEnds
  BY <1>2 DEF SearchEnds
<1>3. CASE UnsatThrown
  BY <1>3 DEF UnsatThrown, NoResult
<1>4. CASE SearchFails
  BY <1>4 DEF SearchFails
<1> QED
  BY <1>1, <1>2, <1>3, <1>4 DEF Search

LEMMA OthersRecord ==
  ASSUME IInv, Watch \/ GoOut \/ Request \/ Notify
  PROVE  (Record /\ Claims)'
<1> USE DEF IInv, workerVars, searchVars, sharedVars, watchVars, requestVars, Record, OnlyOnDemand,
        RequestSeen, SearchState, CutOnRecord, BeforeResult, WithResult, Claims,
        UnsatIsJustified, OptimumIsOptimal, ModelsAreReturned, RequestLeavesItsMark
<1>1. CASE WatchLoops
  BY <1>1 DEF WatchLoops
<1>2. CASE Fire
  BY <1>2 DEF Fire, call_on_timeout
<1>3. CASE GoOut
  BY <1>3 DEF GoOut
<1>4. CASE Request
  BY <1>4 DEF Request
<1>5. CASE Notify
  BY <1>5 DEF Notify
<1> QED
  BY <1>1, <1>2, <1>3, <1>4, <1>5 DEF Watch

LEMMA StutterRecord ==
  ASSUME IInv, UNCHANGED vars
  PROVE  (Record /\ Claims)'
  BY DEF IInv, vars, workerVars, searchVars, sharedVars, watchVars, requestVars, Record,
     OnlyOnDemand, RequestSeen, SearchState, CutOnRecord, BeforeResult, WithResult, Claims,
     UnsatIsJustified, OptimumIsOptimal, ModelsAreReturned, RequestLeavesItsMark

LEMMA Invariance == Spec => []IInv
<1>1. IInv /\ [Next]_vars => IInv'
  <2> SUFFICES ASSUME IInv, [Next]_vars PROVE IInv'
    OBVIOUS
  <2>1. TypeOK'
    BY TypePreserved DEF IInv
  <2>2. (Record /\ Claims)'
    BY CallRecord, WorkerRecord, ReturnRecord, SearchRecord, OthersRecord, StutterRecord DEF Next
  <2> QED
    BY <2>1, <2>2 DEF IInv, Record, Claims
<1> QED
  BY InitIInv, <1>1, PTL DEF Spec

(* An expansion is always in a state of its types. *)
THEOREM TypeCorrect == Spec => []TypeOK
<1>1. IInv => TypeOK
  BY DEF IInv
<1> QED
  BY Invariance, <1>1, PTL

(* Without a request from outside, unsat without interrupted means that    *)
(* there are no models, whenever the solver's own limits struck.           *)
THEOREM UnsatCanBeTrusted == Spec => []UnsatIsJustified
<1>1. IInv => UnsatIsJustified
  BY DEF IInv
<1> QED
  BY Invariance, <1>1, PTL

(* Optimality is claimed for complete searches only, unless a request was  *)
(* under way when the expansion began.                                     *)
THEOREM OptimumCanBeTrusted == Spec => []OptimumIsOptimal
<1>1. IInv => OptimumIsOptimal
  BY DEF IInv
<1> QED
  BY Invariance, <1>1, PTL

(* Limits do not lose the models found before them. *)
THEOREM LimitsKeepModels == Spec => []ModelsAreReturned
<1>1. IInv => ModelsAreReturned
  BY DEF IInv
<1> QED
  BY Invariance, <1>1, PTL

(* A request made while a model is being found and returned is noted in    *)
(* the result, or stops the procedure at its next check.                   *)
THEOREM RequestsAreKept == Spec => []RequestLeavesItsMark
<1>1. IInv => RequestLeavesItsMark
  BY DEF IInv
<1> QED
  BY Invariance, <1>1, PTL
=============================================================================
