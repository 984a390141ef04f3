--------------------------- MODULE ModelExpansion ---------------------------
(***************************************************************************)
(* ModelExpansion::expand among the threads that may ask it to stop.       *)
(*                                                                         *)
(* The worker thread grounds the problem, registers a terminator for its   *)
(* solver, starts a thread that watches the solver's own limits (MXTIMEOUT *)
(* and MXMEMORYOUT), solves, stops and joins that thread, and makes the    *)
(* result from what it finds in the shared flags.  A signal handler (user) *)
(* or the watch over the whole procedure (TIMEOUT, MEMORYOUT) may request  *)
(* termination at any time: GlobalData::notifyTerminateRequested and       *)
(* notifyOutOfResources first raise the flag and then tell the registered  *)
(* terminators.                                                            *)
(***************************************************************************)
EXTENDS Integers

CONSTANTS
  MaxModels,     \* a bound on the number of models the search would visit
  MaxCalls,      \* how many expansions the procedure makes
  MaxRequests    \* how often termination is requested

ASSUME BoundsAssumption == {MaxModels, MaxCalls, MaxRequests} \subseteq Nat

VARIABLES
  \* the worker
  pc,
  calls,           \* expansions begun so far
  models,          \* how many models the search visits before it is complete
  found,           \* size of mx->getSolutions()
  complete,        \* has the search ended by itself?
  result,          \* the MXResult, and whether there were no solutions
  \* the solver and GlobalData
  terminate,       \* Task::terminate with PCSolver::terminate
  registered,      \* is the terminator in _monitors?
  shouldTerminate,
  \* the thread of the basicResourceMonitor t
  watch,
  stopmonitoring,
  wentOut,         \* _wentOut
  \* whoever requests termination
  handler,
  requests,        \* requests made so far
  asked            \* was one made since the call began, or before and under way then?

requestVars == <<handler, requests, asked>>
sharedVars  == <<terminate, registered, shouldTerminate>>
watchVars   == <<watch, stopmonitoring, wentOut>>
searchVars  == <<found, complete>>
workerVars  == <<pc, calls, models, searchVars, result>>
vars == <<workerVars, sharedVars, watchVars, requestVars>>

Results == [unsat : BOOLEAN, interrupted : BOOLEAN, optimumfound : BOOLEAN]

NoResult == [unsat |-> FALSE, interrupted |-> FALSE, optimumfound |-> FALSE]

(* "stopped" and "failed": expand ended in an exception, of its own or of   *)
(* the solver; "crashed": in undefined behaviour.                           *)
Labels == {"idle", "ground", "grounded", "solve", "solved", "join", "joinFailed",
           "result", "returned", "stopped", "failed", "crashed"}

TypeOK ==
  /\ pc \in Labels
  /\ calls \in 0 .. MaxCalls
  /\ models \in 0 .. MaxModels /\ found \in 0 .. models
  /\ complete \in BOOLEAN /\ terminate \in BOOLEAN /\ registered \in BOOLEAN
  /\ shouldTerminate \in BOOLEAN /\ stopmonitoring \in BOOLEAN /\ wentOut \in BOOLEAN
  /\ result \in Results
  /\ watch \in {"none", "head", "sleep", "fire", "ended"}
  /\ handler \in {"idle", "notify"}
  /\ requests \in 0 .. MaxRequests
  /\ asked \in {"no", "during", "before"}

Init ==
  /\ pc = "idle" /\ calls = 0
  /\ models = 0 /\ found = 0 /\ complete = FALSE /\ result = NoResult
  /\ terminate = FALSE /\ registered = FALSE /\ shouldTerminate = FALSE
  /\ watch = "none" /\ stopmonitoring = FALSE /\ wentOut = FALSE
  /\ handler = "idle" /\ requests = 0 /\ asked = "no"

-----------------------------------------------------------------------------
(* The worker. *)

(* Mutant: the solver keeps the solutions of the call before. *)
NewSearch_reuses == UNCHANGED found /\ complete' = FALSE /\ result' = NoResult

NewSearch == found' = 0 /\ complete' = FALSE /\ result' = NoResult

(* The procedure calls model expansion or minimisation.  The flags of the  *)
(* last call's solver and watch go with them.                              *)
Call ==
  /\ pc \in {"idle", "returned"}
  /\ calls < MaxCalls
  /\ pc' = "ground" /\ calls' = calls + 1
  /\ models' \in 0 .. MaxModels
  /\ NewSearch
  /\ terminate' = FALSE
  /\ watch' = "none" /\ stopmonitoring' = FALSE /\ wentOut' = FALSE
  /\ asked' = IF shouldTerminate \/ handler = "notify" THEN "before" ELSE "no"
  /\ UNCHANGED <<registered, shouldTerminate, handler, requests>>

Goto(from, to) == pc = from /\ pc' = to /\ UNCHANGED <<calls, models, requestVars>>

(* The last CHECKTERMINATION of grounding. *)
LastCheck ==
  /\ Goto("ground", IF shouldTerminate THEN "stopped" ELSE "grounded")
  /\ UNCHANGED <<searchVars, result, sharedVars, watchVars>>

(* Register the terminator and start the watch.  If the handler is walking *)
(* over _monitors, the worker moves them under it.                         *)
StartSolver ==
  /\ \/ Goto("grounded", "solve")
     \/ handler = "notify" /\ Goto("grounded", "crashed")
  /\ registered' = TRUE
  /\ watch' = "head"
  /\ UNCHANGED <<searchVars, result, terminate, shouldTerminate, stopmonitoring, wentOut>>

(* The solver visits one more model. *)
FindModel ==
  /\ Goto("solve", "solve")
  /\ ~terminate /\ found < models
  /\ found' = found + 1
  /\ UNCHANGED <<complete, result, sharedVars, watchVars>>

(* There are no more to visit: no model, no better one, or enough of them. *)
SearchEnds ==
  /\ Goto("solve", "solved")
  /\ ~terminate /\ found = models
  /\ complete' = TRUE
  /\ UNCHANGED <<found, result, sharedVars, watchVars>>

(* solve returned l_Undef, or terminate was seen on its return. *)
SearchAborts ==
  /\ Goto("solve", "solved")
  /\ terminate
  /\ UNCHANGED <<searchVars, result, sharedVars, watchVars>>

(* The solver throws UnsatException: what follows in the try block is skipped. *)
UnsatThrown ==
  /\ Goto("solve", "join")
  /\ models = 0
  /\ complete' = TRUE
  /\ result' = [result EXCEPT !.unsat = TRUE]
  /\ stopmonitoring' = TRUE
  /\ UNCHANGED <<found, sharedVars, watch, wentOut>>

(* It throws another exception. *)
SearchFails ==
  /\ Goto("solve", "joinFailed")
  /\ stopmonitoring' = TRUE
  /\ UNCHANGED <<searchVars, result, sharedVars, watch, wentOut>>

(* The clean-up is skipped for exceptions that are not MinisatID's. *)
Fail ==
  /\ watch = "ended"
  /\ Goto("joinFailed", "failed")
  /\ registered' \in BOOLEAN
  /\ UNCHANGED <<searchVars, result, terminate, shouldTerminate, watchVars>>

(* Within the try block: count the solutions, and take a request back. *)
TakeRequest ==
  /\ Goto("solved", "join")
  /\ result' = [result EXCEPT !.unsat = (found = 0), !.interrupted = shouldTerminate]
  /\ shouldTerminate' = FALSE
  /\ stopmonitoring' = TRUE
  /\ UNCHANGED <<searchVars, terminate, registered, watch, wentOut>>

(* time.join() returns. *)
Joined == watch = "ended"

(* A request that came after the first was taken back ends the call: throw, *)
(* and leave everything, the terminator included, where it is.              *)
LateRequest ==
  /\ Joined
  /\ Goto("join", IF shouldTerminate THEN "stopped" ELSE "result")
  /\ UNCHANGED <<searchVars, result, sharedVars, watchVars>>

(* Mutant: only requests count as interruptions. *)
FinalResult_ignoresWatch == [result EXCEPT !.optimumfound = ~result.interrupted]

(* Mutant: the models of an interrupted search do not count. *)
FinalResult_drops ==
  IF result.unsat /\ ~wentOut
    THEN [NoResult EXCEPT !.unsat = TRUE]
    ELSE [unsat |-> ~complete, interrupted |-> result.interrupted \/ wentOut,
          optimumfound |-> ~result.interrupted /\ ~wentOut]

(* Without a model the solver's own limits count as an interruption; the   *)
(* result of any other interruption is a new one that says unsat only.     *)
FinalResult ==
  IF result.unsat /\ ~wentOut
    THEN [NoResult EXCEPT !.unsat = TRUE]
    ELSE [result EXCEPT !.optimumfound = ~result.interrupted /\ ~wentOut,
                        !.interrupted = result.interrupted \/ wentOut]

(* Mutant: the flag is cleared whoever raised it. *)
FlagAfter_lowered == FALSE

(* The flag is cleared only if the solver's own limits struck. *)
FlagAfter == shouldTerminate /\ ~wentOut

(* Make the result and clean up.  The terminator is deleted: a handler that *)
(* has just read it from _monitors calls into freed memory.                 *)
Return ==
  /\ \/ Goto("result", "returned")
     \/ handler = "notify" /\ Goto("result", "crashed")
  /\ result' = FinalResult
  /\ shouldTerminate' = FlagAfter
  /\ registered' = FALSE
  /\ UNCHANGED <<searchVars, terminate, watchVars>>

-----------------------------------------------------------------------------
(* The watch: resourceMonitorLoop. *)

(* It looks at stopmonitoring before it sleeps, not after. *)
WatchLoops ==
  /\ \/ watch = "head" /\ watch' = IF stopmonitoring THEN "ended" ELSE "sleep"
     \/ watch = "sleep" /\ watch' = "head"
  /\ UNCHANGED <<workerVars, sharedVars, stopmonitoring, wentOut, requestVars>>

(* A limit is exceeded. *)
GoOut ==
  /\ watch = "sleep"
  /\ watch' = "fire" /\ wentOut' = TRUE
  /\ UNCHANGED <<workerVars, sharedVars, stopmonitoring, requestVars>>

(* Mutant: the solver is not told. *)
call_on_timeout_nobody == UNCHANGED sharedVars

(* Tell the solver, and the solver only. *)
call_on_timeout == terminate' = TRUE /\ UNCHANGED <<registered, shouldTerminate>>

Fire ==
  /\ watch = "fire"
  /\ watch' = "ended"
  /\ call_on_timeout
  /\ UNCHANGED <<workerVars, stopmonitoring, wentOut, requestVars>>

-----------------------------------------------------------------------------
(* Requests from outside. *)

Request ==
  /\ handler = "idle"
  /\ requests < MaxRequests
  /\ handler' = "notify" /\ requests' = requests + 1
  /\ asked' = IF asked = "no" THEN "during" ELSE asked
  /\ shouldTerminate' = TRUE
  /\ UNCHANGED <<workerVars, terminate, registered, watchVars>>

(* Terminators left behind by calls that threw have no solver to stop. *)
Notify ==
  /\ handler = "notify"
  /\ handler' = "idle"
  /\ terminate' = (terminate \/ registered)
  /\ UNCHANGED <<workerVars, registered, shouldTerminate, watchVars, requests, asked>>

-----------------------------------------------------------------------------

Alive == pc # "crashed"

(* The worker, but for the search, which may take any time. *)
Worker ==
  \/ LastCheck
  \/ StartSolver
  \/ SearchAborts
  \/ Fail
  \/ TakeRequest
  \/ LateRequest
  \/ Return

Search == FindModel \/ SearchEnds \/ UnsatThrown \/ SearchFails

Watch == WatchLoops \/ Fire

Next == Alive /\ (Call \/ Worker \/ Search \/ Watch \/ GoOut \/ Request \/ Notify)

Spec == Init /\ [][Next]_vars

(***************************************************************************)
(* Every thread keeps running, and time does: a watch that is not stopped  *)
(* exceeds its limit in the end.  Nothing says that the search ends.       *)
(***************************************************************************)
FairSpec ==
  /\ Spec
  /\ WF_vars(Alive /\ Worker)
  /\ WF_vars(Alive /\ Watch)
  /\ WF_vars(Alive /\ Notify)
  /\ SF_vars(Alive /\ GoOut)

-----------------------------------------------------------------------------

(***************************************************************************)
(* Properties.                                                             *)
(***************************************************************************)

(* Nobody asked from outside: then a result that says unsat and does not   *)
(* say interrupted is of a problem without models, whenever the solver's   *)
(* own limits struck.                                                      *)
UnsatIsJustified ==
  pc = "returned" /\ result.unsat /\ ~result.interrupted /\ asked = "no" => models = 0

(* _optimumfound is set only after a search that was complete, also if a   *)
(* limit or a request of this call met the end of the search.              *)
OptimumIsOptimal ==
  pc = "returned" /\ result.optimumfound /\ asked # "before" => complete

(* The models found before MXTIMEOUT are returned: without a request from  *)
(* outside the call does not end in an exception, and with a model found   *)
(* no result says unsat.                                                   *)
ModelsAreReturned ==
  /\ pc = "stopped" => asked # "no"
  /\ pc = "returned" /\ found > 0 => ~result.unsat

(* A request is not swallowed, wherever it meets the call: if the call     *)
(* returns a model all the same, the result says interrupted or the flag   *)
(* is still up to stop the next one.                                       *)
RequestLeavesItsMark ==
  pc = "returned" /\ asked = "during" /\ found > 0 => result.interrupted \/ shouldTerminate

(* Every call ends though the search may not: its limits see to that. *)
EveryCallEnds == []<>(pc \in {"idle", "returned", "stopped", "failed", "crashed"})
=============================================================================
