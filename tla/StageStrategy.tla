---------------------------- MODULE StageStrategy ----------------------------
(***************************************************************************)
(* Completion results and the per-operation strategies of a stage          *)
(* (graph/stage_strategy.go): when a stage triggers, with which status and *)
(* inputs, what it does then, and how the answer of its invocation becomes *)
(* its result.  Everything here is a constant operator: the stateful parts *)
(* are in CompletionGraph and GraphActor.                                  *)
(***************************************************************************)
EXTENDS Integers, Sequences

(***************************************************************************)
(* Results.  A completion result is a success flag and a datum.  Payloads  *)
(* are abstracted to their kind; a stage reference also names its stage.   *)
(* NoResult is Go's nil: the stage is not resolved.                        *)
(***************************************************************************)
Datum == {"nil", "empty", "blob", "stage_ref", "status", "stage_lost",
          "stage_failed", "invalid_stage_response"}

Result == [successful : BOOLEAN, datum : Datum, ref : Nat]

NewSuccessfulResult(d) == [successful |-> TRUE, datum |-> d, ref |-> 0]

NewFailedResult(d) == [successful |-> FALSE, datum |-> d, ref |-> 0]

NewStageRefResult(s) == [successful |-> TRUE, datum |-> "stage_ref", ref |-> s]

NoResult == NewFailedResult("nil")

IsResolved(r) == r # NoResult

IsSuccessful(r) == IsResolved(r) /\ r.successful

IsFailed(r) == IsResolved(r) /\ ~ r.successful

-----------------------------------------------------------------------------
(***************************************************************************)
(* Trigger strategies.  Each looks at the results of the dependencies, in  *)
(* the order the stage lists them (NoResult while one is unresolved), and  *)
(* says whether the stage triggers, with which status and which inputs.    *)
(***************************************************************************)
Triggered(status, inputs) ==
    [satisfied |-> TRUE, status |-> status, inputs |-> inputs]

NotTriggered == [satisfied |-> FALSE, status |-> FALSE, inputs |-> <<>>]

AllResolved(rs) == \A i \in DOMAIN rs : IsResolved(rs[i])

Failures(rs) == {i \in DOMAIN rs : IsFailed(rs[i])}

Successes(rs) == {i \in DOMAIN rs : IsSuccessful(rs[i])}

First(I) == CHOOSE i \in I : \A j \in I : i <= j

Last(I) == CHOOSE i \in I : \A j \in I : j <= i

waitForAll(rs) ==
    IF AllResolved(rs)
      THEN IF Failures(rs) # {} THEN Triggered(FALSE, << rs[First(Failures(rs))] >>)
                                ELSE Triggered(TRUE, rs)
      ELSE NotTriggered

triggerAny_Eager(rs) ==
    IF Successes(rs) # {} THEN Triggered(TRUE, << rs[First(Successes(rs))] >>)
    ELSE IF Failures(rs) # {} THEN Triggered(FALSE, << rs[Last(Failures(rs))] >>)
    ELSE NotTriggered

\* The loop overwrites firstFailure on every failed dependency, so the error
\* passed on is the one of the last dependency.
triggerAny(rs) ==
    IF Successes(rs) # {} THEN Triggered(TRUE, << rs[First(Successes(rs))] >>)
    ELSE IF rs # <<>> /\ AllResolved(rs) THEN Triggered(FALSE, << rs[Last(Failures(rs))] >>)
    ELSE NotTriggered

-----------------------------------------------------------------------------
(***************************************************************************)
(* The strategy table.  max is MaxDependencies, -1 for unlimited.          *)
(***************************************************************************)
Operation == {"acceptEither", "applyToEither", "thenAcceptBoth", "thenCombine",
              "thenApply", "thenAccept", "thenRun", "thenCompose", "whenComplete",
              "handle", "supply", "invokeFunction", "completedValue", "delay",
              "externalCompletion", "allOf", "anyOf", "exceptionally",
              "exceptionallyCompose", "terminationHook"}

Strategy(closure, max, min, trigger, success, failure, result) ==
    [takesClosure |-> closure, max |-> max, min |-> min, trigger |-> trigger,
     success |-> success, failure |-> failure, result |-> result]

getStrategyFromOperation(op) ==
    CASE op \in {"acceptEither", "applyToEither"} ->
           Strategy(TRUE, 2, 2, "any", "invokeWithResult", "propagateResult", "invocationResult")
      [] op \in {"thenAcceptBoth", "thenCombine"} ->
           Strategy(TRUE, 2, 2, "all", "invokeWithResult", "propagateResult", "invocationResult")
      [] op \in {"thenApply", "thenAccept"} ->
           Strategy(TRUE, 1, 1, "any", "invokeWithResult", "propagateResult", "invocationResult")
      [] op = "thenRun" ->
           Strategy(TRUE, 1, 1, "any", "invokeWithoutArgs", "propagateResult", "invocationResult")
      [] op = "thenCompose" ->
           Strategy(TRUE, 1, 1, "any", "invokeWithResult", "propagateResult", "referencedStageResult")
      [] op = "whenComplete" ->
           Strategy(TRUE, 1, 1, "any", "invokeWithResultOrError", "invokeWithResultOrError", "parentStageResult")
      [] op = "handle" ->
           Strategy(TRUE, 1, 1, "any", "invokeWithResultOrError", "invokeWithResultOrError", "invocationResult")
      [] op = "supply" ->
           Strategy(TRUE, 0, 0, "all", "invokeWithoutArgs", "propagateResult", "invocationResult")
      [] op = "invokeFunction" ->
           Strategy(FALSE, 0, 0, "all", "completeExternally", "completeExternally", "invocationResult")
      [] op = "completedValue" ->
           Strategy(FALSE, 0, 0, "never", "completeExternally", "propagateResult", "noResultStrategy")
      [] op \in {"delay", "externalCompletion"} ->
           Strategy(FALSE, 0, 0, "never", "completeExternally", "completeExternally", "noResultStrategy")
      [] op = "allOf" ->
           Strategy(FALSE, -1, 0, "all", "succeedWithEmpty", "propagateResult", "noResultStrategy")
      [] op = "anyOf" ->
           Strategy(FALSE, -1, 1, "any", "propagateResult", "propagateResult", "noResultStrategy")
      [] op = "exceptionally" ->
           Strategy(TRUE, 1, 1, "any", "propagateResult", "invokeWithResult", "invocationResult")
      [] op = "exceptionallyCompose" ->
           Strategy(TRUE, 1, 1, "any", "propagateResult", "invokeWithResult", "referencedStageResult")
      [] OTHER ->
           Strategy(TRUE, 0, 0, "all", "invokeWithResult", "invokeWithResult", "parentStageResult")

\* The trigger decision of an operation for given dependency results.
TriggerStrategy(op, rs) ==
    CASE getStrategyFromOperation(op).trigger = "all" -> waitForAll(rs)
      [] getStrategyFromOperation(op).trigger = "any" -> triggerAny(rs)
      [] OTHER -> NotTriggered

\* What a triggered stage does: one of the execution strategies.
ExecutionStrategy(op, status) ==
    IF status THEN getStrategyFromOperation(op).success
              ELSE getStrategyFromOperation(op).failure

\* The arguments an invoking strategy passes to the closure.
InvocationArgs(strategy, inputs) ==
    CASE strategy = "invokeWithoutArgs" -> <<>>
      [] strategy = "invokeWithResultOrError" ->
           IF inputs[1].successful THEN << inputs[1], NewSuccessfulResult("empty") >>
                                   ELSE << NewSuccessfulResult("empty"), inputs[1] >>
      [] OTHER -> inputs
=============================================================================
