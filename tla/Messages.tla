------------------------------- MODULE Messages -------------------------------
(***************************************************************************)
(* The requests and answers of the flow service (model/model.pb.go), what  *)
(* the validators require of them (model/model.validator.pb.go), and the   *)
(* error codes (model/errors.go).                                          *)
(*                                                                         *)
(* A string field is empty or not; an identifier is empty, one that names  *)
(* something, or one that does not; a message field may be absent (Nil).   *)
(* Fields that nothing here depends on (code locations, callers, methods,  *)
(* error texts) are left out.                                              *)
(***************************************************************************)
EXTENDS Integers, Sequences

CONSTANTS
    Nil,         \* an absent message field
    FlowNames,   \* values of a flow_id field, "" among them
    StageNames,  \* values of a stage_id field, "" among them
    OpNames      \* values of an operation field

Text == {"", "x"}

\* Values of a function_id field.
FunctionNames == {"", "fn", "malformed"}

Optional(T) == T \union {Nil}

\* Lists of at most one element.
List(T) == {<<>>} \union {<< x >> : x \in T}

-----------------------------------------------------------------------------
(***************************************************************************)
(* Data: the value of a datum is one of seven kinds, or not set.           *)
(***************************************************************************)

BlobDatum == [blob_id : Text, content_type : Text, length : {0, 1}]

HTTPHeader == [key : Text, value : Text]

HTTPReqDatum == [body : Optional(BlobDatum), headers : List(HTTPHeader)]

HTTPRespDatum ==
    [body : Optional(BlobDatum), headers : List(HTTPHeader), status_code : {0, 200}]

EmptyDatum == [val : {"empty"}]

StageRefDatum == [val : {"stage_ref"}, stage_id : StageNames]

ErrorDatum == [val : {"error"}]

StatusDatum == [val : {"status"}]

Datum ==
    EmptyDatum \union StageRefDatum \union ErrorDatum \union StatusDatum
        \union [val : {"blob"}, blob : BlobDatum]
        \union [val : {"http_req"}, http_req : HTTPReqDatum]
        \union [val : {"http_resp"}, http_resp : HTTPRespDatum]
        \union [val : {"unset"}]

CompletionResult == [successful : BOOLEAN, datum : Optional(Datum)]

-----------------------------------------------------------------------------
(***************************************************************************)
(* Requests and answers.                                                   *)
(***************************************************************************)

CreateGraphRequest == [type : {"CreateGraph"}, flow_id : FlowNames, function_id : FunctionNames]

AddStageRequest ==
    [type : {"AddStage"}, flow_id : FlowNames, operation : OpNames,
     closure : Optional(BlobDatum), deps : List(StageNames)]

AddCompletedValueStageRequest ==
    [type : {"AddValueStage"}, flow_id : FlowNames, value : Optional(CompletionResult)]

AddDelayStageRequest ==
    [type : {"AddDelay"}, flow_id : FlowNames, delay_ms : {-1, 0, 1, 86400000 + 1}]

AddInvokeFunctionStageRequest ==
    [type : {"AddInvokeFunction"}, flow_id : FlowNames, function_id : FunctionNames,
     arg : Optional(HTTPReqDatum)]

CompleteStageExternallyRequest ==
    [type : {"CompleteStageExternally"}, flow_id : FlowNames, stage_id : StageNames,
     value : Optional(CompletionResult)]

AwaitStageResultRequest ==
    [type : {"AwaitStageResult"}, flow_id : FlowNames, stage_id : StageNames,
     timeout_ms : {-1, 0, 1}]

CommitGraphRequest == [type : {"Commit"}, flow_id : FlowNames]

GetGraphStateRequest == [type : {"GetGraphState"}, flow_id : FlowNames]

Request ==
    CreateGraphRequest \union AddStageRequest \union AddCompletedValueStageRequest
        \union AddDelayStageRequest \union AddInvokeFunctionStageRequest
        \union CompleteStageExternallyRequest \union AwaitStageResultRequest
        \union CommitGraphRequest \union GetGraphStateRequest

CreateGraphResponse(f) == [code |-> "OK", flow_id |-> f]

AddStageResponse(f, s) == [code |-> "OK", flow_id |-> f, stage_id |-> s]

CompleteStageExternallyResponse(f, s, successful) ==
    [code |-> "OK", flow_id |-> f, stage_id |-> s, successful |-> successful]

AwaitStageResultResponse(f, s, result) ==
    [code |-> "OK", flow_id |-> f, stage_id |-> s, result |-> result]

GraphRequestProcessedResponse(f) == [code |-> "OK", flow_id |-> f]

GetGraphStateResponse(f, stages) == [code |-> "OK", flow_id |-> f, stages |-> stages]

Error(code) == [code |-> code]

IsError(r) == r.code # "OK"

NewGraphAlreadyExistsError == Error("AlreadyExists")

NewGraphNotFoundError(f) == [code |-> "NotFound", flow_id |-> f]

NewGraphCompletedError == Error("FailedPrecondition")

NewInvalidDelayError == Error("InvalidArgument")

NewStageNotFoundError(f, s) == [code |-> "NotFound", flow_id |-> f, stage_id |-> s]

NewInvalidStageDependenciesError == Error("InvalidArgument")

NewInvalidDatumError == Error("InvalidArgument")

NewNeedsClosureError == Error("InvalidArgument")

NewShouldNotHaveClosureError == Error("InvalidArgument")

NewInvalidOperationError == Error("Unimplemented")

NewTooManyStagesError == Error("ResourceExhausted")

NewTooManyTerminationHooksError == Error("ResourceExhausted")

-----------------------------------------------------------------------------
(***************************************************************************)
(* Validators.                                                             *)
(***************************************************************************)

\* CallValidatorIfExists: an absent message is not validated.
IfExists(Valid(_), m) == m # Nil => Valid(m)

ValidBlobDatum(b) == b.blob_id # "" /\ b.content_type # "" /\ b.length > 0

ValidHTTPHeader(h) == h.key # "" /\ h.value # ""

ValidHTTPReqDatum(d) ==
    /\ IfExists(ValidBlobDatum, d.body)
    /\ \A i \in DOMAIN d.headers : ValidHTTPHeader(d.headers[i])

ValidHTTPRespDatum(d) ==
    /\ IfExists(ValidBlobDatum, d.body)
    /\ \A i \in DOMAIN d.headers : ValidHTTPHeader(d.headers[i])
    /\ d.status_code > 0

ValidStageRefDatum(d) == d.stage_id # ""

\* A datum whose value is not set is valid here.
ValidDatum(d) ==
    CASE d.val = "blob"      -> ValidBlobDatum(d.blob)
      [] d.val = "stage_ref" -> ValidStageRefDatum(d)
      [] d.val = "http_req"  -> ValidHTTPReqDatum(d.http_req)
      [] d.val = "http_resp" -> ValidHTTPRespDatum(d.http_resp)
      [] OTHER               -> TRUE

ValidCompletionResult_NoDatum(r) == IfExists(ValidDatum, r.datum)

ValidCompletionResult(r) == r.datum # Nil /\ ValidDatum(r.datum)

\* Letters, digits, "_", "." and "-", or nothing.
FunctionIdRegex(id) == id \in {"", "fn"}

ValidCreateGraphRequest(m) == FunctionIdRegex(m.function_id)

ValidAddStageRequest(m) == m.flow_id # "" /\ IfExists(ValidBlobDatum, m.closure)

ValidCompleteStageExternallyRequest(m) ==
    /\ m.flow_id # "" /\ m.stage_id # ""
    /\ m.value # Nil /\ ValidCompletionResult(m.value)

ValidAddCompletedValueStageRequest(m) ==
    m.flow_id # "" /\ m.value # Nil /\ ValidCompletionResult(m.value)

ValidAddDelayStageRequest(m) == m.flow_id # "" /\ m.delay_ms > -1

ValidAddInvokeFunctionStageRequest(m) ==
    /\ m.flow_id # "" /\ FunctionIdRegex(m.function_id)
    /\ m.arg # Nil /\ ValidHTTPReqDatum(m.arg)

ValidAwaitStageResultRequest(m) == m.flow_id # "" /\ m.stage_id # "" /\ m.timeout_ms > -1

ValidCommitGraphRequest(m) == m.flow_id # ""

ValidGetGraphStateRequest(m) == m.flow_id # ""

Validate(m) ==
    CASE m.type = "CreateGraph"             -> ValidCreateGraphRequest(m)
      [] m.type = "AddStage"                -> ValidAddStageRequest(m)
      [] m.type = "AddValueStage"           -> ValidAddCompletedValueStageRequest(m)
      [] m.type = "AddDelay"                -> ValidAddDelayStageRequest(m)
      [] m.type = "AddInvokeFunction"       -> ValidAddInvokeFunctionStageRequest(m)
      [] m.type = "CompleteStageExternally" -> ValidCompleteStageExternallyRequest(m)
      [] m.type = "AwaitStageResult"        -> ValidAwaitStageResultRequest(m)
      [] m.type = "Commit"                  -> ValidCommitGraphRequest(m)
      [] m.type = "GetGraphState"           -> ValidGetGraphStateRequest(m)

\* HasValidValue: one of the values of the oneof is set.
HasValidValue(d) == d.val # "unset"

=============================================================================
