-------------------------------- MODULE Executor --------------------------------
(***************************************************************************)
(* The executor (actor/executor.go), the blob API (blobs/blobapi.go) and   *)
(* the functions they serve.  Every invocation is a goroutine: it calls    *)
(* the functions platform and answers the graph actor.  Functions use the  *)
(* blob API while they run: the runtime of a stage stores the stage's      *)
(* result before it responds, and a function may read a blob while it      *)
(* still streams its response.                                             *)
(*                                                                         *)
(* A content is its author: Arg, or the invocation whose function wrote it.*)
(***************************************************************************)
EXTENDS BlobStore, Sequences, FiniteSets

CONSTANTS
    Bodies,          \* the blobs that requests name: 0 is there, others are not, or None
    MaxInvocations   \* bound on the invocations

VARIABLES
    invocations,    \* every request to the executor so far
    activeFnCalls   \* the gauge

vars == << storeVars, invocations, activeFnCalls >>

Status == {200, 302, 400, 500, 504}

successfulResponse(status) == status >= 200 /\ status < 400

(***************************************************************************)
(* An invocation is "received", then with the platform ("calling"), then,  *)
(* for a function, has headers ("responded") and its body is read into the *)
(* store ("storing"), and is "answered".  upload is what the function of a *)
(* stage does at the blob API; id the identifier being created; got the    *)
(* content that was sent as body; streams says that the function reads     *)
(* blob 0 before the end of its response, seen what it read.               *)
(***************************************************************************)
Received(kind, body, streams) ==
    [kind |-> kind, body |-> body, streams |-> streams, at |-> "received", status |-> 0,
     upload |-> "none", id |-> None, got |-> None, seen |-> None, result |-> None]

Result(successful, datum, blob) == [successful |-> successful, datum |-> datum, blob |-> blob]

Failed(type) == Result(FALSE, type, None)

Init ==
    /\ StoreInit
    /\ invocations = <<>> /\ activeFnCalls = 0

Set(i, inv) == invocations' = [invocations EXCEPT ![i] = inv]

\* Receive: a goroutine for every request.
Receive(kind, body, streams) ==
    /\ Len(invocations) < MaxInvocations
    /\ kind = "stage" => body = None /\ ~ streams
    /\ invocations' = Append(invocations, Received(kind, body, streams))
    /\ UNCHANGED << storeVars, activeFnCalls >>

At(i, kind, at) == invocations[i].kind = kind /\ invocations[i].at = at

\* The handler returns r, and the graph actor is told; what was deferred runs.
Answer(i, r, calling) ==
    /\ Set(i, [invocations[i] EXCEPT !.at = "answered", !.result = r])
    /\ activeFnCalls' = activeFnCalls - (IF calling THEN 1 ELSE 0)

\* client.Do is called.
Call(i, got) ==
    /\ Set(i, [invocations[i] EXCEPT !.at = "calling", !.got = got])
    /\ activeFnCalls' = activeFnCalls + 1

-----------------------------------------------------------------------------
(***************************************************************************)
(* HandleInvokeStage.                                                      *)
(***************************************************************************)
InvokeStage(i) ==
    /\ At(i, "stage", "received")
    /\ Call(i, None)
    /\ UNCHANGED storeVars

\* What a response is made of: a result with the blob the function stored, as
\* its value or as the error it threw, one without a blob, none, or something
\* that is not a response.
Contents == {"blob", "thrown", "empty", "no_result", "undecodable"}

\* The result that the runtime of the function put in its response.
RuntimeResult(i, content) ==
    Result(content # "thrown", IF content = "empty" THEN "empty" ELSE "blob",
           IF content \in {"blob", "thrown"} THEN invocations[i].id ELSE None)

StageResult_Unchecked(i, status, content) ==
    IF ~ successfulResponse(status)
      THEN Failed(IF status = 504 THEN "stage_timeout" ELSE "stage_failed")
    ELSE IF content = "undecodable" THEN Failed("invalid_stage_response")
    ELSE IF content = "no_result" THEN Result(TRUE, "no_result", None)
    ELSE RuntimeResult(i, content)

StageResult(i, status, content) ==
    IF ~ successfulResponse(status)
      THEN Failed(IF status = 504 THEN "stage_timeout" ELSE "stage_failed")
    ELSE IF content \in {"no_result", "undecodable"} THEN Failed("invalid_stage_response")
    ELSE RuntimeResult(i, content)

StageResponds(i, status, content) ==
    /\ At(i, "stage", "calling")
    /\ content \in {"blob", "thrown"} => invocations[i].upload = "stored"
    /\ Answer(i, StageResult(i, status, content), TRUE)
    /\ UNCHANGED storeVars

StageCallFails(i) ==
    /\ At(i, "stage", "calling")
    /\ Answer(i, Failed("stage_failed"), TRUE)
    /\ UNCHANGED storeVars

-----------------------------------------------------------------------------
(***************************************************************************)
(* HandleInvokeFunction.                                                   *)
(***************************************************************************)
ReadArgument_Lenient(i) ==
    /\ At(i, "function", "received")
    /\ invocations[i].body # None => CanLock
    /\ Call(i, Read(invocations[i].body))
    /\ UNCHANGED storeVars

\* The body of the request is read from the store; a missing blob is a
\* failure, and the function is not called.
ReadArgument(i) ==
    LET body == invocations[i].body
    IN /\ At(i, "function", "received")
       /\ body # None => CanLock
       /\ IF body # None /\ Read(body) = None
            THEN Answer(i, Failed("function_invoke_failed"), FALSE)
            ELSE Call(i, Read(body))
       /\ UNCHANGED storeVars

FunctionResponds(i, status) ==
    /\ At(i, "function", "calling")
    /\ Set(i, [invocations[i] EXCEPT !.at = "responded", !.status = status])
    /\ UNCHANGED << storeVars, activeFnCalls >>

FunctionCallFails_Leaks(i) ==
    /\ At(i, "function", "calling")
    /\ Answer(i, Failed("function_invoke_failed"), FALSE)
    /\ UNCHANGED storeVars

\* No response: the connection, or client.Timeout.
FunctionCallFails(i) ==
    /\ At(i, "function", "calling")
    /\ Answer(i, Failed("function_invoke_failed"), TRUE)
    /\ UNCHANGED storeVars

StoreResponse(i) ==
    /\ At(i, "function", "responded")
    /\ CreateBegins(i)
    /\ Set(i, [invocations[i] EXCEPT !.at = "storing", !.id = count])
    /\ UNCHANGED activeFnCalls

\* The body has ended, which is up to the function.
BodyEnds(i) ==
    LET inv == invocations[i]
    IN /\ At(i, "function", "storing")
       /\ inv.streams => inv.seen # None
       /\ CreateEnds(inv.id, i)
       /\ Answer(i, Result(successfulResponse(inv.status), "http_resp", inv.id), TRUE)

BodyFails_NoTimeout(i) ==
    /\ At(i, "function", "storing") /\ provider = "sql"
    /\ CreateFails
    /\ Answer(i, Failed("function_invoke_failed"), TRUE)

\* The connection breaks or the insert fails, or the call takes longer than
\* client.Timeout, which covers the body: a function that cannot end its
\* response does not keep the store locked.
BodyFails(i) ==
    /\ At(i, "function", "storing")
    /\ CreateFails
    /\ Answer(i, Failed("function_invoke_failed"), TRUE)

-----------------------------------------------------------------------------
(***************************************************************************)
(* The blob API, used by the functions that run.                           *)
(***************************************************************************)

\* createBlob: the runtime of a stage stores the stage's result, though the
\* executor may have stopped waiting for it.
CreateBlob(i) ==
    /\ invocations[i].kind = "stage" /\ invocations[i].at # "received"
    /\ invocations[i].upload = "none"
    /\ CreateBegins(i)
    /\ Set(i, [invocations[i] EXCEPT !.upload = "writing", !.id = count])
    /\ UNCHANGED activeFnCalls

UploadEnds(i) ==
    /\ invocations[i].upload = "writing"
    /\ CreateEnds(invocations[i].id, i)
    /\ Set(i, [invocations[i] EXCEPT !.upload = "stored"])
    /\ UNCHANGED activeFnCalls

\* The connection breaks, or the server's ReadTimeout ends it.
UploadFails(i) ==
    /\ invocations[i].upload = "writing"
    /\ CreateFails
    /\ Set(i, [invocations[i] EXCEPT !.upload = "failed"])
    /\ UNCHANGED activeFnCalls

\* getBlob: a function reads blob 0 while its response is open.
GetBlob(i) ==
    /\ invocations[i].kind = "function" /\ invocations[i].at \in {"calling", "responded", "storing"}
    /\ invocations[i].streams /\ invocations[i].seen = None
    /\ CanLock
    /\ Set(i, [invocations[i] EXCEPT !.seen = Read(0)])
    /\ UNCHANGED << storeVars, activeFnCalls >>

-----------------------------------------------------------------------------
ExecutorStep(i) ==
    \/ InvokeStage(i) \/ StageCallFails(i)
    \/ ReadArgument(i) \/ FunctionCallFails(i) \/ StoreResponse(i) \/ BodyFails(i)
    \/ UploadFails(i)

FunctionStep(i) ==
    \/ \E status \in Status, content \in Contents : StageResponds(i, status, content)
    \/ \E status \in Status : FunctionResponds(i, status)
    \/ BodyEnds(i) \/ CreateBlob(i) \/ UploadEnds(i) \/ GetBlob(i)

Next ==
    \/ \E kind \in {"stage", "function"}, body \in Bodies, streams \in BOOLEAN :
         Receive(kind, body, streams)
    \/ \E i \in DOMAIN invocations : ExecutorStep(i) \/ FunctionStep(i)

Spec == Init /\ [][Next]_vars

\* The goroutines run and their timeouts fire; nothing is asked of the
\* functions, which may hang.
FairSpec == Spec /\ WF_vars(\E i \in DOMAIN invocations : ExecutorStep(i))

-----------------------------------------------------------------------------
(***************************************************************************)
(* Properties.                                                             *)
(***************************************************************************)
\* Identifiers, contents and answers are in their ranges; the answers are the
\* ones the graph actor of module GraphActor is ready for.
TypeOK ==
    /\ provider \in Providers
    /\ DOMAIN blobs \subseteq 0..MaxInvocations
    /\ \A b \in DOMAIN blobs : blobs[b] = Arg \/ blobs[b] \in 1..MaxInvocations
    /\ count \in 1..(MaxInvocations + 1)
    /\ mu = None \/ mu \in DOMAIN invocations
    /\ activeFnCalls \in 0..MaxInvocations
    /\ \A i \in DOMAIN invocations :
         /\ invocations[i].at \in {"received", "calling", "responded", "storing", "answered"}
         /\ invocations[i].at = "answered" =>
              /\ invocations[i].result.datum \in
                   {"blob", "empty", "http_resp", "stage_timeout", "stage_failed",
                    "invalid_stage_response", "function_invoke_failed"}
              /\ invocations[i].result.successful =>
                   invocations[i].result.datum \in {"blob", "empty", "http_resp"}

Called(i) == invocations[i].at \notin {"received", "answered"}

\* An answer that names a blob names one that can be read, now and later, and
\* that holds what this invocation's function produced: no two creations,
\* however they overlap and fail, share an identifier.
OwnOutput ==
    \A i \in DOMAIN invocations : invocations[i].at = "answered" =>
        LET b == invocations[i].result.blob
        IN b # None => b \in DOMAIN blobs /\ blobs[b] = i

\* A function that was called with a body was sent the whole content of the
\* blob that the request names: never nothing, never the part of it that had
\* been written, never what another creation put there later.
ArgumentDelivered ==
    \A i \in DOMAIN invocations :
        LET inv == invocations[i]
        IN (inv.body # None /\ (Called(i) \/ (inv.at = "answered" /\ inv.result.successful))) =>
              inv.body \in DOMAIN blobs /\ inv.got = blobs[inv.body]

\* The gauge of active function calls counts the calls that are open, whatever
\* way each of the others ended.
GaugeCountsCalls == activeFnCalls = Cardinality({i \in DOMAIN invocations : Called(i)})

\* Every invocation is answered, though functions hang, or wait for a blob
\* that the store will not read because it is storing their own response:
\* the graph actor never waits for an answer that is not to come.
EveryInvocationAnswered ==
    []<>(\A i \in DOMAIN invocations : invocations[i].at = "answered")

=============================================================================
