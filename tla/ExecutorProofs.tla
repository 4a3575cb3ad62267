----------------------------- MODULE ExecutorProofs -----------------------------
(***************************************************************************)
(* Blobs and invocations, for any number of invocations and both stores:   *)
(* an answer that names a blob names this invocation's output, and a       *)
(* function that is called gets the whole body it was to be sent.          *)
(*                                                                         *)
(* The invariants rest on how identifiers are handed out: each creation    *)
(* that began has its own (OwnIds), none is in the store before its        *)
(* creation ends (Pending), and what is stored stays (Stored).             *)
(***************************************************************************)
EXTENDS Executor, TLAPS

Invocation ==
    [kind : {"stage", "function"}, body : Bodies, streams : BOOLEAN,
     at : {"received", "calling", "responded", "storing", "answered"},
     status : Nat, upload : {"none", "writing", "stored", "failed"},
     id : Nat \union {None}, got : Nat \union {Arg, None}, seen : Nat \union {Arg, None},
     result : [successful : BOOLEAN,
               datum : {"blob", "empty", "http_resp", "stage_timeout", "stage_failed",
                        "invalid_stage_response", "function_invoke_failed"},
               blob : Nat \union {None}] \union {None}]

\* The types, for any number of invocations.
Typed ==
    /\ invocations \in Seq(Invocation)
    /\ count \in Nat
    /\ blobs \in [DOMAIN blobs -> Nat \union {Arg}]
    /\ \A b \in DOMAIN blobs : b \in Nat /\ b < count

\* A creation that began has an identifier that is no one else's.
OwnIds ==
    /\ \A i \in DOMAIN invocations :
         invocations[i].id # None => invocations[i].id \in Nat /\ invocations[i].id < count
    /\ \A i, j \in DOMAIN invocations :
         (i # j /\ invocations[i].id # None) => invocations[i].id # invocations[j].id

(***************************************************************************)
(* What holds of every invocation: a creation that has not ended is not    *)
(* visible; one that ended left its content under its identifier; an       *)
(* answer names its own creation; a call was sent its argument; and the    *)
(* stages of an invocation are in order.                                   *)
(***************************************************************************)
Pending(inv) ==
    (inv.at = "storing" \/ inv.upload = "writing") => inv.id # None /\ inv.id \notin DOMAIN blobs

Stored(i, inv) ==
    /\ inv.upload = "stored" => inv.id \in DOMAIN blobs /\ blobs[inv.id] = i
    /\ (inv.at = "answered" /\ inv.result.blob # None) =>
         inv.result.blob \in DOMAIN blobs /\ blobs[inv.result.blob] = i

Delivered(inv) ==
    (inv.body # None /\ (inv.at \notin {"received", "answered"}
                           \/ (inv.at = "answered" /\ inv.result.successful))) =>
        inv.body \in DOMAIN blobs /\ inv.got = blobs[inv.body]

Ordered(inv) ==
    /\ inv.kind = "stage" => inv.body = None /\ inv.at \notin {"responded", "storing"}
    /\ inv.kind = "function" => inv.upload = "none"
    /\ (inv.kind = "function" /\ inv.at \in {"received", "calling", "responded"}) => inv.id = None
    /\ (inv.kind = "stage" /\ inv.upload = "none") => inv.id = None

Fits(i, inv) == Pending(inv) /\ Stored(i, inv) /\ Delivered(inv) /\ Ordered(inv)

Inv == Typed /\ OwnIds /\ \A i \in DOMAIN invocations : Fits(i, invocations[i])

-----------------------------------------------------------------------------
\* What a step that replaces one invocation leaves as it was.
LEMMA SetKeeps ==
    ASSUME Typed, NEW i \in DOMAIN invocations, NEW new \in Invocation, Set(i, new)
    PROVE  /\ invocations' \in Seq(Invocation)
           /\ DOMAIN invocations' = DOMAIN invocations
           /\ invocations'[i] = new
           /\ \A j \in DOMAIN invocations : j # i => invocations'[j] = invocations[j]
BY DEF Typed, Set

\* Invocations are records of the fields above.
LEMMA InvocationTyped ==
    ASSUME Typed, NEW i \in DOMAIN invocations
    PROVE  invocations[i] \in Invocation
BY DEF Typed

\* Identifiers stay apart in a step that neither hands out nor moves one.
LEMMA IdsStay ==
    ASSUME Typed, OwnIds, NEW i \in DOMAIN invocations, NEW new \in Invocation, Set(i, new),
           count' = count, new.id = invocations[i].id
    PROVE  OwnIds'
<1>1. /\ DOMAIN invocations' = DOMAIN invocations
      /\ \A j \in DOMAIN invocations : invocations'[j].id = invocations[j].id
  BY SetKeeps
<1> QED
  BY <1>1 DEF OwnIds

\* A step that leaves the store alone and does not touch the identifier keeps
\* the invariant if the new record fits.
LEMMA QuietStep ==
    ASSUME Inv, NEW i \in DOMAIN invocations, NEW new \in Invocation, Set(i, new),
           blobs' = blobs, count' = count,
           new.id = invocations[i].id, Fits(i, new)
    PROVE  Inv'
<1>1. Typed'
  BY SetKeeps DEF Inv, Typed
<1>2. OwnIds'
  BY IdsStay DEF Inv
<1>3. ASSUME NEW j \in DOMAIN invocations' PROVE Fits(j, invocations[j])'
  BY SetKeeps DEF Inv, Fits, Pending, Stored, Delivered, Ordered
<1> QED
  BY <1>1, <1>2, <1>3 DEF Inv

\* A creation that begins uses up the next identifier, which nobody has.
LEMMA CreationBegins ==
    ASSUME Inv, NEW i \in DOMAIN invocations, NEW new \in Invocation, Set(i, new),
           blobs' = blobs, count' = count + 1,
           new.id = count, Fits(i, new)
    PROVE  Inv'
<1>1. Typed'
  BY SetKeeps DEF Inv, Typed
<1>2. OwnIds'
  <2>1. /\ DOMAIN invocations' = DOMAIN invocations
        /\ invocations'[i].id = count
        /\ \A j \in DOMAIN invocations : j # i => invocations'[j].id = invocations[j].id
    BY SetKeeps DEF Inv
  <2> QED
    BY <2>1, StoreAssumption DEF Inv, OwnIds, Typed
<1>3. ASSUME NEW j \in DOMAIN invocations' PROVE Fits(j, invocations[j])'
  BY SetKeeps DEF Inv, Fits, Pending, Stored, Delivered, Ordered
<1> QED
  BY <1>1, <1>2, <1>3 DEF Inv

\* A creation that ends adds one blob under an identifier that was not there,
\* so that all the others are as they were and still belong to their authors.
LEMMA CreationEnds ==
    ASSUME Inv, NEW i \in DOMAIN invocations, NEW new \in Invocation, Set(i, new),
           CreateEnds(invocations[i].id, i),
           invocations[i].id # None, invocations[i].id \notin DOMAIN blobs,
           new.id = invocations[i].id, Fits(i, new)'
    PROVE  Inv'
<1> DEFINE id == invocations[i].id
<1>1. /\ DOMAIN blobs' = DOMAIN blobs \union {id}
      /\ blobs'[id] = i
      /\ \A b \in DOMAIN blobs : blobs'[b] = blobs[b]
      /\ blobs' = [b \in DOMAIN blobs' |-> blobs'[b]]
  BY DEF CreateEnds
<1>2. id \in Nat /\ id < count /\ i \in Nat
  BY DEF Inv, OwnIds, Typed
<1>3. Typed'
  <2>1. blobs' \in [DOMAIN blobs' -> Nat \union {Arg}]
    BY <1>1, <1>2 DEF Inv, Typed
  <2> QED
    BY <1>1, <1>2, <2>1, SetKeeps DEF Inv, Typed, CreateEnds
<1>4. OwnIds'
  BY IdsStay DEF Inv, CreateEnds
<1>5. ASSUME NEW j \in DOMAIN invocations' PROVE Fits(j, invocations[j])'
  <2>1. CASE j = i
    BY <2>1, SetKeeps DEF Inv
  <2>2. CASE j # i
    <3>1. j \in DOMAIN invocations /\ invocations'[j] = invocations[j] /\ invocations[j].id # id
      BY <2>2, SetKeeps DEF Inv, OwnIds
    <3>2. Fits(j, invocations[j])
      BY <3>1 DEF Inv
    <3> QED
      BY <1>1, <3>1, <3>2 DEF Fits, Pending, Stored, Delivered, Ordered
  <2> QED
    BY <2>1, <2>2
<1> QED
  BY <1>3, <1>4, <1>5 DEF Inv

-----------------------------------------------------------------------------
(***************************************************************************)
(* One lemma for every action.                                             *)
(***************************************************************************)
\* Receive: the new invocation has no identifier, no answer and no call.
LEMMA ReceiveInv ==
    ASSUME Inv, NEW kind \in {"stage", "function"}, NEW body \in Bodies,
           NEW streams \in BOOLEAN, Receive(kind, body, streams)
    PROVE  Inv'
<1> DEFINE new == Received(kind, body, streams)
<1> DEFINE n == Len(invocations) + 1
<1>1. new \in Invocation /\ new.id = None
  BY DEF Received, Invocation
<1>2. ASSUME NEW k PROVE Fits(k, new)'
  BY DEF Receive, Received, Fits, Pending, Stored, Delivered, Ordered
<1> HIDE DEF new
<1>3. /\ invocations' \in Seq(Invocation)
      /\ DOMAIN invocations' = DOMAIN invocations \union {n}
      /\ n \notin DOMAIN invocations
      /\ invocations'[n] = new
      /\ \A j \in DOMAIN invocations : invocations'[j] = invocations[j]
  BY <1>1 DEF Inv, Typed, Receive, new
<1>4. blobs' = blobs /\ count' = count
  BY DEF Receive, storeVars
<1>5. Typed'
  BY <1>3, <1>4 DEF Inv, Typed
<1>6. OwnIds'
  BY <1>1, <1>3, <1>4 DEF Inv, OwnIds
<1>7. ASSUME NEW j \in DOMAIN invocations' PROVE Fits(j, invocations[j])'
  <2>1. CASE j = n
    BY <1>2, <1>3, <2>1 DEF Fits, Pending, Stored, Delivered, Ordered
  <2>2. CASE j # n
    BY <1>3, <1>4, <2>2 DEF Inv, Fits, Pending, Stored, Delivered, Ordered
  <2> QED
    BY <2>1, <2>2
<1> QED
  BY <1>5, <1>6, <1>7 DEF Inv

\* HandleInvokeStage begins: a stage has no body to be sent.
LEMMA InvokeStageInv ==
    ASSUME Inv, NEW i \in DOMAIN invocations, InvokeStage(i)
    PROVE  Inv'
<1> DEFINE inv == invocations[i]
<1> DEFINE new == [inv EXCEPT !.at = "calling", !.got = None]
<1>1. inv \in Invocation /\ Fits(i, inv)
  BY InvocationTyped DEF Inv
<1>2. new \in Invocation /\ Set(i, new) /\ blobs' = blobs /\ count' = count
  BY <1>1 DEF InvokeStage, Call, Invocation, storeVars
<1>3. new.id = inv.id /\ Fits(i, new)
  BY <1>1 DEF InvokeStage, Call, At, Invocation, Fits, Pending, Stored, Delivered, Ordered
<1> QED
  BY <1>2, <1>3, QuietStep

\* A stage's response: a blob it names is the one its function stored.
LEMMA StageRespondsInv ==
    ASSUME Inv, NEW i \in DOMAIN invocations, NEW status \in Status, NEW content \in Contents,
           StageResponds(i, status, content)
    PROVE  Inv'
<1> DEFINE inv == invocations[i]
<1> DEFINE new == [inv EXCEPT !.at = "answered", !.result = StageResult(i, status, content)]
<1>1. inv \in Invocation /\ Fits(i, inv)
  BY InvocationTyped DEF Inv
<1>2. new \in Invocation /\ Set(i, new) /\ blobs' = blobs /\ count' = count
  <2> DEFINE r == StageResult(i, status, content)
  <2>1. inv.id \in Nat \union {None}
    BY <1>1 DEF Invocation
  <2>2. r \in [successful : BOOLEAN,
                datum : {"blob", "empty", "stage_timeout", "stage_failed", "invalid_stage_response"},
                blob : Nat \union {None}]
    BY <2>1 DEF StageResult, RuntimeResult, Failed, Result
  <2>3. Set(i, new) /\ blobs' = blobs /\ count' = count
    BY DEF StageResponds, Answer, storeVars
  <2> HIDE DEF r
  <2>4. [inv EXCEPT !.at = "answered", !.result = r] \in Invocation
    BY <1>1, <2>2 DEF Invocation
  <2> QED
    BY <2>3, <2>4 DEF r
<1>3. new.id = inv.id /\ Fits(i, new)
  BY <1>1 DEF StageResponds, Answer, StageResult, RuntimeResult, Failed, Result, Contents, At, Invocation, Fits, Pending, Stored, Delivered, Ordered
<1> QED
  BY <1>2, <1>3, QuietStep

\* A stage's call fails, and the answer names no blob.
LEMMA StageCallFailsInv ==
    ASSUME Inv, NEW i \in DOMAIN invocations, StageCallFails(i)
    PROVE  Inv'
<1> DEFINE inv == invocations[i]
<1> DEFINE new == [inv EXCEPT !.at = "answered", !.result = Failed("stage_failed")]
<1>1. inv \in Invocation /\ Fits(i, inv)
  BY InvocationTyped DEF Inv
<1>2. new \in Invocation /\ Set(i, new) /\ blobs' = blobs /\ count' = count
  BY <1>1 DEF StageCallFails, Answer, Failed, Result, Invocation, storeVars
<1>3. new.id = inv.id /\ Fits(i, new)
  BY <1>1 DEF StageCallFails, Answer, Failed, Result, At, Invocation, Fits, Pending, Stored, Delivered, Ordered
<1> QED
  BY <1>2, <1>3, QuietStep

\* The headers of a function's response.
LEMMA FunctionRespondsInv ==
    ASSUME Inv, NEW i \in DOMAIN invocations, NEW status \in Status, FunctionResponds(i, status)
    PROVE  Inv'
<1> DEFINE inv == invocations[i]
<1> DEFINE new == [inv EXCEPT !.at = "responded", !.status = status]
<1>1. inv \in Invocation /\ Fits(i, inv)
  BY InvocationTyped DEF Inv
<1>2. new \in Invocation /\ Set(i, new) /\ blobs' = blobs /\ count' = count
  <2>1. status \in Nat
    BY DEF Status
  <2>2. new \in Invocation
    BY <1>1, <2>1 DEF Invocation
  <2>3. Set(i, new) /\ blobs' = blobs /\ count' = count
    BY DEF FunctionResponds, storeVars
  <2> QED
    BY <2>2, <2>3
<1>3. new.id = inv.id /\ Fits(i, new)
  BY <1>1 DEF FunctionResponds, Status, At, Invocation, Fits, Pending, Stored, Delivered, Ordered
<1> QED
  BY <1>2, <1>3, QuietStep

\* A function's call fails, and the answer names no blob.
LEMMA FunctionCallFailsInv ==
    ASSUME Inv, NEW i \in DOMAIN invocations, FunctionCallFails(i)
    PROVE  Inv'
<1> DEFINE inv == invocations[i]
<1> DEFINE new == [inv EXCEPT !.at = "answered", !.result = Failed("function_invoke_failed")]
<1>1. inv \in Invocation /\ Fits(i, inv)
  BY InvocationTyped DEF Inv
<1>2. new \in Invocation /\ Set(i, new) /\ blobs' = blobs /\ count' = count
  BY <1>1 DEF FunctionCallFails, Answer, Failed, Result, Invocation, storeVars
<1>3. new.id = inv.id /\ Fits(i, new)
  BY <1>1 DEF FunctionCallFails, Answer, Failed, Result, At, Invocation, Fits, Pending, Stored, Delivered, Ordered
<1> QED
  BY <1>2, <1>3, QuietStep

\* The body of a response breaks off: the identifier is spent, and not named.
LEMMA BodyFailsInv ==
    ASSUME Inv, NEW i \in DOMAIN invocations, BodyFails(i)
    PROVE  Inv'
<1> DEFINE inv == invocations[i]
<1> DEFINE new == [inv EXCEPT !.at = "answered", !.result = Failed("function_invoke_failed")]
<1>1. inv \in Invocation /\ Fits(i, inv)
  BY InvocationTyped DEF Inv
<1>2. new \in Invocation /\ Set(i, new) /\ blobs' = blobs /\ count' = count
  BY <1>1 DEF BodyFails, CreateFails, Answer, Failed, Result, Invocation, storeVars
<1>3. new.id = inv.id /\ Fits(i, new)
  BY <1>1 DEF BodyFails, CreateFails, Answer, Failed, Result, At, Invocation, Fits, Pending, Stored, Delivered, Ordered
<1> QED
  BY <1>2, <1>3, QuietStep

\* An upload breaks off: the identifier is spent.
LEMMA UploadFailsInv ==
    ASSUME Inv, NEW i \in DOMAIN invocations, UploadFails(i)
    PROVE  Inv'
<1> DEFINE inv == invocations[i]
<1> DEFINE new == [inv EXCEPT !.upload = "failed"]
<1>1. inv \in Invocation /\ Fits(i, inv)
  BY InvocationTyped DEF Inv
<1>2. new \in Invocation /\ Set(i, new) /\ blobs' = blobs /\ count' = count
  BY <1>1 DEF UploadFails, CreateFails, Invocation, storeVars
<1>3. new.id = inv.id /\ Fits(i, new)
  BY <1>1 DEF UploadFails, CreateFails, At, Invocation, Fits, Pending, Stored, Delivered, Ordered
<1> QED
  BY <1>2, <1>3, QuietStep

\* A function reads a blob while it runs.
LEMMA GetBlobInv ==
    ASSUME Inv, NEW i \in DOMAIN invocations, GetBlob(i)
    PROVE  Inv'
<1> DEFINE inv == invocations[i]
<1> DEFINE new == [inv EXCEPT !.seen = Read(0)]
<1>1. inv \in Invocation /\ Fits(i, inv)
  BY InvocationTyped DEF Inv
<1>2. Read(0) \in Nat \union {Arg, None}
  BY DEF Inv, Typed, Read
<1>3. new \in Invocation /\ Set(i, new) /\ blobs' = blobs /\ count' = count
  BY <1>1, <1>2 DEF GetBlob, Invocation, storeVars
<1>4. new.id = inv.id /\ Fits(i, new)
  BY <1>1 DEF Invocation, Fits, Pending, Stored, Delivered, Ordered
<1> QED
  BY <1>3, <1>4, QuietStep

\* HandleInvokeFunction begins: what the call is sent is the blob that the
\* request names, and a call whose blob is missing is not made.
LEMMA ReadArgumentInv ==
    ASSUME Inv, NEW i \in DOMAIN invocations, ReadArgument(i)
    PROVE  Inv'
<1> DEFINE inv == invocations[i]
<1> DEFINE got == Read(inv.body)
<1>1. inv \in Invocation /\ Fits(i, inv) /\ inv.kind = "function" /\ inv.at = "received"
  BY InvocationTyped DEF Inv, ReadArgument, At
<1>2. got \in Nat \union {Arg, None} /\ (got # None => inv.body \in DOMAIN blobs /\ got = blobs[inv.body])
  BY DEF Inv, Typed, Read
<1>3. blobs' = blobs /\ count' = count
  BY DEF ReadArgument, storeVars
<1>4. CASE inv.body # None /\ got = None
  <2> DEFINE new == [inv EXCEPT !.at = "answered", !.result = Failed("function_invoke_failed")]
  <2>1. new \in Invocation /\ Set(i, new)
    BY <1>1, <1>4 DEF ReadArgument, Answer, Failed, Result, Invocation
  <2>2. new.id = inv.id /\ Fits(i, new)
    BY <1>1 DEF Failed, Result, Invocation, Fits, Pending, Stored, Delivered, Ordered
  <2> QED
    BY <1>3, <2>1, <2>2, QuietStep
<1>5. CASE ~ (inv.body # None /\ got = None)
  <2> DEFINE new == [inv EXCEPT !.at = "calling", !.got = got]
  <2>1. Set(i, new)
    BY <1>5 DEF ReadArgument, Call
  <2> HIDE DEF got
  <2>2. new \in Invocation
    BY <1>1, <1>2 DEF Invocation
  <2>3. new.id = inv.id /\ Fits(i, new)
    BY <1>1, <1>2, <1>5 DEF Invocation, Fits, Pending, Stored, Delivered, Ordered
  <2> QED
    BY <1>3, <2>1, <2>2, <2>3, QuietStep
<1> QED
  BY <1>4, <1>5

\* A function's response is put into the store, under a new identifier.
LEMMA StoreResponseInv ==
    ASSUME Inv, NEW i \in DOMAIN invocations, StoreResponse(i)
    PROVE  Inv'
<1> DEFINE inv == invocations[i]
<1> DEFINE new == [inv EXCEPT !.at = "storing", !.id = count]
<1>1. inv \in Invocation /\ Fits(i, inv) /\ count \in Nat /\ count \notin DOMAIN blobs
  BY InvocationTyped DEF Inv, Typed
<1>2. new \in Invocation /\ Set(i, new) /\ blobs' = blobs /\ count' = count + 1
  BY <1>1 DEF StoreResponse, CreateBegins, Invocation
<1>3. new.id = count /\ Fits(i, new)
  BY <1>1, StoreAssumption DEF StoreResponse, At, Invocation, Fits, Pending, Stored, Delivered, Ordered
<1> QED
  BY <1>2, <1>3, CreationBegins

\* The runtime of a stage begins to store a blob.
LEMMA CreateBlobInv ==
    ASSUME Inv, NEW i \in DOMAIN invocations, CreateBlob(i)
    PROVE  Inv'
<1> DEFINE inv == invocations[i]
<1> DEFINE new == [inv EXCEPT !.upload = "writing", !.id = count]
<1>1. inv \in Invocation /\ Fits(i, inv) /\ count \in Nat /\ count \notin DOMAIN blobs
  BY InvocationTyped DEF Inv, Typed
<1>2. new \in Invocation /\ Set(i, new) /\ blobs' = blobs /\ count' = count + 1
  BY <1>1 DEF CreateBlob, CreateBegins, Invocation
<1>3. new.id = count /\ Fits(i, new)
  BY <1>1, StoreAssumption DEF CreateBlob, At, Invocation, Fits, Pending, Stored, Delivered, Ordered
<1> QED
  BY <1>2, <1>3, CreationBegins

\* A function's response is in the store, and the answer names it.
LEMMA BodyEndsInv ==
    ASSUME Inv, NEW i \in DOMAIN invocations, BodyEnds(i)
    PROVE  Inv'
<1> DEFINE inv == invocations[i]
<1> DEFINE new == [inv EXCEPT !.at = "answered",
                            !.result = Result(successfulResponse(inv.status), "http_resp", inv.id)]
<1>1. inv \in Invocation /\ Fits(i, inv) /\ inv.id # None /\ inv.id \notin DOMAIN blobs
  BY InvocationTyped DEF Inv, BodyEnds, At, Fits, Pending
<1>2. CreateEnds(inv.id, i)
  BY DEF BodyEnds
<1>3. /\ inv.id \in DOMAIN blobs' /\ blobs'[inv.id] = i
      /\ \A b \in DOMAIN blobs : b \in DOMAIN blobs' /\ blobs'[b] = blobs[b]
  BY <1>1, <1>2 DEF CreateEnds
<1>4. new \in Invocation /\ Set(i, new)
  <2> DEFINE r == Result(successfulResponse(inv.status), "http_resp", inv.id)
  <2>1. r \in [successful : BOOLEAN, datum : {"http_resp"}, blob : Nat \union {None}]
    BY <1>1 DEF Result, successfulResponse, Invocation
  <2>2. Set(i, new)
    BY DEF BodyEnds, Answer
  <2> HIDE DEF r
  <2>3. [inv EXCEPT !.at = "answered", !.result = r] \in Invocation
    BY <1>1, <2>1 DEF Invocation
  <2> QED
    BY <2>2, <2>3 DEF r
<1>5. new.id = inv.id
  BY <1>1 DEF Invocation
<1>6. ASSUME NEW r, r = new PROVE Fits(i, r)'
  BY <1>1, <1>3, <1>6 DEF BodyEnds, At, Answer, Result, successfulResponse, Invocation, Fits, Pending, Stored, Delivered, Ordered
<1> QED
  BY <1>1, <1>2, <1>4, <1>5, <1>6, CreationEnds

\* The blob of a stage is in the store.
LEMMA UploadEndsInv ==
    ASSUME Inv, NEW i \in DOMAIN invocations, UploadEnds(i)
    PROVE  Inv'
<1> DEFINE inv == invocations[i]
<1> DEFINE new == [inv EXCEPT !.upload = "stored"]
<1>1. inv \in Invocation /\ Fits(i, inv) /\ inv.id # None /\ inv.id \notin DOMAIN blobs
  BY InvocationTyped DEF Inv, UploadEnds, At, Fits, Pending
<1>2. CreateEnds(inv.id, i)
  BY DEF UploadEnds
<1>3. /\ inv.id \in DOMAIN blobs' /\ blobs'[inv.id] = i
      /\ \A b \in DOMAIN blobs : b \in DOMAIN blobs' /\ blobs'[b] = blobs[b]
  BY <1>1, <1>2 DEF CreateEnds
<1>4. new \in Invocation /\ Set(i, new)
  BY <1>1 DEF UploadEnds, Invocation
<1>5. new.id = inv.id
  BY <1>1 DEF Invocation
<1>6. ASSUME NEW r, r = new PROVE Fits(i, r)'
  BY <1>1, <1>3, <1>6 DEF UploadEnds, At, Invocation, Fits, Pending, Stored, Delivered, Ordered
<1> QED
  BY <1>1, <1>2, <1>4, <1>5, <1>6, CreationEnds

-----------------------------------------------------------------------------
(***************************************************************************)
(* The theorems.                                                           *)
(***************************************************************************)
\* At the start there are no invocations, and one blob.
LEMMA InitInv == Init => Inv
<1> SUFFICES ASSUME Init PROVE Inv
  OBVIOUS
<1>1. invocations = <<>> /\ DOMAIN invocations = {}
  BY DEF Init
<1>2. Typed
  BY <1>1 DEF Init, StoreInit, Typed
<1> QED
  BY <1>1, <1>2 DEF Inv, OwnIds

\* Every step of the executor, of the blob API and of the functions keeps it.
LEMMA NextInv == Inv /\ [Next]_vars => Inv'
<1> SUFFICES ASSUME Inv, [Next]_vars PROVE Inv'
  OBVIOUS
<1>1. ASSUME NEW i \in DOMAIN invocations, ExecutorStep(i) PROVE Inv'
  BY <1>1, InvokeStageInv, StageCallFailsInv, ReadArgumentInv, FunctionCallFailsInv,
     StoreResponseInv, BodyFailsInv, UploadFailsInv DEF ExecutorStep
<1>2. ASSUME NEW i \in DOMAIN invocations, FunctionStep(i) PROVE Inv'
  BY <1>2, StageRespondsInv, FunctionRespondsInv, BodyEndsInv, CreateBlobInv, UploadEndsInv,
     GetBlobInv DEF FunctionStep
<1>3. CASE UNCHANGED vars
  BY <1>3 DEF vars, storeVars, Inv, Typed, OwnIds, Fits, Pending, Stored, Delivered, Ordered
<1> QED
  BY <1>1, <1>2, <1>3, ReceiveInv DEF Next

\* The invariant says of every answer and every call what the properties do.
LEMMA InvImplies == Inv => OwnOutput /\ ArgumentDelivered
BY DEF Inv, Fits, Stored, Delivered, OwnOutput, ArgumentDelivered, Called

\* However many invocations overlap, fail or time out, and whichever store is
\* in use: the blob that an answer of HandleInvokeStage or
\* HandleInvokeFunction names is there, and holds what the function of that
\* invocation produced.
THEOREM AnswersNameTheirOutput == Spec => []OwnOutput
<1>1. Inv => OwnOutput
  BY InvImplies
<1> QED
  BY <1>1, InitInv, NextInv, PTL DEF Spec

\* However many invocations overlap, fail or time out, and whichever store is
\* in use: a function called by HandleInvokeFunction was sent the whole
\* content of the blob that its request names.
THEOREM CallsGetTheirArgument == Spec => []ArgumentDelivered
<1>1. Inv => ArgumentDelivered
  BY InvImplies
<1> QED
  BY <1>1, InitInv, NextInv, PTL DEF Spec

=============================================================================
