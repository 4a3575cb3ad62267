------------------------------ MODULE RequestProofs ------------------------------
(***************************************************************************)
(* The routing of requests, for any number of nodes, shards, flows, calls  *)
(* and crashes: every request that is served is served by the one node     *)
(* that owns the flow, and no command without the parts that are           *)
(* dereferenced reaches a flow's mailbox.                                  *)
(*                                                                         *)
(* Both properties are about calls that are being served; the invariant    *)
(* says what is true of every call the proxy has sent on (Sound), and that *)
(* mailboxes hold only such calls (Boxed).                                 *)
(***************************************************************************)
EXTENDS RequestPath, TLAPS

\* A call is a record of the fields of NewCall.
Fields == {"query", "request", "node", "at", "answer", "handler", "future", "after"}

IsCall(x) == x = [k \in Fields |-> x[k]]

\* A request with the parts that ValidateCommand and the executor dereference.
Whole(m) ==
    /\ m.type \in {"AddValueStage", "CompleteStageExternally"} =>
         m.value # Nil /\ m.value.datum # Nil
    /\ m.type = "AddInvokeFunction" => m.arg # Nil

\* A call that the proxy sent on is whole, and went to the flow's node.
Sound(x) ==
    x.handler # "none" =>
        /\ x.request.flow_id \in FlowIds
        /\ x.node = GetClient(x.request.flow_id)
        /\ Whole(x.request)

Boxed ==
    /\ mailbox \in [Nodes -> [FlowIds -> Seq(Nat)]]
    /\ \A n \in Nodes, f \in FlowIds : \A i \in DOMAIN mailbox[n][f] :
         /\ mailbox[n][f][i] \in DOMAIN calls
         /\ calls[mailbox[n][f][i]].handler # "none"

Good(x) == IsCall(x) /\ x.query \in Query /\ Sound(x)

Inv ==
    /\ \E S : calls \in Seq(S)
    /\ \A c \in DOMAIN calls : Good(calls[c])
    /\ Boxed

-----------------------------------------------------------------------------
(***************************************************************************)
(* Sharding.                                                               *)
(***************************************************************************)
\* InitFromEnv: there is at least one node and one shard.
LEMMA Counts == NodeCount \in Nat \ {0} /\ ShardCount \in Nat \ {0}
<1>1. getIntConfig("nodeCount") \in Nat \ {0} /\ getIntConfig("shardCount") \in Nat \ {0}
  BY ClusterAssumption DEF getIntConfig, configDefaults, Unset
<1> QED
  BY <1>1 DEF NodeCount, ShardCount, Unset

\* Every flow has exactly one owner, whatever the numbers of nodes and shards:
\* the node that GetClient resolves is the one node whose LocalShards hold
\* the flow's shard.
THEOREM OneOwner ==
    \A f \in FlowIds :
        /\ GetClient(f) \in Nodes
        /\ \A n \in Nodes : ShardID(f) \in LocalShards(n) <=> n = GetClient(f)
<1> SUFFICES ASSUME NEW f \in FlowIds
             PROVE  /\ GetClient(f) \in Nodes
                    /\ \A n \in Nodes : ShardID(f) \in LocalShards(n) <=> n = GetClient(f)
  OBVIOUS
<1> DEFINE N == NodeCount
<1> DEFINE K == ShardCount
<1>1. N \in Nat \ {0} /\ K \in Nat \ {0} /\ Fold[f] \in Nat
  BY Counts, ClusterAssumption
<1> HIDE DEF N, K
<1>2. Fold[f] % K \in 0..(K - 1)
  BY <1>1
<1>3. (Fold[f] % K) % N \in 0..(N - 1)
  BY <1>1, <1>2
<1> QED
  BY <1>2, <1>3 DEF N, K, GetClient, resolveNode, ShardID, LocalShards, Nodes, Shards

-----------------------------------------------------------------------------
(***************************************************************************)
(* Requests: what the gateway and the validators leave.                    *)
(***************************************************************************)
RequestTypes ==
    {"CreateGraph", "AddStage", "AddValueStage", "AddDelay", "AddInvokeFunction",
     "CompleteStageExternally", "AwaitStageResult", "Commit", "GetGraphState"}

\* Every request has a type and names a flow.
LEMMA RequestShape ==
    ASSUME NEW m \in Request
    PROVE  /\ m = [k \in DOMAIN m |-> m[k]] /\ "type" \in DOMAIN m /\ "flow_id" \in DOMAIN m
           /\ m.type = "CreateGraph" => m \in CreateGraphRequest
           /\ m.type \in RequestTypes
<1>1. CASE m \in CreateGraphRequest
  BY <1>1, SMT DEF CreateGraphRequest, RequestTypes
<1>2. CASE m \in AddStageRequest
  BY <1>2, SMT DEF AddStageRequest, RequestTypes
<1>3. CASE m \in AddCompletedValueStageRequest
  BY <1>3, SMT DEF AddCompletedValueStageRequest, RequestTypes
<1>4. CASE m \in AddDelayStageRequest
  BY <1>4, SMT DEF AddDelayStageRequest, RequestTypes
<1>5. CASE m \in AddInvokeFunctionStageRequest
  BY <1>5, SMT DEF AddInvokeFunctionStageRequest, RequestTypes
<1>6. CASE m \in CompleteStageExternallyRequest
  BY <1>6, SMT DEF CompleteStageExternallyRequest, RequestTypes
<1>7. CASE m \in AwaitStageResultRequest
  BY <1>7, SMT DEF AwaitStageResultRequest, RequestTypes
<1>8. CASE m \in CommitGraphRequest
  BY <1>8, SMT DEF CommitGraphRequest, RequestTypes
<1>9. CASE m \in GetGraphStateRequest
  BY <1>9, SMT DEF GetGraphStateRequest, RequestTypes
<1> QED
  BY <1>1, <1>2, <1>3, <1>4, <1>5, <1>6, <1>7, <1>8, <1>9, SMT DEF Request

\* Only a request to create a flow arrives as one.
LEMMA ReceivedCreate ==
    ASSUME NEW q \in Query, Received(q) # Nil, Received(q).type = "CreateGraph"
    PROVE  Received(q) \in CreateGraphRequest
<1>1. CASE ~ (q.via = "rest" /\ q.body # Nil)
  <2>1. q.body \in Request /\ Received(q) = q.body
    BY <1>1 DEF Received, Query, Optional
  <2> QED
    BY <2>1, RequestShape
<1>2. CASE q.via = "rest" /\ q.body # Nil
  <2>1. q.body \in Request /\ Received(q) = GatewayRequest(q)
    BY <1>2 DEF Received, Query, Optional
  <2>2. CASE q.body.type = "CreateGraph"
    <3>1. GatewayRequest(q) = q.body
      BY <2>2, SMT DEF GatewayRequest, request_CreateGraph
    <3> QED
      BY <2>1, <2>2, <3>1, RequestShape
  <2>3. CASE q.body.type # "CreateGraph"
    <3>1. WithFlow(q).type = q.body.type /\ WithStage(q).type = q.body.type
      BY <2>1, RequestShape DEF WithFlow, WithStage
    <3>2. GatewayRequest(q) \in {WithFlow(q), WithStage(q)}
      <4>1. q.body.type \in RequestTypes \ {"CreateGraph"}
        BY <2>1, <2>3, RequestShape
      <4> QED
        BY <4>1, SMT DEF RequestTypes, GatewayRequest, request_AddStage, request_AddValueStage,
           request_AddInvokeFunction, request_AddDelay, request_AwaitStageResult,
           request_CompleteStageExternally, request_Commit, request_GetGraphState
    <3> QED
      BY <2>1, <2>3, <3>1, <3>2
  <2> QED
    BY <2>2, <2>3
<1> QED
  BY <1>1, <1>2

\* What the interceptor lets pass has the parts that are dereferenced.
LEMMA ValidIsWhole ==
    ASSUME NEW m, Validate(m)
    PROVE  Whole(m)
<1>1. CASE m.type = "AddValueStage"
  <2>1. ValidAddCompletedValueStageRequest(m)
    BY <1>1, SMT DEF Validate
  <2> QED
    BY <1>1, <2>1 DEF Whole, ValidAddCompletedValueStageRequest, ValidCompletionResult
<1>2. CASE m.type = "CompleteStageExternally"
  <2>1. ValidCompleteStageExternallyRequest(m)
    BY <1>2, SMT DEF Validate
  <2> QED
    BY <1>2, <2>1 DEF Whole, ValidCompleteStageExternallyRequest, ValidCompletionResult
<1>3. CASE m.type = "AddInvokeFunction"
  <2>1. ValidAddInvokeFunctionStageRequest(m)
    BY <1>3, SMT DEF Validate
  <2> QED
    BY <1>3, <2>1 DEF Whole, ValidAddInvokeFunctionStageRequest
<1> QED
  BY <1>1, <1>2, <1>3 DEF Whole

\* The proxy sends on a whole request for a flow that has an identifier.
LEMMA ProxiedIsWhole ==
    ASSUME NEW q \in Query, Accepted(Received(q)), NEW m \in ProxiedRequests(Received(q))
    PROVE  m.flow_id \in FlowIds /\ Whole(m)
<1> DEFINE r == Received(q)
<1>1. r # Nil /\ Validate(r)
  BY DEF Accepted
<1>2. CASE r.type = "CreateGraph"
  <2>1. r \in CreateGraphRequest
    BY <1>1, <1>2, ReceivedCreate
  <2>2. PICK f \in FlowIds : m = [r EXCEPT !.flow_id = f]
    BY <1>2 DEF ProxiedRequests, FreshIds
  <2>3. m.flow_id = f /\ m.type = "CreateGraph"
    BY <2>1, <2>2 DEF CreateGraphRequest
  <2> QED
    BY <2>3 DEF Whole
<1>3. CASE r.type # "CreateGraph"
  BY <1>1, <1>3, ValidIsWhole DEF ProxiedRequests
<1> QED
  BY <1>2, <1>3

-----------------------------------------------------------------------------
(***************************************************************************)
(* Steps.                                                                  *)
(***************************************************************************)
\* A step that replaces one call by a good one, and puts nothing into a
\* mailbox, keeps the invariant.
LEMMA CallChanges ==
    ASSUME Inv, NEW c \in DOMAIN calls, NEW x, calls' = [calls EXCEPT ![c] = x], Good(x),
           calls[c].handler # "none" => x.handler # "none",
           mailbox' = mailbox
    PROVE  Inv'
<1>1. PICK S : calls \in Seq(S)
  BY DEF Inv
<1>2. calls' \in Seq(S \union {x})
  BY <1>1
<1>3. /\ DOMAIN calls' = DOMAIN calls /\ calls'[c] = x
      /\ \A d \in DOMAIN calls : d # c => calls'[d] = calls[d]
  BY <1>1
<1>4. \A d \in DOMAIN calls' : Good(calls'[d])
  BY <1>3 DEF Inv
<1>5. Boxed'
  BY <1>3 DEF Inv, Boxed
<1> QED
  BY <1>2, <1>4, <1>5 DEF Inv, Good, Sound, IsCall, Fields

\* A client calls: the call is not served yet.
LEMMA ClientCallsInv ==
    ASSUME Inv, NEW q \in Queries, ClientCalls(q)
    PROVE  Inv'
<1> DEFINE x == NewCall(q)
<1>1. PICK S : calls \in Seq(S)
  BY DEF Inv
<1>2. Good(x) /\ x.handler = "none"
  BY QueriesAssumption DEF NewCall, Good, IsCall, Fields, Sound
<1>3. calls' = Append(calls, x) /\ mailbox' = mailbox
  BY DEF ClientCalls
<1> HIDE DEF x
<1>4. calls \in Seq(S \union {x})
  BY <1>1
<1>5. /\ calls' \in Seq(S \union {x})
      /\ DOMAIN calls' = DOMAIN calls \union {Len(calls) + 1}
      /\ calls'[Len(calls) + 1] = x
      /\ \A d \in DOMAIN calls : calls'[d] = calls[d]
  BY <1>3, <1>4
<1>6. \A d \in DOMAIN calls' : Good(calls'[d])
  BY <1>2, <1>5 DEF Inv
<1>7. Boxed'
  BY <1>3, <1>5 DEF Inv, Boxed
<1> QED
  BY <1>5, <1>6, <1>7 DEF Inv, Good, Sound, IsCall, Fields

\* The gateway or the validator refuses: nothing is sent on.
LEMMA RefuseInv ==
    ASSUME Inv, NEW c \in DOMAIN calls, Refuse(c)
    PROVE  Inv'
<1> DEFINE x == Answered(calls[c], Error("InvalidArgument"))
<1>1. Good(calls[c]) /\ \E S : calls \in Seq(S)
  BY DEF Inv
<1>2. calls' = [calls EXCEPT ![c] = x] /\ mailbox' = mailbox
  BY <1>1 DEF Refuse, AtAPI
<1>3. Good(x) /\ (calls[c].handler # "none" => x.handler # "none")
  BY <1>1 DEF Answered, Good, IsCall, Fields, Sound
<1> QED
  BY <1>2, <1>3, CallChanges

\* No node is found: nothing is sent on.
LEMMA NoClientInv ==
    ASSUME Inv, NEW c \in DOMAIN calls, NoClient(c)
    PROVE  Inv'
<1> DEFINE x == Answered(calls[c], Error("Unknown"))
<1>1. Good(calls[c]) /\ \E S : calls \in Seq(S)
  BY DEF Inv
<1>2. calls' = [calls EXCEPT ![c] = x] /\ mailbox' = mailbox
  BY <1>1 DEF NoClient, AtAPI
<1>3. Good(x) /\ (calls[c].handler # "none" => x.handler # "none")
  BY <1>1 DEF Answered, Good, IsCall, Fields, Sound
<1> QED
  BY <1>2, <1>3, CallChanges

\* The caller stops waiting, and the owner does not.
LEMMA DeadlineInv ==
    ASSUME Inv, NEW c \in DOMAIN calls, Deadline(c)
    PROVE  Inv'
<1> DEFINE x == Answered(calls[c], Error("DeadlineExceeded"))
<1>1. Good(calls[c]) /\ \E S : calls \in Seq(S)
  BY DEF Inv
<1>2. calls' = [calls EXCEPT ![c] = x] /\ mailbox' = mailbox
  BY <1>1 DEF Deadline, AtAPI
<1>3. Good(x) /\ (calls[c].handler # "none" => x.handler # "none")
  BY <1>1 DEF Answered, Good, IsCall, Fields, Sound
<1> QED
  BY <1>2, <1>3, CallChanges

\* The future of a call times out.
LEMMA RequestTimeoutInv ==
    ASSUME Inv, NEW c \in DOMAIN calls, RequestTimeout(c)
    PROVE  Inv'
<1> DEFINE x == [calls[c] EXCEPT !.future = Error("DeadlineExceeded")]
<1>1. Good(calls[c]) /\ \E S : calls \in Seq(S)
  BY DEF Inv
<1>2. calls' = [calls EXCEPT ![c] = x] /\ mailbox' = mailbox
  BY <1>1 DEF RequestTimeout, Respond, AtAPI
<1>3. Good(x) /\ (calls[c].handler # "none" => x.handler # "none")
  BY <1>1 DEF Answered, Good, IsCall, Fields, Sound
<1> QED
  BY <1>2, <1>3, CallChanges

\* The handler returns.
LEMMA ReturnInv ==
    ASSUME Inv, NEW c \in DOMAIN calls, Return(c)
    PROVE  Inv'
<1> DEFINE x == [Answered(calls[c], calls[c].future) EXCEPT !.handler = "done"]
<1>1. Good(calls[c]) /\ \E S : calls \in Seq(S)
  BY DEF Inv
<1>2. calls' = [calls EXCEPT ![c] = x] /\ mailbox' = mailbox
  BY <1>1 DEF Return, AtAPI
<1>3. Good(x) /\ (calls[c].handler # "none" => x.handler # "none")
  <2> DEFINE y == Answered(calls[c], calls[c].future)
  <2>1. Good(y) /\ y.handler = "waiting"
    BY <1>1 DEF Return, Answered, Good, IsCall, Fields, Sound
  <2> HIDE DEF y
  <2>2. Good([y EXCEPT !.handler = "done"]) /\ [y EXCEPT !.handler = "done"].handler = "done"
    BY <2>1 DEF Good, IsCall, Fields, Sound
  <2> QED
    BY <2>2 DEF y
<1> QED
  BY <1>2, <1>3, CallChanges

\* The proxy sends a whole request to the owner of its flow, or nothing.
LEMMA ProxyInv ==
    ASSUME Inv, NEW c \in DOMAIN calls, Proxy(c)
    PROVE  Inv'
<1>1. Good(calls[c])
  BY DEF Inv
<1>2. PICK m \in ProxiedRequests(Received(calls[c].query)) :
        calls' = [calls EXCEPT ![c] =
            IF GetClient(m.flow_id) \in up
              THEN [calls[c] EXCEPT !.request = m, !.node = GetClient(m.flow_id), !.at = "proxied",
                                    !.handler = "sent"]
              ELSE Answered(calls[c], Error("Unavailable"))]
  BY DEF Proxy
<1>3. m.flow_id \in FlowIds /\ Whole(m) /\ mailbox' = mailbox
  BY <1>1, <1>2, ProxiedIsWhole DEF Proxy, AtAPI, Good
<1>4. CASE GetClient(m.flow_id) \in up
  <2> DEFINE x == [calls[c] EXCEPT !.request = m, !.node = GetClient(m.flow_id), !.at = "proxied",
                                   !.handler = "sent"]
  <2>1. Good(x) /\ x.handler = "sent"
    <3>2. x.query = calls[c].query /\ x.request = m /\ x.node = GetClient(m.flow_id) /\ IsCall(x)
          /\ x.handler = "sent"
      BY <1>1 DEF Good, IsCall, Fields
    <3> HIDE DEF x
    <3> QED
      BY <1>1, <1>3, <3>2 DEF Good, Sound
  <2> QED
    BY <1>2, <1>3, <1>4, <2>1, CallChanges
<1>5. CASE GetClient(m.flow_id) \notin up
  <2> DEFINE x == Answered(calls[c], Error("Unavailable"))
  <2>1. Good(x) /\ x.handler = calls[c].handler
    BY <1>1 DEF Answered, Good, IsCall, Fields, Sound
  <2> QED
    BY <1>2, <1>3, <1>5, <2>1, CallChanges
<1> QED
  BY <1>4, <1>5

\* A longer mailbox holds the new message and those it held.
LEMMA Appended ==
    ASSUME NEW s \in Seq(Nat), NEW d \in Nat
    PROVE  /\ Append(s, d) \in Seq(Nat)
           /\ \A i \in DOMAIN Append(s, d) :
                 Append(s, d)[i] = d \/ \E j \in DOMAIN s : Append(s, d)[i] = s[j]
<1>1. ASSUME NEW i \in DOMAIN Append(s, d)
      PROVE  Append(s, d)[i] = d \/ \E j \in DOMAIN s : Append(s, d)[i] = s[j]
  <2>1. CASE i = Len(s) + 1
    BY <2>1
  <2>2. CASE i # Len(s) + 1
    <3>1. i \in DOMAIN s /\ Append(s, d)[i] = s[i]
      BY <2>2
    <3> QED
      BY <3>1
  <2> QED
    BY <2>1, <2>2
<1> QED
  BY <1>1

\* The owner puts a call that it serves into the mailbox of the call's flow.
LEMMA forwardRequestInv ==
    ASSUME Inv, NEW c \in DOMAIN calls, forwardRequest(c)
    PROVE  Inv'
<1> DEFINE n == calls[c].node
<1> DEFINE f == calls[c].request.flow_id
<1>1. PICK S : calls \in Seq(S)
  BY DEF Inv
<1>2. Good(calls[c]) /\ calls[c].handler = "sent" /\ f \in FlowIds /\ n \in Nodes /\ c \in Nat
  <2>1. c \in Nat
    BY <1>1
  <2>2. Good(calls[c]) /\ calls[c].handler = "sent"
    BY DEF Inv, forwardRequest
  <2>3. f \in FlowIds /\ n = GetClient(f)
    BY <2>2 DEF Good, Sound
  <2> QED
    BY <2>1, <2>2, <2>3, OneOwner
<1>3. PICK r : calls' = [calls EXCEPT ![c].handler = "waiting", ![c].future = r]
  BY DEF forwardRequest
<1> DEFINE x == [calls[c] EXCEPT !.handler = "waiting", !.future = r]
<1>4. Good(x) /\ x.handler = "waiting"
  BY <1>2 DEF Good, IsCall, Fields, Sound
<1>5. calls' = [calls EXCEPT ![c] = x]
  BY <1>1, <1>3
<1> HIDE DEF x
<1>6. calls' \in Seq(S \union {x})
  BY <1>1, <1>5
<1>7. /\ DOMAIN calls' = DOMAIN calls /\ calls'[c] = x
      /\ \A d \in DOMAIN calls : d # c => calls'[d] = calls[d]
  BY <1>1, <1>5
<1>8. \A d \in DOMAIN calls' : Good(calls'[d])
  BY <1>4, <1>7 DEF Inv
<1>9. Boxed'
  <2>1. CASE mailbox' = mailbox
    BY <2>1, <1>4, <1>7 DEF Inv, Boxed
  <2>2. CASE mailbox' = [mailbox EXCEPT ![n][f] = Append(@, c)]
    <3>1. mailbox[n][f] \in Seq(Nat)
      BY <1>2 DEF Inv, Boxed
    <3>2. mailbox' = [mailbox EXCEPT ![n][f] = Append(mailbox[n][f], c)]
      BY <2>2, <1>2 DEF Inv, Boxed
    <3> DEFINE box == Append(mailbox[n][f], c)
    <3>3. box \in Seq(Nat) /\ \A i \in DOMAIN box : box[i] = c \/ \E j \in DOMAIN mailbox[n][f] : box[i] = mailbox[n][f][j]
      BY <1>2, <3>1, Appended
    <3> HIDE DEF box
    <3>4. /\ mailbox' \in [Nodes -> [FlowIds -> Seq(Nat)]] /\ mailbox'[n][f] = box
          /\ \A a \in Nodes, b \in FlowIds : << a, b >> # << n, f >> => mailbox'[a][b] = mailbox[a][b]
      BY <1>2, <3>2, <3>3 DEF Inv, Boxed, box
    <3>5. ASSUME NEW a \in Nodes, NEW b \in FlowIds, NEW i \in DOMAIN mailbox'[a][b]
          PROVE  mailbox'[a][b][i] \in DOMAIN calls' /\ calls'[mailbox'[a][b][i]].handler # "none"
      <4>1. CASE a = n /\ b = f
        <5>1. mailbox'[a][b] = box
          BY <3>4, <4>1
        <5>2. box[i] = c \/ \E j \in DOMAIN mailbox[n][f] : box[i] = mailbox[n][f][j]
          BY <3>3, <3>5, <5>1
        <5>3. box[i] \in DOMAIN calls /\ (box[i] = c \/ calls[box[i]].handler # "none")
          BY <1>2, <5>2 DEF Inv, Boxed
        <5> QED
          BY <1>4, <1>7, <5>1, <5>3
      <4>2. CASE ~ (a = n /\ b = f)
        <5>1. mailbox'[a][b] = mailbox[a][b]
          BY <3>4, <4>2
        <5>2. mailbox[a][b][i] \in DOMAIN calls /\ calls[mailbox[a][b][i]].handler # "none"
          BY <3>5, <5>1 DEF Inv, Boxed
        <5> QED
          BY <1>4, <1>7, <5>1, <5>2
      <4> QED
        BY <4>1, <4>2
    <3> QED
      BY <3>4, <3>5 DEF Boxed
  <2> QED
    BY <2>1, <2>2 DEF forwardRequest
<1> QED
  BY <1>6, <1>8, <1>9 DEF Inv, Good, Sound, IsCall, Fields

\* A future that is given an answer leaves a good call.
LEMMA RespondGood ==
    ASSUME Inv, NEW c \in DOMAIN calls, NEW r, calls' = Respond(calls, c, r)
    PROVE  /\ \E S : calls' \in Seq(S)
           /\ DOMAIN calls' = DOMAIN calls
           /\ \A d \in DOMAIN calls : Good(calls'[d]) /\ calls'[d].handler = calls[d].handler
<1>1. PICK S : calls \in Seq(S)
  BY DEF Inv
<1>2. CASE calls[c].future # Nil
  BY <1>1, <1>2 DEF Inv, Respond
<1>3. CASE calls[c].future = Nil
  <2> DEFINE x == [calls[c] EXCEPT !.future = r]
  <2>1. Good(x) /\ x.handler = calls[c].handler
    BY DEF Inv, Good, IsCall, Fields, Sound
  <2>2. calls' = [calls EXCEPT ![c] = x]
    BY <1>1, <1>3 DEF Respond
  <2> HIDE DEF x
  <2>3. calls' \in Seq(S \union {x})
    BY <1>1, <2>2
  <2>4. /\ DOMAIN calls' = DOMAIN calls /\ calls'[c] = x
        /\ \A d \in DOMAIN calls : d # c => calls'[d] = calls[d]
    BY <1>1, <2>2
  <2> QED
    BY <2>1, <2>3, <2>4 DEF Inv
<1> QED
  BY <1>2, <1>3

\* The flow takes a command from its mailbox, and leaves the others there.
LEMMA receiveCommandInv ==
    ASSUME Inv, NEW n \in Nodes, NEW f \in FlowIds, receiveCommand(n, f)
    PROVE  Inv'
<1> DEFINE c == Head(mailbox[n][f])
<1>1. mailbox[n][f] \in Seq(Nat) /\ mailbox[n][f] # <<>>
  BY DEF Inv, Boxed, receiveCommand
<1>2. c \in DOMAIN calls
  <2>1. 1 \in DOMAIN mailbox[n][f] /\ c = mailbox[n][f][1]
    BY <1>1
  <2> QED
    BY <2>1 DEF Inv, Boxed
<1>3. calls' = calls \/ \E r : calls' = Respond(calls, c, r)
  BY DEF receiveCommand
<1>4. /\ \E S : calls' \in Seq(S)
      /\ DOMAIN calls' = DOMAIN calls
      /\ \A d \in DOMAIN calls : Good(calls'[d]) /\ calls'[d].handler = calls[d].handler
  <2>1. CASE calls' = calls
    BY <2>1 DEF Inv
  <2>2. CASE \E r : calls' = Respond(calls, c, r)
    BY <1>2, <2>2, RespondGood
  <2> QED
    BY <1>3, <2>1, <2>2
<1> DEFINE box == Tail(mailbox[n][f])
<1>5. mailbox' = [mailbox EXCEPT ![n][f] = box]
  BY DEF receiveCommand, Inv, Boxed
<1>6. box \in Seq(Nat) /\ \A i \in DOMAIN box : \E j \in DOMAIN mailbox[n][f] : box[i] = mailbox[n][f][j]
  <2>1. box \in Seq(Nat)
    BY <1>1
  <2>2. ASSUME NEW i \in DOMAIN box
        PROVE  i + 1 \in DOMAIN mailbox[n][f] /\ box[i] = mailbox[n][f][i + 1]
    BY <1>1, <2>2
  <2> QED
    BY <2>1, <2>2
<1> HIDE DEF box, c
<1>7. /\ mailbox' \in [Nodes -> [FlowIds -> Seq(Nat)]] /\ mailbox'[n][f] = box
      /\ \A a \in Nodes, b \in FlowIds : << a, b >> # << n, f >> => mailbox'[a][b] = mailbox[a][b]
  BY <1>5, <1>6 DEF Inv, Boxed
<1>8. ASSUME NEW a \in Nodes, NEW b \in FlowIds, NEW i \in DOMAIN mailbox'[a][b]
      PROVE  mailbox'[a][b][i] \in DOMAIN calls' /\ calls'[mailbox'[a][b][i]].handler # "none"
  <2>1. \E j \in DOMAIN mailbox[a][b] : mailbox'[a][b][i] = mailbox[a][b][j]
    <3>1. CASE a = n /\ b = f
      <4>1. mailbox'[a][b] = box
        BY <1>7, <3>1
      <4> QED
        BY <1>6, <1>8, <3>1, <4>1
    <3>2. CASE ~ (a = n /\ b = f)
      <4>1. mailbox'[a][b] = mailbox[a][b]
        BY <1>7, <3>2
      <4> QED
        BY <1>8, <4>1
    <3> QED
      BY <3>1, <3>2
  <2> QED
    BY <1>4, <2>1 DEF Inv, Boxed
<1>9. Boxed'
  BY <1>7, <1>8 DEF Boxed
<1>10. \A d \in DOMAIN calls' : Good(calls'[d])
  BY <1>4
<1> QED
  BY <1>4, <1>9, <1>10 DEF Inv, Good, Sound, IsCall, Fields

\* The continuation of AwaitStageResult answers a call.
LEMMA AwaitContinuesInv ==
    ASSUME Inv, NEW c \in DOMAIN calls, AwaitContinues(c)
    PROVE  Inv'
<1>1. mailbox' = mailbox /\ \E r : calls' = Respond(calls, c, r)
  BY DEF AwaitContinues
<1>2. /\ \E S : calls' \in Seq(S)
      /\ DOMAIN calls' = DOMAIN calls
      /\ \A d \in DOMAIN calls : Good(calls'[d]) /\ calls'[d].handler = calls[d].handler
  BY <1>1, RespondGood
<1>3. Boxed'
  BY <1>1, <1>2 DEF Inv, Boxed
<1>4. \A d \in DOMAIN calls' : Good(calls'[d])
  BY <1>2
<1> QED
  BY <1>2, <1>3, <1>4 DEF Inv, Good, Sound, IsCall, Fields

\* A node stops: its mailboxes are lost, and the calls it served end.
LEMMA StopNodeInv ==
    ASSUME Inv, NEW n \in Nodes, StopNode(n)
    PROVE  Inv'
<1> DEFINE Call(d) == IF n \in {calls[d].query.entry, calls[d].node}
                        THEN Answered(calls[d], Error("Unavailable")) ELSE calls[d]
<1> DEFINE Left(d) == IF calls[d].node = n /\ calls[d].handler \in {"sent", "waiting"}
                        THEN [Call(d) EXCEPT !.handler = "done"] ELSE Call(d)
<1>1. PICK S : calls \in Seq(S)
  BY DEF Inv
<1>2. calls' = [d \in DOMAIN calls |-> Left(d)]
  BY DEF StopNode, Disconnected
<1>3. ASSUME NEW d \in DOMAIN calls
      PROVE  Good(Left(d)) /\ (calls[d].handler # "none" => Left(d).handler # "none")
  <2>1. Good(calls[d])
    BY DEF Inv
  <2>2. Good(Call(d)) /\ Call(d).handler = calls[d].handler
    BY <2>1 DEF Answered, Good, IsCall, Fields, Sound
  <2> HIDE DEF Call
  <2>3. CASE calls[d].node = n /\ calls[d].handler \in {"sent", "waiting"}
    <3>1. Good([Call(d) EXCEPT !.handler = "done"]) /\ [Call(d) EXCEPT !.handler = "done"].handler = "done"
      BY <2>2, <2>3 DEF Good, IsCall, Fields, Sound
    <3> QED
      BY <2>3, <3>1
  <2>4. CASE ~ (calls[d].node = n /\ calls[d].handler \in {"sent", "waiting"})
    BY <2>2, <2>4
  <2> QED
    BY <2>3, <2>4
<1> HIDE DEF Left
<1> DEFINE T == {Left(d) : d \in DOMAIN calls}
<1>4. calls' \in Seq(T)
  <2>1. DOMAIN calls = 1..Len(calls) /\ Len(calls) \in Nat
    BY <1>1
  <2>2. \A d \in 1..Len(calls) : Left(d) \in T
    BY <2>1
  <2> HIDE DEF T
  <2>3. calls' \in [1..Len(calls) -> T]
    BY <1>2, <2>1, <2>2
  <2> QED
    BY <2>1, <2>3
<1>5. \A d \in DOMAIN calls' : Good(calls'[d])
  BY <1>2, <1>3
<1>6. Boxed'
  <2> DEFINE empty == [f \in FlowIds |-> <<>>]
  <2>1. empty \in [FlowIds -> Seq(Nat)]
    OBVIOUS
  <2>2. mailbox' = [mailbox EXCEPT ![n] = empty]
    BY DEF StopNode
  <2>3. \A f \in FlowIds : empty[f] = <<>>
    OBVIOUS
  <2> HIDE DEF empty
  <2>4. /\ mailbox' \in [Nodes -> [FlowIds -> Seq(Nat)]] /\ mailbox'[n] = empty
        /\ \A a \in Nodes : a # n => mailbox'[a] = mailbox[a]
    BY <2>1, <2>2 DEF Inv, Boxed
  <2>5. ASSUME NEW a \in Nodes, NEW f \in FlowIds, NEW i \in DOMAIN mailbox'[a][f]
        PROVE  mailbox'[a][f][i] \in DOMAIN calls' /\ calls'[mailbox'[a][f][i]].handler # "none"
    <3>1. a # n
      BY <2>3, <2>4, <2>5
    <3>2. mailbox'[a][f] = mailbox[a][f]
      BY <2>4, <3>1
    <3> QED
      BY <1>2, <1>3, <2>5, <3>2 DEF Inv, Boxed
  <2> QED
    BY <2>4, <2>5 DEF Boxed
<1> QED
  BY <1>4, <1>5, <1>6 DEF Inv, Good, Sound, IsCall, Fields

-----------------------------------------------------------------------------
(***************************************************************************)
(* The theorems.                                                           *)
(***************************************************************************)
\* At the start there are no calls, and the mailboxes are empty.
LEMMA InitInv == Init => Inv
<1> SUFFICES ASSUME Init PROVE Inv
  OBVIOUS
<1>1. calls = <<>> /\ DOMAIN calls = {} /\ calls \in Seq({})
  BY DEF Init
<1>2. Boxed
  <2>1. mailbox \in [Nodes -> [FlowIds -> Seq(Nat)]] /\ \A n \in Nodes, f \in FlowIds : mailbox[n][f] = <<>>
    BY DEF Init
  <2> QED
    BY <2>1 DEF Boxed
<1> QED
  BY <1>1, <1>2 DEF Inv

\* Every step keeps the invariant.
LEMMA NextInv == Inv /\ [Next]_vars => Inv'
<1> SUFFICES ASSUME Inv, [Next]_vars PROVE Inv'
  OBVIOUS
<1>1. ASSUME NEW c \in DOMAIN calls, CallStep(c) PROVE Inv'
  <2>1. CASE ReturnPanics(c)
    <3>1. calls[c].node \in Nodes
      BY <2>1, OneOwner DEF ReturnPanics, Inv, Good, Sound
    <3> QED
      BY <2>1, <3>1, StopNodeInv DEF ReturnPanics
  <2> QED
    BY <1>1, <2>1, RefuseInv, NoClientInv, ProxyInv, forwardRequestInv, AwaitContinuesInv,
       RequestTimeoutInv, ReturnInv DEF CallStep
<1>2. ASSUME NEW n \in Nodes, Crash(n) PROVE Inv'
  BY <1>2, StopNodeInv DEF Crash
<1>3. ASSUME NEW n \in Nodes, Restart(n) PROVE Inv'
  BY <1>3 DEF Restart, Inv, Boxed, Good, Sound, IsCall, Fields
<1>4. ASSUME NEW f \in FlowIds, NEW i \in DOMAIN graphs[f].stages, StageCompletes(f, i) PROVE Inv'
  BY <1>4 DEF StageCompletes, Inv, Boxed, Good, Sound, IsCall, Fields
<1>5. CASE UNCHANGED vars
  BY <1>5 DEF vars, Inv, Boxed, Good, Sound, IsCall, Fields
<1> QED
  BY <1>1, <1>2, <1>3, <1>4, <1>5, ClientCallsInv, DeadlineInv, receiveCommandInv DEF Next

\* However nodes, shards, flows and calls are many, and nodes crash: every
\* request that a node serves is served by the one node that runs a
\* supervisor for the flow's shard.
THEOREM RequestsReachTheOwner == Spec => []RoutedToOwner
<1>1. Inv => RoutedToOwner
  BY OneOwner DEF Inv, Good, Sound, RoutedToOwner, InService
<1> QED
  BY <1>1, InitInv, NextInv, PTL DEF Spec

\* No command in a mailbox lacks a part that is dereferenced there without a
\* check, though the internal service does not validate what it is sent.
THEOREM CommandsAreWhole == Spec => []NoNilCommands
<1>1. Inv => NoNilCommands
  BY DEF Inv, Boxed, Good, Sound, Whole, NoNilCommands
<1> QED
  BY <1>1, InitInv, NextInv, PTL DEF Spec

=============================================================================
