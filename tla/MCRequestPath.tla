----------------------------- MODULE MCRequestPath -----------------------------
(***************************************************************************)
(* An instance of RequestPath: two nodes, three shards, three flows, and   *)
(* for every request a well-formed one and ones with a single defect.      *)
(***************************************************************************)
EXTENDS RequestPath, Bitwise

MCEnv == [nodeCount |-> 2, shardCount |-> 3]

MCFlowIds == {"f1", "f2", "f3"}

\* The two halves of each identifier, 4 bits for the 64 of a UUID.
Halves == [f1 |-> << 5, 6 >>, f2 |-> << 8, 2 >>, f3 |-> << 4, 1 >>]

MCFold == [f \in MCFlowIds |-> Halves[f][1] ^^ Halves[f][2]]

MCFlowNames == MCFlowIds \union {"", "not-a-uuid"}

MCStageIDs == << "0", "1", "2", "3" >>

MCStageNames == {"", "none", "0", "1", "2", "3"}

MCOpNames == {"unknown", "supply", "thenApply", "terminationHook", "externalCompletion"}

blob == [blob_id |-> "x", content_type |-> "x", length |-> 1]

good == [successful |-> TRUE, datum |-> [val |-> "blob", blob |-> blob]]

value(d) == [good EXCEPT !.datum = d]

complete == [type |-> "CompleteStageExternally", flow_id |-> "f1", stage_id |-> "0", value |-> good]

addStage == [type |-> "AddStage", flow_id |-> "f1", operation |-> "thenApply", closure |-> blob,
             deps |-> << "0" >>]

addValue == [type |-> "AddValueStage", flow_id |-> "f1", value |-> good]

await == [type |-> "AwaitStageResult", flow_id |-> "f1", stage_id |-> "0", timeout_ms |-> 0]

Wellformed ==
    { [type |-> "CreateGraph", flow_id |-> "", function_id |-> "fn"], complete, addStage,
      await, [await EXCEPT !.stage_id = "1"],
      [type |-> "Commit", flow_id |-> "f1"],
      [type |-> "GetGraphState", flow_id |-> "f1"], [type |-> "GetGraphState", flow_id |-> "f2"] }

Defective ==
    { [complete EXCEPT !.value = value(Nil)], [complete EXCEPT !.stage_id = "none"],
      [complete EXCEPT !.flow_id = "not-a-uuid"],
      [addValue EXCEPT !.value = value([val |-> "unset"])],
      [type |-> "AddInvokeFunction", flow_id |-> "f1", function_id |-> "fn", arg |-> Nil],
      [addStage EXCEPT !.operation = "unknown"] }

\* f1 belongs to node 0, f2 to node 1.
Query1(n, via, m) == [entry |-> n, via |-> via, body |-> m, flow |-> "f1", stage |-> "1"]

MCQueries ==
    {Query1(1, "grpc", m) : m \in Wellformed \union Defective}
        \union { Query1(0, "rest", [addValue EXCEPT !.flow_id = "f2"]),
                 Query1(1, "rest", complete),
                 Query1(1, "rest", Nil) }

=============================================================================
