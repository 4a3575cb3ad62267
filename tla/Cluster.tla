-------------------------------- MODULE Cluster --------------------------------
(***************************************************************************)
(* Who serves a flow: sharding (sharding/sharding.go), the assignment of   *)
(* shards to nodes and the routing of requests (cluster/cluster.go), and   *)
(* the settings they start from (setup/setup.go).  All nodes are given the *)
(* same settings, except their own number.                                 *)
(***************************************************************************)
EXTENDS Integers

CONSTANTS
    Env,      \* the cluster settings of the environment; 0 when a variable is not set
    FlowIds,  \* flow identifiers that parse as a UUID
    Fold      \* the 64-bit value of each: its two halves, XORed

ASSUME ClusterAssumption ==
    /\ Env \in [nodeCount : Nat, shardCount : Nat]
    /\ Fold \in [FlowIds -> Nat]

Unset == 0

\* setDefaultConfig of InitFromEnv.
configDefaults == [nodeCount |-> 1, shardCount |-> 1]

\* getStringConfig: the default when the variable is empty.
getIntConfig(key) == IF Env[key] # Unset THEN Env[key] ELSE configDefaults[key]

NodeCount == getIntConfig("nodeCount")

\* InitFromEnv: ten shards a node when the configuration has none, which the
\* default does not let happen.
ShardCount ==
    IF getIntConfig("shardCount") = Unset THEN 10 * NodeCount ELSE getIntConfig("shardCount")

Nodes == 0..(NodeCount - 1)

Shards == 0..(ShardCount - 1)

\* The extractor: ShardID of an identifier that parses.
ShardID(f) == Fold[f] % ShardCount

LocalShards_Blocks(n) == {s \in Shards : s \div ((ShardCount + NodeCount - 1) \div NodeCount) = n}

\* The shards a node's manager spawns supervisors for.
LocalShards(n) == {s \in Shards : s % NodeCount = n}

\* The node that a flow's requests are sent to, computed alike on every node.
resolveNode(f) == ShardID(f) % NodeCount

\* GetClient: the proxies are kept by the name of the node.
GetClient(f) == resolveNode(f)

=============================================================================
