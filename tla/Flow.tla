-------------------------------- MODULE Flow --------------------------------
(***************************************************************************)
(* What a flow promises its clients, failures or not.  A flow is open      *)
(* until its creator commits it; it begins to terminate when no regular    *)
(* stage is pending, then only the termination hooks are left, and it is   *)
(* completed when they are done.  A stage has at most one outcome, forever.*)
(* Nothing here mentions actors, journals, crashes or replays.             *)
(***************************************************************************)
EXTENDS StageStrategy

VARIABLES
    phase,     \* where the flow is in its life
    kind,      \* the stages so far: each "main" or "hook"
    outcome    \* the result of each stage, NoResult while there is none

flowVars == << phase, kind, outcome >>

FlowInit == phase = "none" /\ kind = <<>> /\ outcome = <<>>

Resolved(k) == \A s \in DOMAIN kind : kind[s] = k => IsResolved(outcome[s])

Create ==
    /\ phase = "none" /\ phase' = "initial"
    /\ UNCHANGED << kind, outcome >>

Add(k) ==
    /\ phase \in {"initial", "committed"}
    /\ kind' = Append(kind, k)
    /\ outcome' = Append(outcome, NoResult)
    /\ UNCHANGED phase

Complete(s) ==
    /\ phase # "none"
    /\ ~ IsResolved(outcome[s])
    /\ IsResolved(outcome'[s])
    /\ outcome' = [outcome EXCEPT ![s] = outcome'[s]]
    /\ UNCHANGED << phase, kind >>

Commit ==
    /\ phase = "initial" /\ phase' = "committed"
    /\ UNCHANGED << kind, outcome >>

Terminate ==
    /\ phase = "committed" /\ Resolved("main")
    /\ phase' = "terminating"
    /\ UNCHANGED << kind, outcome >>

Finish ==
    /\ phase = "terminating" /\ Resolved("main") /\ Resolved("hook")
    /\ phase' = "completed"
    /\ UNCHANGED << kind, outcome >>

FlowNext ==
    \/ Create \/ Commit \/ Terminate \/ Finish
    \/ \E k \in {"main", "hook"} : Add(k)
    \/ \E s \in DOMAIN outcome : Complete(s)

FlowSpec == FlowInit /\ [][FlowNext]_flowVars
=============================================================================
