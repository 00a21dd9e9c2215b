------------------------------ MODULE WorkflowGraph ------------------------------
(* A workflow definition as the runner sees it, and the routing rules of        *)
(* apps/worker/src/engine/runner-helpers.ts.  Nodes are numbered in the order   *)
(* topologicalSort returns, so node 1 is the only root, the trigger.            *)
EXTENDS Naturals

CONSTANTS
    N,            \* number of executable nodes (sticky notes are dropped before)
    Edges,        \* edges of the definition
    ActionNodes,  \* nodes whose executor has category ACTION: external side effects
    SkippedNodes  \* nodes with skipped = true (never the trigger)

Nodes == 1 .. N

\* "none" is an absent sourceHandle, and the metadata.branch of every executor but
\* the conditional's.
Handles == {"none", "true", "false"}
Edge == [source : Nodes, target : Nodes, kind : {"success", "error"}, handle : Handles]

StepStatus == {"RUNNING", "SUCCESS", "FAILED", "CANCELLED", "SKIPPED"}

\* What topologicalSort accepts: one root and no cycle.
ASSUME GraphAssumption ==
    /\ N \in Nat \ {0}
    /\ Edges \subseteq Edge
    /\ \A e \in Edges : e.source < e.target
    /\ \A n \in Nodes \ {1} : \E e \in Edges : e.target = n
    /\ ActionNodes \subseteq Nodes
    /\ SkippedNodes \subseteq Nodes \ {1}

Incoming(n) == {e \in Edges : e.target = n}
Outgoing(n) == {e \in Edges : e.source = n}
HasErrorEdge(n) == \E e \in Outgoing(n) : e.kind = "error"

\* The branches an executor can choose: only the conditional, a logic node, sets one.
Branches(n) ==
    IF n \in ActionNodes \/ \A e \in Outgoing(n) : e.handle = "none"
    THEN {"none"} ELSE {"true", "false"}

\* propagateReachability: the targets that n's outcome adds to the reachable set.
Propagate(n, outcome, branch) ==
    {e.target : e \in {x \in Outgoing(n) :
        x.kind = outcome /\ (outcome = "error" \/ x.handle \in {"none", branch})}}

\* classifyUnreached: why a node that nothing reached did not run.
Classify(n, verdict) ==
    IF \E e \in Incoming(n) :
          e.kind = "error" \/ verdict[e.source] \in {"FAILED", "CANCELLED"}
    THEN "CANCELLED" ELSE "SKIPPED"
==================================================================================
