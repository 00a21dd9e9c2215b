--------------------------- MODULE MCExecutionEngine ---------------------------
(* A trigger, an action with an error handler, and a conditional that routes    *)
(* around the handler's side effect.                                            *)
EXTENDS ExecutionEngine

E(s, t, k, h) == [source |-> s, target |-> t, kind |-> k, handle |-> h]
MCEdges == {E(1, 2, "success", "none"), E(2, 3, "error", "none"),
            E(2, 4, "success", "none"), E(3, 4, "success", "none"),
            E(4, 5, "success", "true")}
=================================================================================
