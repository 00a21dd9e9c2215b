----------------------------- MODULE MCExecutionTree -----------------------------
(* A condition branches to a subworkflow s or past it.  s calls k, which fails since *)
(* all below it is too deep, goes on along an error edge and iterates over j1 and j2. *)
(* The root's own iterator over i1 and i2 is last and goes on after errors.  Five     *)
(* steps are one too few for the root's first attempt and just enough for a second    *)
(* one that finds i1 done.                                                            *)
EXTENDS ExecutionTree

CONSTANTS root, s, i1, i2, j1, j2, k, y, z
MCRuns == {root, s, i1, i2, j1, j2, k, y, z}

Plain(kind, routes) ==
    [kind |-> kind, children |-> <<>>, continueOnError |-> FALSE, routes |-> routes, handler |-> {}]
Over(items, lenient, next) ==
    [kind |-> "iterator", children |-> items, continueOnError |-> lenient, routes |-> {next},
     handler |-> {}]
Calls(child, next, handler) ==
    [kind |-> "subworkflow", children |-> <<child>>, continueOnError |-> FALSE,
     routes |-> {next}, handler |-> handler]

MCPlan == [r \in MCRuns |->
    CASE r = root -> <<Plain("logic", {{2}, {3}}), Calls(s, {3}, {}), Over(<<i1, i2>>, TRUE, {})>>
      [] r = s -> <<Calls(k, {}, {2}), Over(<<j1, j2>>, FALSE, {})>>
      [] r = i2 -> <<Plain("action", {{2}}), Plain("action", {{}})>>
      [] r = k -> <<Over(<<z>>, TRUE, {2}), Calls(y, {}, {})>>
      [] OTHER -> <<Plain("action", {{}})>>]
==================================================================================
