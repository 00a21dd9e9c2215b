--------------------------- MODULE MCWorkflowActivation ---------------------------
(* Two users and the renewer on a workflow that can be saved with a push trigger   *)
(* at one node or at another.                                                       *)
EXTENDS WorkflowActivation, TLC

CONSTANTS u1, u2, r, c1, c2
MCUsers == {u1, u2}
MCRenewers == {r}
MCChannels == {c1, c2}
MCSymmetry == Permutations(MCUsers) \union Permutations(MCChannels)
MCNode == [d \in Definitions |-> IF d = "a" THEN "n" ELSE "m"]
MCMixed == [d \in Definitions |-> IF d = "a" THEN "gmail" ELSE "onedrive"]
MCDrive == [d \in Definitions |-> "drive"]
==================================================================================
