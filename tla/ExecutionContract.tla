---------------------------- MODULE ExecutionContract ----------------------------
(* What one execution promises to those who only see its row, its recorded steps *)
(* and its completed event: the abstract specification ExecutionEngine refines.  *)
(* Nothing is promised about an execution whose job was delivered twice.         *)
CONSTANT Actions   \* the nodes with an external side effect

VARIABLES
    status,     \* WorkflowExecution.status
    recorded,   \* actions whose success a later attempt reuses
    told,       \* statuses subscribers were told
    disturbed   \* a worker lost the job's lock

cvars == <<status, recorded, told, disturbed>>

Open == {"PENDING", "RUNNING"}
Final == {"SUCCESS", "FAILED"}

CInit ==
    /\ status = "PENDING" /\ recorded = {} /\ told = {}
    /\ disturbed = FALSE

\* An attempt begins; a retry finds the row RUNNING.
Begin ==
    /\ status \in Open /\ status' = "RUNNING"
    /\ UNCHANGED <<recorded, told, disturbed>>

\* An action succeeds for the first and only time.
Succeed(n) ==
    /\ status = "RUNNING" /\ n \notin recorded
    /\ recorded' = recorded \union {n}
    /\ UNCHANGED <<status, told, disturbed>>

\* The row is settled once; without having run it can only fail.
Settle(s) ==
    /\ status = "RUNNING" \/ (status = "PENDING" /\ s = "FAILED")
    /\ status' = s
    /\ UNCHANGED <<recorded, told, disturbed>>

Tell ==
    /\ status \in Final /\ told = {}
    /\ told' = {status}
    /\ UNCHANGED <<status, recorded, disturbed>>

Disturb == disturbed' = TRUE /\ UNCHANGED <<status, recorded, told>>

Disturbed == disturbed /\ disturbed'

CNext ==
    \/ Begin \/ (\E n \in Actions : Succeed(n)) \/ (\E s \in Final : Settle(s)) \/ Tell
    \/ Disturb \/ Disturbed

ContractSpec == CInit /\ [][CNext]_cvars
==================================================================================
