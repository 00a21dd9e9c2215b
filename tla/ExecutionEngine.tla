----------------------------- MODULE ExecutionEngine -----------------------------
(* One execution of a workflow, from the job waiting in the BullMQ queue         *)
(* "workflow-execution" to a settled WorkflowExecution row: WorkflowProcessor,   *)
(* EngineService.execute, WorkflowRunner with its step-level resume, the failed  *)
(* event's handler and the dead-letter queue.  A run is one activation of the    *)
(* processor for this job; a run whose lock BullMQ took away keeps executing     *)
(* next to the run that replaced it, or has died and takes no more steps.        *)
EXTENDS WorkflowGraph

CONSTANTS
    Attempts,   \* job.opts.attempts
    MaxStalls   \* BullMQ's maxStalledCount: stalls it forgives

ASSUME QueueAssumption == Attempts \in Nat \ {0} /\ MaxStalls \in Nat

\* Every activation is ended by a failed attempt or by a stall.
Runs == 1 .. (Attempts + MaxStalls + 1)

VARIABLES
    dryRun,    \* isDryRun of the job's payload
    job,       \* the BullMQ job
    row,       \* WorkflowExecution.status
    announced, \* statuses published as execution.completed
    dlq,       \* records in workflow-execution-dlq
    steps,     \* status of the ExecutionStep a run created for a node
    run,       \* what each activation holds in memory
    fired,     \* the runs whose external side effect of a node has landed
    late,      \* abandoned executors whose side effect may still land
    lost,      \* side effects no SUCCESS step will record
    unmarked   \* the failed event's handler did not get to its end

vars == <<dryRun, job, row, announced, dlq, steps, run, fired, late, lost, unmarked>>

JobStates == {"waiting", "active", "completed", "failed"}
Terminal == {"SUCCESS", "FAILED"}
StepKeys == Nodes \X Runs
HandlerPoints == {"mark", "obituary", "bin"}
Points == HandlerPoints \union
          {"idle", "open", "load", "purge", "loop", "exec", "save", "fail", "close",
           "bury", "announce", "return", "throw", "doomed", "halt"}

RunState == [pc      : Points,
             idx     : 1 .. (N + 1),          \* position in the topological order
             keep    : SUBSET StepKeys,       \* keepStepIds of loadResumableOutputs
             reach   : SUBSET Nodes,          \* reachable
             verdict : [Nodes -> StepStatus \union {"none"}],   \* statusByNode
             failed  : BOOLEAN,               \* getFailure() # null
             result  : {"none"} \union Terminal]

TypeOK ==
    /\ dryRun \in BOOLEAN
    /\ job \in [state : JobStates, attemptsMade : 0 .. Attempts,
                stalls : 0 .. (MaxStalls + 1), holder : Runs \union {0}]
    /\ row \in {"PENDING", "RUNNING"} \union Terminal
    /\ announced \subseteq Terminal
    /\ dlq \in Nat
    /\ steps \in [StepKeys -> StepStatus \union {"none"}]
    /\ run \in [Runs -> RunState]
    /\ fired \in [Nodes -> SUBSET Runs]
    /\ late \subseteq StepKeys
    /\ lost \subseteq StepKeys
    /\ unmarked \in BOOLEAN

NewRun == [pc |-> "idle", idx |-> 1, keep |-> {}, reach |-> {1},
           verdict |-> [n \in Nodes |-> "none"], failed |-> FALSE, result |-> "none"]

\* The row is created and the job added, which the ingestion modules cover.
Init ==
    /\ dryRun \in BOOLEAN
    /\ job = [state |-> "waiting", attemptsMade |-> 0, stalls |-> 0, holder |-> 0]
    /\ row = "PENDING"
    /\ announced = {}
    /\ dlq = 0
    /\ steps = [k \in StepKeys |-> "none"]
    /\ run = [r \in Runs |-> NewRun]
    /\ fired = [n \in Nodes |-> {}]
    /\ late = {}
    /\ lost = {}
    /\ unmarked = FALSE

----------------------------------------------------------------------------------
(* Shorthands for the actions of a run r.                                         *)

At(r, point) == run[r].pc = point
Goto(r, point) == run' = [run EXCEPT ![r].pc = point]
\* The runner is through, and what it held in memory is gone.
Leave(r, point, result) ==
    run' = [run EXCEPT ![r] = [NewRun EXCEPT !.pc = point, !.result = result]]

\* Where an exception of the runner takes EngineService.execute.
Thrown == IF dryRun THEN "bury" ELSE "throw"

\* The loop's current node, and the end of its iteration.
Current(r) == run[r].idx
InLoop(r) == At(r, "loop") /\ Current(r) \in Nodes
AdvanceTwice(r, status, targets) ==
    run' = [run EXCEPT ![r] = [run[r] EXCEPT !.pc = "loop", !.idx = run[r].idx + 2]]
Advance(r, status, targets) ==
    run' = [run EXCEPT ![r] =
              [run[r] EXCEPT !.pc = "loop",
                             !.idx = run[r].idx + 1,
                             !.verdict = [run[r].verdict EXCEPT ![run[r].idx] = status],
                             !.reach = run[r].reach \union targets]]

Record(r, status) == steps' = [steps EXCEPT ![<<Current(r), r>>] = status]
\* Prisma's update throws when the row it names has been deleted.
RowExists(r) == steps[<<Current(r), r>>] # "none"

\* loadResumableOutputs keeps the steps it will reuse and drops all others.
KeptStepsNone == {}
KeptStepsAnyStatus == {k \in StepKeys : k[1] \in ActionNodes /\ steps[k] # "none"}
KeptSteps == {k \in StepKeys : k[1] \in ActionNodes /\ steps[k] = "SUCCESS"}
Reused(r) == {n \in Nodes : \E q \in Runs : <<n, q>> \in run[r].keep}

\* BullMQ retries while attemptsMade is below opts.attempts.
GivesUp(made) == made >= Attempts

\* onFailed and publishFailed: job.attemptsMade >= attemptsAllowed.
ExhaustedOffByOne(made) == made > Attempts
Exhausted(made) == made >= Attempts

HasSideEffect(n) == n \in ActionNodes /\ ~dryRun

----------------------------------------------------------------------------------
(* The queue: activation, stalls, and how an activation ends.                     *)

\* BullMQ hands the job to a worker.  After too many stalls the activation only fails.
Take(r) ==
    /\ job.state = "waiting"
    /\ r = job.attemptsMade + job.stalls + 1
    /\ job' = [job EXCEPT !.state = "active", !.holder = r]
    /\ Goto(r, IF job.stalls > MaxStalls THEN "doomed" ELSE "open")
    /\ UNCHANGED <<dryRun, row, announced, dlq, steps, fired, late, lost, unmarked>>

\* The lock was not renewed in time: BullMQ moves the job back to the wait list.
LoseLock(r) ==
    /\ job.state = "active" /\ job.holder = r
    /\ job.stalls <= MaxStalls
    /\ job' = [job EXCEPT !.state = "waiting", !.holder = 0, !.stalls = @ + 1]
    /\ UNCHANGED <<dryRun, row, announced, dlq, steps, run, fired, late, lost, unmarked>>

\* process() returned.  Without the lock BullMQ refuses to move the job.
Complete(r) ==
    /\ At(r, "return")
    /\ IF job.holder = r
       THEN job' = [job EXCEPT !.state = "completed", !.holder = 0]
       ELSE UNCHANGED job
    /\ Leave(r, "halt", "none")
    /\ UNCHANGED <<dryRun, row, announced, dlq, steps, fired, late, lost, unmarked>>

\* process() threw: another attempt, or failed for good and onFailed has work to do.
FailAttempt(r) ==
    /\ At(r, "throw")
    /\ LET made == job.attemptsMade + 1 IN
       IF job.holder # r
       THEN UNCHANGED job /\ Leave(r, "halt", "none")
       ELSE /\ job' = [job EXCEPT !.attemptsMade = made, !.holder = 0,
                                  !.state = IF GivesUp(made) THEN "failed" ELSE "waiting"]
            /\ Leave(r, IF Exhausted(made) THEN "mark" ELSE "halt", "none")
    /\ UNCHANGED <<dryRun, row, announced, dlq, steps, fired, late, lost, unmarked>>

\* A job that stalled too often fails without another attempt; onFailed then acts
\* only if that attempt was the last one as well.
FailStalled(r) ==
    /\ At(r, "doomed")
    /\ LET made == job.attemptsMade + 1 IN
       /\ job' = [job EXCEPT !.state = "failed", !.attemptsMade = made, !.holder = 0]
       /\ Leave(r, IF Exhausted(made) THEN "mark" ELSE "halt", "none")
    /\ UNCHANGED <<dryRun, row, announced, dlq, steps, fired, late, lost, unmarked>>

----------------------------------------------------------------------------------
(* EngineService.execute.                                                         *)

Open(r) ==
    /\ At(r, "open")
    /\ row' = "RUNNING"
    /\ Goto(r, "load")
    /\ UNCHANGED <<dryRun, job, announced, dlq, steps, fired, late, lost, unmarked>>

WorkflowNotFound(r) ==
    /\ At(r, "open")
    /\ Leave(r, "bury", "none")
    /\ UNCHANGED <<dryRun, job, row, announced, dlq, steps, fired, late, lost, unmarked>>

\* Recursion limit, invalid topology or unknown node type in the definition as it is
\* saved now: FAILED and not retryable.
RejectDefinition(r) ==
    /\ At(r, "load")
    /\ Leave(r, "close", "FAILED")
    /\ UNCHANGED <<dryRun, job, row, announced, dlq, steps, fired, late, lost, unmarked>>

\* The runner returned: SUCCESS, or a failure that is retried unless this is a dry run.
RunnerReturns(r) ==
    /\ At(r, "loop") /\ Current(r) = N + 1
    /\ IF run[r].failed /\ ~dryRun
       THEN Leave(r, "throw", "none")
       ELSE Leave(r, "close", IF run[r].failed THEN "FAILED" ELSE "SUCCESS")
    /\ UNCHANGED <<dryRun, job, row, announced, dlq, steps, fired, late, lost, unmarked>>

Close(r) ==
    /\ At(r, "close")
    /\ row' = run[r].result
    /\ Goto(r, "announce")
    /\ UNCHANGED <<dryRun, job, announced, dlq, steps, fired, late, lost, unmarked>>

\* markFailed outside the normal path: missing workflow, or a dry run that crashed.
Bury(r) ==
    /\ At(r, "bury")
    /\ row' = "FAILED"
    /\ Leave(r, "announce", "FAILED")
    /\ UNCHANGED <<dryRun, job, announced, dlq, steps, fired, late, lost, unmarked>>

\* publishExecutionCompleted, after the engine's own write or after markFailed.
Announce(r) ==
    /\ \/ /\ At(r, "announce")
          /\ announced' = announced \union {run[r].result}
          /\ Leave(r, "return", "none")
       \/ /\ At(r, "obituary")
          /\ announced' = announced \union {"FAILED"}
          /\ Goto(r, "bin")
    /\ UNCHANGED <<dryRun, job, row, dlq, steps, fired, late, lost, unmarked>>

----------------------------------------------------------------------------------
(* WorkflowRunner: resume, then one iteration of the loop per node.               *)

\* loadResumableOutputs, its read: the steps to reuse.  With no prior step at all it
\* returns before the delete.
LoadSteps(r) ==
    /\ At(r, "load")
    /\ run' = [run EXCEPT ![r] =
          [run[r] EXCEPT !.keep = KeptSteps,
                         !.pc = IF \A k \in StepKeys : steps[k] = "none"
                                THEN "loop" ELSE "purge"]]
    /\ UNCHANGED <<dryRun, job, row, announced, dlq, steps, fired, late, lost, unmarked>>

\* loadResumableOutputs, its delete: every step of the execution but those read above.
Purge(r) ==
    /\ At(r, "purge")
    /\ steps' = [k \in StepKeys |-> IF k \in run[r].keep THEN steps[k] ELSE "none"]
    /\ Goto(r, "loop")
    /\ UNCHANGED <<dryRun, job, row, announced, dlq, fired, late, lost, unmarked>>

\* A node that does not run: after a hard failure, or because nothing reached it.
RecordNotRun(r) ==
    LET n == Current(r)
        status == IF run[r].failed THEN "CANCELLED" ELSE Classify(n, run[r].verdict)
    IN  /\ InLoop(r)
        /\ run[r].failed \/ n \notin run[r].reach
        /\ Record(r, status)
        /\ Advance(r, status, {})
        /\ UNCHANGED <<dryRun, job, row, announced, dlq, fired, late, lost, unmarked>>

MayRun(r) == InLoop(r) /\ ~run[r].failed /\ Current(r) \in run[r].reach

\* The node's recorded output stands in for running it again.
Reuse(r) ==
    /\ MayRun(r) /\ Current(r) \in Reused(r)
    /\ Advance(r, "SUCCESS", Propagate(Current(r), "success", "none"))
    /\ UNCHANGED <<dryRun, job, row, announced, dlq, steps, fired, late, lost, unmarked>>

\* recordSkipped: a node the user switched off passes its input on.
PassThrough(r) ==
    /\ MayRun(r) /\ Current(r) \notin Reused(r) /\ Current(r) \in SkippedNodes
    /\ Record(r, "SKIPPED")
    /\ Advance(r, "SKIPPED", Propagate(Current(r), "success", "none"))
    /\ UNCHANGED <<dryRun, job, row, announced, dlq, fired, late, lost, unmarked>>

StartNode(r) ==
    /\ MayRun(r) /\ Current(r) \notin Reused(r) /\ Current(r) \notin SkippedNodes
    /\ Record(r, "RUNNING")
    /\ Goto(r, "exec")
    /\ UNCHANGED <<dryRun, job, row, announced, dlq, fired, late, lost, unmarked>>

\* The executor returned in time.
ExecutorReturns(r) ==
    LET n == Current(r) IN
    /\ At(r, "exec")
    /\ fired' = IF HasSideEffect(n) THEN [fired EXCEPT ![n] = @ \union {r}] ELSE fired
    /\ Goto(r, "save")
    /\ UNCHANGED <<dryRun, job, row, announced, dlq, steps, late, lost, unmarked>>

\* It threw, before its side effect or (landed) after it.
ExecutorThrows(r, landed) ==
    LET n == Current(r) IN
    /\ At(r, "exec")
    /\ landed => HasSideEffect(n)
    /\ fired' = IF landed THEN [fired EXCEPT ![n] = @ \union {r}] ELSE fired
    /\ lost' = IF landed THEN lost \union {<<n, r>>} ELSE lost
    /\ Goto(r, "fail")
    /\ UNCHANGED <<dryRun, job, row, announced, dlq, steps, late, unmarked>>

\* withNodeTimeout gave up on it; the abandoned work goes on.
ExecutorTimesOut(r) ==
    LET n == Current(r) IN
    /\ At(r, "exec")
    /\ IF HasSideEffect(n)
       THEN late' = late \union {<<n, r>>} /\ lost' = lost \union {<<n, r>>}
       ELSE UNCHANGED <<late, lost>>
    /\ Goto(r, "fail")
    /\ UNCHANGED <<dryRun, job, row, announced, dlq, steps, fired, unmarked>>

LateEffect(n, r) ==
    /\ <<n, r>> \in late
    /\ fired' = [fired EXCEPT ![n] = @ \union {r}]
    /\ late' = late \ {<<n, r>>}
    /\ UNCHANGED <<dryRun, job, row, announced, dlq, steps, run, lost, unmarked>>

\* The step becomes SUCCESS and the node's success edges are followed.
SaveStep(r, branch) ==
    LET n == Current(r) IN
    /\ At(r, "save") /\ RowExists(r)
    /\ branch \in Branches(n)
    /\ Record(r, "SUCCESS")
    /\ Advance(r, "SUCCESS", Propagate(n, "success", branch))
    /\ UNCHANGED <<dryRun, job, row, announced, dlq, fired, late, lost, unmarked>>

\* That write threw, on a database error or a deleted row: the catch clause treats a
\* node that succeeded as one that failed.
SaveStepThrows(r) ==
    LET n == Current(r) IN
    /\ At(r, "save")
    /\ lost' = IF HasSideEffect(n) THEN lost \union {<<n, r>>} ELSE lost
    /\ Goto(r, "fail")
    /\ UNCHANGED <<dryRun, job, row, announced, dlq, steps, fired, late, unmarked>>

\* The catch clause: route the error along the error edges or fail the run.
FailStep(r) ==
    LET n == Current(r) IN
    /\ At(r, "fail") /\ RowExists(r)
    /\ Record(r, "FAILED")
    /\ IF HasErrorEdge(n)
       THEN Advance(r, "FAILED", Propagate(n, "error", "none"))
       ELSE run' = [run EXCEPT ![r] =
              [run[r] EXCEPT !.pc = "loop", !.idx = n + 1, !.failed = TRUE,
                             !.verdict = [run[r].verdict EXCEPT ![n] = "FAILED"]]]
    /\ UNCHANGED <<dryRun, job, row, announced, dlq, fired, late, lost, unmarked>>

----------------------------------------------------------------------------------
(* Database errors, and the failed event's handler.                               *)

\* A statement outside execute's try, or inside its catch, throws to the processor.
DbErrorOutside(r) ==
    /\ At(r, "open") \/ At(r, "bury")
    /\ Leave(r, "throw", "none")
    /\ UNCHANGED <<dryRun, job, row, announced, dlq, steps, fired, late, lost, unmarked>>

\* A statement inside its try.  A step whose row is gone always ends here.
DbErrorInside(r) ==
    /\ \/ run[r].pc \in {"load", "purge", "fail", "close"}
       \/ InLoop(r) /\ ~(MayRun(r) /\ Current(r) \in Reused(r))
    /\ Leave(r, Thrown, "none")
    /\ UNCHANGED <<dryRun, job, row, announced, dlq, steps, fired, late, lost, unmarked>>

\* onFailed after the last attempt: failExecution, whose error is only logged.
MarkFailed(r) ==
    /\ At(r, "mark")
    /\ \/ row' = "FAILED" /\ Goto(r, "obituary") /\ UNCHANGED unmarked
       \/ unmarked' = TRUE /\ Goto(r, "bin") /\ UNCHANGED row
    /\ UNCHANGED <<dryRun, job, announced, dlq, steps, fired, late, lost>>

PublishFailed(r) ==
    /\ At(r, "bin")
    /\ dlq' = dlq + 1
    /\ Leave(r, "halt", "none")
    /\ UNCHANGED <<dryRun, job, row, announced, steps, fired, late, lost, unmarked>>

\* The worker dies, or the queue refuses the record, before the handler is through.
HandlerCut(r) ==
    /\ run[r].pc \in HandlerPoints
    /\ unmarked' = TRUE
    /\ Leave(r, "halt", "none")
    /\ UNCHANGED <<dryRun, job, row, announced, dlq, steps, fired, late, lost>>

----------------------------------------------------------------------------------

\* What a live worker does with the run it has.
Work(r) ==
    \/ Complete(r) \/ FailAttempt(r) \/ FailStalled(r)
    \/ Open(r) \/ WorkflowNotFound(r) \/ RejectDefinition(r)
    \/ RunnerReturns(r) \/ Close(r) \/ Bury(r) \/ Announce(r)
    \/ LoadSteps(r) \/ Purge(r)
    \/ RecordNotRun(r) \/ Reuse(r) \/ PassThrough(r) \/ StartNode(r)
    \/ ExecutorReturns(r) \/ ExecutorTimesOut(r)
    \/ \E landed \in BOOLEAN : ExecutorThrows(r, landed)
    \/ \E branch \in Handles : SaveStep(r, branch)
    \/ SaveStepThrows(r) \/ FailStep(r)
    \/ DbErrorOutside(r) \/ DbErrorInside(r)
    \/ MarkFailed(r) \/ PublishFailed(r)

Next ==
    \E r \in Runs :
        \/ Take(r) \/ Work(r) \/ LoseLock(r) \/ HandlerCut(r)
        \/ \E n \in Nodes : LateEffect(n, r)

Spec == Init /\ [][Next]_vars

\* Some worker takes a waiting job, and BullMQ's lock tells a live worker from a dead
\* one: the run that holds it, or whose failed event is being handled, goes on.
Working(r) == (job.holder = r \/ run[r].pc \in HandlerPoints) /\ Work(r)
Fairness == \A r \in Runs : WF_vars(Take(r)) /\ WF_vars(Working(r))
FairSpec == Spec /\ Fairness

----------------------------------------------------------------------------------
(* Properties.                                                                    *)

\* As long as no activation lost its lock, an action's side effect lands again only
\* when the earlier landing could not be recorded: of the landings that a SUCCESS
\* step can record there is at most one, over all attempts.
AtMostOneRecordedEffect ==
    job.stalls = 0 =>
        \A n \in Nodes : \A q, r \in fired[n] :
            (<<n, q>> \notin lost /\ <<n, r>> \notin lost) => q = r

\* Once BullMQ is done with a job that never stalled and whose failed event was
\* handled, the row is terminal, that status was published, and the dead-letter queue
\* holds exactly the jobs that BullMQ gave up on.
Settled == job.state \in {"completed", "failed"} /\ \A r \in Runs : run[r].pc \in {"idle", "halt"}
SettledExecution ==
    (Settled /\ job.stalls = 0 /\ ~unmarked) =>
        /\ row \in Terminal /\ announced = {row}
        /\ dlq = (IF job.state = "failed" THEN 1 ELSE 0)
        /\ job.state = "failed" => row = "FAILED"

\* A SUCCESS row has a step for every node, none of them still RUNNING or left over
\* from an earlier attempt's failure, and every failure it shows had an error edge.
SuccessIsComplete ==
    (row = "SUCCESS" /\ job.stalls = 0) =>
        \A n \in Nodes :
            /\ \E r \in Runs : steps[<<n, r>>] # "none"
            /\ \A r \in Runs : /\ steps[<<n, r>>] # "RUNNING"
                             /\ steps[<<n, r>>] = "FAILED" => HasErrorEdge(n)

\* To an observer the execution is settled once, tells one outcome, and records each
\* action's success once and for good, however many attempts it takes.
Contract == INSTANCE ExecutionContract WITH
    Actions <- ActionNodes,
    status <- row,
    recorded <- {n \in ActionNodes : \E r \in Runs : steps[<<n, r>>] = "SUCCESS"},
    told <- announced,
    disturbed <- job.stalls > 0
KeepsContract == Contract!ContractSpec

\* Nobody waits for ever on an execution, unless its job stalled or the final mark was
\* lost: then the row can stay RUNNING with no job behind it.
RowSettles == <>(row \in Terminal \/ job.stalls > 0 \/ unmarked)
==================================================================================
