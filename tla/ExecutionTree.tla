------------------------------ MODULE ExecutionTree ------------------------------
(* An execution and the executions its iterator and subworkflow nodes spawn, all   *)
(* run in process by the worker that has the top-level job: one child execution    *)
(* per iterated item, one per subworkflow node, each with its own row.  The step   *)
(* budget is handed down to iterations and minted anew by a subworkflow's run; a   *)
(* retry of the job walks the tree again and re-runs in place what has not         *)
(* succeeded; a subworkflow whose node times out is abandoned and runs on beside   *)
(* the retry.  What happens inside one node is ExecutionEngine's subject: here a   *)
(* node's effect and its record are one step.                                      *)
EXTENDS Integers, Sequences

CONSTANTS
    Runs,        \* the executions of the tree
    Root,        \* the top-level one
    Plan,        \* Plan[r]: the nodes of its definition in topological order
    MaxSteps,    \* MAX_EXECUTION_STEPS
    MaxDepth,    \* MAX_RECURSION_DEPTH
    Attempts,    \* MAX_EXECUTION_ATTEMPTS
    MaxFaults,   \* bound: nodes that fail or time out and database calls that throw
    MaxTimeouts  \* bound: those that are subworkflow nodes timing out

Kinds == {"logic", "action", "iterator", "subworkflow"}
Node == [kind     : Kinds,
         children : Seq(Runs),
         continueOnError : BOOLEAN,
         routes   : SUBSET SUBSET Nat,  \* the nodes its success makes reachable, by branch
         handler  : SUBSET Nat]         \* the targets of its error edges

ASSUME TreeAssumption ==
    /\ Root \in Runs
    /\ Plan \in [Runs -> Seq(Node)]
    /\ MaxSteps \in Nat \ {0} /\ MaxDepth \in Nat /\ Attempts \in Nat \ {0}
    /\ MaxFaults \in Nat /\ MaxTimeouts \in Nat

\* Edges lead on in topological order.  A subworkflow node has one child, and a child the
\* one row of its parent, node and item.
ASSUME ChildAssumption ==
    /\ \A r \in Runs : \A i \in 1 .. Len(Plan[r]) :
          /\ Plan[r][i].routes # {}
          /\ \A targets \in Plan[r][i].routes \union {Plan[r][i].handler} : \A j \in targets : j > i
          /\ Plan[r][i].kind = "subworkflow" => Len(Plan[r][i].children) = 1
          /\ Plan[r][i].kind \in {"logic", "action"} => Len(Plan[r][i].children) = 0
          /\ \A k \in 1 .. Len(Plan[r][i].children) : Plan[r][i].children[k] # Root
    /\ \A r, q \in Runs : \A i \in 1 .. Len(Plan[r]), j \in 1 .. Len(Plan[q]) :
          \A k \in 1 .. Len(Plan[r][i].children), l \in 1 .. Len(Plan[q][j].children) :
             Plan[r][i].children[k] = Plan[q][j].children[l] => r = q /\ i = j /\ k = l

VARIABLES
    row,       \* WorkflowExecution.status of every run, "none" before there is one
    saved,     \* the action nodes of each run with a SUCCESS step row
    effects,   \* how often each action node took effect
    frame,     \* frame[a][r]: run r as attempt a drives it
    charged,   \* charged[a][r]: nodes charged to the budget that r minted in attempt a
    attempt,   \* the attempt of the job that runs or ran last
    faults, timeouts

vars == <<row, saved, effects, frame, charged, attempt, faults, timeouts>>

Tries == 1 .. Attempts
NodesOf(r) == 1 .. Len(Plan[r])
Results == {"none", "SUCCESS", "FAILED", "FATAL", "ABORTED", "CRASHED", "UNSAVED", "LOST"}
Frame == [pc      : {"off", "loop", "iterate", "wait", "record", "mark", "over"},
          at      : Nat,         \* the node in hand
          item    : Nat,         \* the item its iterator is at
          reached : SUBSET Nat,  \* reachable
          failed  : BOOLEAN,     \* failure # null
          reuse   : SUBSET Nat,  \* loadResumableOutputs, read once at the start
          budget  : Runs,        \* who minted the budget it charges
          depth   : Nat,
          result  : Results]

TypeOK ==
    /\ row \in [Runs -> {"none", "PENDING", "RUNNING", "SUCCESS", "FAILED"}]
    /\ \A r \in Runs : saved[r] \subseteq NodesOf(r) /\ effects[r] \in [NodesOf(r) -> Nat]
    /\ frame \in [Tries -> [Runs -> Frame]]
    /\ charged \in [Tries -> [Runs -> 0 .. MaxSteps]]
    /\ attempt \in 0 .. Attempts
    /\ faults \in 0 .. MaxFaults /\ timeouts \in 0 .. MaxTimeouts

Off == [pc |-> "off", at |-> 1, item |-> 1, reached |-> {1}, failed |-> FALSE, reuse |-> {},
        budget |-> Root, depth |-> 0, result |-> "none"]

Init ==
    /\ row = [r \in Runs |-> IF r = Root THEN "RUNNING" ELSE "none"]
    /\ saved = [r \in Runs |-> {}]
    /\ effects = [r \in Runs |-> [i \in NodesOf(r) |-> 0]]
    /\ frame = [a \in Tries |-> [r \in Runs |-> Off]]
    /\ charged = [a \in Tries |-> [r \in Runs |-> 0]]
    /\ attempt = 0 /\ faults = 0 /\ timeouts = 0

----------------------------------------------------------------------------------
(* Frames.                                                                        *)

At(a, r, point) == frame[a][r].pc = point
Here(a, r) == Plan[r][frame[a][r].at]
Child(a, r) == Here(a, r).children[frame[a][r].item]
OwnsBudget(a, r) == frame[a][r].budget = r

\* The action nodes whose SUCCESS rows a run that starts now will reuse.
ReusableNone(r) == {}
Reusable(r) == saved[r]

\* A run that starts; one that is too deep is over at once.
Started(r, budget, depth) ==
    [Off EXCEPT !.reuse = Reusable(r), !.budget = budget, !.depth = depth,
                !.pc = IF depth > MaxDepth THEN "over" ELSE "loop",
                !.result = IF depth > MaxDepth THEN "FAILED" ELSE "none"]

Becomes(a, r, f) == frame' = [frame EXCEPT ![a][r] = f]
NextNode(f) == [f EXCEPT !.pc = "loop", !.at = f.at + 1, !.item = 1]

\* propagateReachability.  A failure goes on along the error edges, where the node has
\* some and is no iterator, and otherwise fails the run.
Reaching(f, targets) == [NextNode(f) EXCEPT !.reached = @ \union targets]
Handled(n) == n.kind # "iterator" /\ n.handler # {}
NodeFailed(r, f) ==
    LET n == Plan[r][f.at] IN
    IF Handled(n) THEN Reaching(f, n.handler) ELSE [NextNode(f) EXCEPT !.failed = TRUE]
Due(a, r) == ~frame[a][r].failed /\ frame[a][r].at \in frame[a][r].reached
Succeeds(a, r) == \E targets \in Here(a, r).routes : Becomes(a, r, Reaching(frame[a][r], targets))
Throws == faults + timeouts < MaxFaults /\ faults' = faults + 1

\* The run ends with a result.  An iteration hands it to its iterator.  Where the run has a
\* budget of its own the engine records it, but for a crash and a failure that the
\* top-level job may retry, which are thrown on.
Ended(a, r, result) ==
    [frame[a][r] EXCEPT !.result = result,
                        !.pc = IF ~OwnsBudget(a, r) THEN "over"
                               ELSE IF result = "CRASHED" \/ (result = "FAILED" /\ r = Root)
                               THEN "mark" ELSE "record"]

\* It ends by throwing.  Only the owner of the budget turns an overflow into a result that
\* is not retried.
Thrown(a, r, reason) ==
    Ended(a, r, IF OwnsBudget(a, r) /\ reason = "ABORTED" THEN "FATAL" ELSE reason)

\* stepBudget.consume() for the node in hand.
ConsumeOffByOne(a, r) ==
    /\ At(a, r, "loop") /\ frame[a][r].at \in NodesOf(r)
    /\ charged[a][frame[a][r].budget] <= MaxSteps
    /\ charged' = [charged EXCEPT ![a][frame[a][r].budget] = @ + 1]
Consume(a, r) ==
    /\ At(a, r, "loop") /\ frame[a][r].at \in NodesOf(r)
    /\ charged[a][frame[a][r].budget] < MaxSteps
    /\ charged' = [charged EXCEPT ![a][frame[a][r].budget] = @ + 1]

----------------------------------------------------------------------------------
(* The node loop.                                                                 *)

\* The worker takes the job, the first time or after a failure that may be retried.
TakeJob ==
    /\ attempt < Attempts /\ row[Root] = "RUNNING"
    /\ attempt > 0 => At(attempt, Root, "over")
    /\ attempt' = attempt + 1
    /\ Becomes(attempt + 1, Root, Started(Root, Root, 0))
    /\ UNCHANGED <<row, saved, effects, charged, faults, timeouts>>

\* The budget is blown before the next node is recorded.
Overflow(a, r) ==
    /\ At(a, r, "loop") /\ frame[a][r].at \in NodesOf(r)
    /\ charged[a][frame[a][r].budget] = MaxSteps
    /\ Becomes(a, r, Thrown(a, r, "ABORTED"))
    /\ UNCHANGED <<row, saved, effects, charged, attempt, faults, timeouts>>

\* A node without effect: a trigger, a condition, and one that is skipped; or one that is
\* recorded as skipped or cancelled, since nothing reached it or the run has failed.
Pass(a, r) ==
    /\ Consume(a, r)
    /\ \/ ~Due(a, r) /\ Becomes(a, r, NextNode(frame[a][r]))
       \/ Due(a, r) /\ Here(a, r).kind = "logic" /\ Succeeds(a, r)
    /\ UNCHANGED <<row, saved, effects, attempt, faults, timeouts>>

Act(a, r) ==
    LET i == frame[a][r].at IN
    /\ Consume(a, r)
    /\ Due(a, r) /\ Here(a, r).kind = "action"
    /\ Succeeds(a, r)
    /\ IF i \in frame[a][r].reuse
       THEN UNCHANGED <<saved, effects>>
       ELSE /\ saved' = [saved EXCEPT ![r] = @ \union {i}]
            /\ effects' = [effects EXCEPT ![r][i] = @ + 1]
    /\ UNCHANGED <<row, attempt, faults, timeouts>>

\* A node fails before it has done anything, but that a subworkflow may have created its
\* child.
NodeFails(a, r) ==
    /\ Consume(a, r) /\ Throws
    /\ Due(a, r) /\ frame[a][r].at \notin frame[a][r].reuse
    /\ Becomes(a, r, NodeFailed(r, frame[a][r]))
    /\ \/ UNCHANGED row
       \/ /\ Here(a, r).kind = "subworkflow" /\ frame[a][r].depth < MaxDepth
          /\ row[Child(a, r)] = "none" /\ row' = [row EXCEPT ![Child(a, r)] = "PENDING"]
    /\ UNCHANGED <<saved, effects, attempt, timeouts>>

Finish(a, r) ==
    /\ At(a, r, "loop") /\ frame[a][r].at \notin NodesOf(r)
    /\ Becomes(a, r, Ended(a, r, IF frame[a][r].failed THEN "FAILED" ELSE "SUCCESS"))
    /\ UNCHANGED <<row, saved, effects, charged, attempt, faults, timeouts>>

\* EngineService.execute after the run.
Closing(a, r) == IF frame[a][r].result = "SUCCESS" THEN "SUCCESS" ELSE "FAILED"
Record(a, r) ==
    /\ At(a, r, "record")
    /\ row' = [row EXCEPT ![r] = Closing(a, r)]
    /\ Becomes(a, r, [frame[a][r] EXCEPT !.pc = "over"])
    /\ UNCHANGED <<saved, effects, charged, attempt, faults, timeouts>>

\* That update throws, and the run counts as crashed whatever it was.
CloseThrows(a, r) ==
    /\ At(a, r, "record") /\ Throws
    /\ Becomes(a, r, [frame[a][r] EXCEPT !.pc = "mark", !.result = "UNSAVED"])
    /\ UNCHANGED <<row, saved, effects, charged, attempt, timeouts>>

\* The top-level job leaves its row to the next attempt, or onFailed settles it after the
\* last one; a subworkflow's crash is marked at once.
RetriedAlways(a, r) == r = Root /\ a <= Attempts
Retried(a, r) == r = Root /\ a < Attempts
Mark(a, r) ==
    /\ At(a, r, "mark")
    /\ row' = IF Retried(a, r) THEN row ELSE [row EXCEPT ![r] = "FAILED"]
    /\ Becomes(a, r, [frame[a][r] EXCEPT !.pc = "over"])
    /\ UNCHANGED <<saved, effects, charged, attempt, faults, timeouts>>

\* onFailed only logs that markFailed throws, and the subworkflow's node fails by it.
MarkThrows(a, r) ==
    /\ At(a, r, "mark") /\ ~Retried(a, r) /\ Throws
    /\ Becomes(a, r, [frame[a][r] EXCEPT !.pc = "over", !.result = "LOST"])
    /\ UNCHANGED <<row, saved, effects, charged, attempt, timeouts>>

----------------------------------------------------------------------------------
(* Iterators.                                                                     *)

Iterator(a, r) ==
    /\ Consume(a, r)
    /\ Due(a, r) /\ Here(a, r).kind = "iterator"
    /\ Becomes(a, r, [frame[a][r] EXCEPT !.pc = "iterate"])
    /\ UNCHANGED <<row, saved, effects, attempt, faults, timeouts>>

IteratorDone(a, r) ==
    /\ At(a, r, "iterate") /\ frame[a][r].item > Len(Here(a, r).children)
    /\ Succeeds(a, r)
    /\ UNCHANGED <<row, saved, effects, charged, attempt, faults, timeouts>>

\* The next item: its child is skipped where it has succeeded, created where it is not
\* there, and otherwise run again in place.
Iterate(a, r) ==
    /\ At(a, r, "iterate") /\ frame[a][r].item <= Len(Here(a, r).children)
    /\ LET c == Child(a, r)
           f == frame[a][r] IN
       IF row[c] = "SUCCESS"
       THEN Becomes(a, r, [f EXCEPT !.item = @ + 1]) /\ UNCHANGED row
       ELSE /\ row' = [row EXCEPT ![c] = IF @ = "none" THEN "RUNNING" ELSE @]
            /\ frame' = [frame EXCEPT ![a][r] = [f EXCEPT !.pc = "wait"],
                                      ![a][c] = Started(c, f.budget, f.depth + 1)]
    /\ UNCHANGED <<saved, effects, charged, attempt, faults, timeouts>>

\* runChild throws: the overflow or the crash unwinds through the iterator.
UnwindsMasked(a, r, result) == result = "CRASHED"
Unwinds(a, r, result) == result \in {"ABORTED", "CRASHED"}

\* runChild returns.  A failed item ends the iterator unless it is to continue on errors.
BreaksNever(a, r, result) == FALSE
Breaks(a, r, result) == result # "SUCCESS" /\ ~Here(a, r).continueOnError
SettledIfGood(c, result) == [row EXCEPT ![c] = IF result = "SUCCESS" THEN "SUCCESS" ELSE @]
Settled(c, result) == [row EXCEPT ![c] = IF result = "SUCCESS" THEN "SUCCESS" ELSE "FAILED"]
IterationReturns(a, r) ==
    LET c == Child(a, r)
        result == frame[a][c].result
    IN
    /\ At(a, r, "wait") /\ Here(a, r).kind = "iterator" /\ At(a, c, "over")
    /\ IF Unwinds(a, r, result)
       THEN Becomes(a, r, Thrown(a, r, result)) /\ UNCHANGED row
       ELSE /\ row' = Settled(c, result)
            /\ Becomes(a, r, IF Breaks(a, r, result)
                             THEN NodeFailed(r, frame[a][r])
                             ELSE [frame[a][r] EXCEPT !.pc = "iterate", !.item = @ + 1])
    /\ UNCHANGED <<saved, effects, charged, attempt, faults, timeouts>>

SubworkflowWaits(a, r) == At(a, r, "wait") /\ Here(a, r).kind = "subworkflow"

\* A database call of the runner or the iterator throws, be it before or after a child's
\* row is written.
Blip(a, r) ==
    /\ \/ (At(a, r, "loop") \/ At(a, r, "iterate")) /\ UNCHANGED row
       \/ SubworkflowWaits(a, r) /\ At(a, Child(a, r), "over") /\ UNCHANGED row
       \/ LET result == frame[a][Child(a, r)].result IN
          /\ At(a, r, "wait") /\ Here(a, r).kind = "iterator" /\ At(a, Child(a, r), "over")
          /\ ~Unwinds(a, r, result) /\ row' \in {row, Settled(Child(a, r), result)}
    /\ Throws
    /\ Becomes(a, r, Thrown(a, r, "CRASHED"))
    /\ UNCHANGED <<saved, effects, charged, attempt, timeouts>>

----------------------------------------------------------------------------------
(* Subworkflows.                                                                  *)

\* The node reuses a child that has succeeded and runs it, with a budget of its own,
\* where it has not.
Subworkflow(a, r) ==
    LET c == Child(a, r)
        f == frame[a][r]
    IN
    /\ Consume(a, r)
    /\ Due(a, r) /\ Here(a, r).kind = "subworkflow"
    /\ \/ /\ f.depth >= MaxDepth
          /\ Becomes(a, r, NodeFailed(r, f)) /\ UNCHANGED row
       \/ /\ f.depth < MaxDepth /\ row[c] = "SUCCESS"
          /\ Succeeds(a, r) /\ UNCHANGED row
       \/ /\ f.depth < MaxDepth /\ row[c] # "SUCCESS"
          /\ row' = [row EXCEPT ![c] = "RUNNING"]
          /\ frame' = [frame EXCEPT ![a][r] = [f EXCEPT !.pc = "wait"],
                                    ![a][c] = Started(c, c, f.depth + 1)]
    /\ UNCHANGED <<saved, effects, attempt, faults, timeouts>>

\* The engine is through with the child, and its row says how it went.
SubworkflowReturns(a, r) ==
    /\ SubworkflowWaits(a, r) /\ At(a, Child(a, r), "over")
    /\ IF row[Child(a, r)] = "SUCCESS" THEN Succeeds(a, r)
       ELSE Becomes(a, r, NodeFailed(r, frame[a][r]))
    /\ UNCHANGED <<row, saved, effects, charged, attempt, faults, timeouts>>

\* A database call after the child's run throws and fails the node.
SubworkflowBreaks(a, r) ==
    /\ SubworkflowWaits(a, r) /\ At(a, Child(a, r), "over") /\ Throws
    /\ Becomes(a, r, NodeFailed(r, frame[a][r]))
    /\ UNCHANGED <<row, saved, effects, charged, attempt, timeouts>>

\* withNodeTimeout: the node has failed and what it called runs on.
SubworkflowTimesOut(a, r) ==
    /\ SubworkflowWaits(a, r)
    /\ timeouts < MaxTimeouts /\ faults + timeouts < MaxFaults /\ timeouts' = timeouts + 1
    /\ Becomes(a, r, NodeFailed(r, frame[a][r]))
    /\ UNCHANGED <<row, saved, effects, charged, attempt, faults>>

----------------------------------------------------------------------------------

Work(a, r) ==
    \/ Overflow(a, r) \/ Pass(a, r) \/ Act(a, r) \/ Finish(a, r)
    \/ Record(a, r) \/ Mark(a, r)
    \/ Iterator(a, r) \/ IteratorDone(a, r) \/ Iterate(a, r) \/ IterationReturns(a, r)
    \/ Subworkflow(a, r) \/ SubworkflowReturns(a, r)
Adversity(a, r) ==
    \/ NodeFails(a, r) \/ Blip(a, r) \/ CloseThrows(a, r) \/ MarkThrows(a, r)
    \/ SubworkflowBreaks(a, r) \/ SubworkflowTimesOut(a, r)

\* Nothing is left to run: the worker waits for other jobs.
Idle ==
    /\ row[Root] # "RUNNING" \/ attempt = Attempts
    /\ \A a \in Tries, r \in Runs : frame[a][r].pc \in {"off", "over"}
    /\ UNCHANGED vars

Next == TakeJob \/ Idle \/ \E a \in Tries, r \in Runs : Work(a, r) \/ Adversity(a, r)
Spec == Init /\ [][Next]_vars

\* The event loop runs every promise that can go on, and BullMQ hands out the job.
Fairness == WF_vars(TakeJob) /\ \A a \in Tries, r \in Runs : WF_vars(Work(a, r))
FairSpec == Spec /\ Fairness

----------------------------------------------------------------------------------
(* Properties.                                                                    *)

Active(a, r) == frame[a][r].pc \notin {"off", "over"}

\* As long as no subworkflow node has timed out, an action of any execution of the tree
\* takes effect once, however often the job is retried and wherever the tree broke off.
EffectsOnce == timeouts = 0 => \A r \in Runs : \A i \in NodesOf(r) : effects[r][i] <= 1

\* An execution that succeeded has, below the nodes its run reached, nothing that did not,
\* but for settled items of an iterator that continues on errors and for subworkflows whose
\* error edges the run has followed.
DeepAt(a, r, i) ==
    LET n == Plan[r][i] IN \A k \in 1 .. Len(n.children) :
        \/ row[n.children[k]] = "SUCCESS"
        \/ n.kind = "iterator" /\ n.continueOnError /\ row[n.children[k]] = "FAILED"
        \/ Handled(n) /\ n.handler \subseteq frame[a][r].reached
SuccessIsDeep ==
    timeouts = 0 => \A r \in Runs : row[r] = "SUCCESS" => \E a \in Tries :
        /\ frame[a][r].result = "SUCCESS"
        /\ \A i \in frame[a][r].reached \intersect NodesOf(r) : DeepAt(a, r, i)

\* Items run in order: where errors end the iterator, no item has a row before all the
\* items ahead of it have succeeded.
ItemsInOrder ==
    timeouts = 0 => \A r \in Runs : \A i \in NodesOf(r) :
        LET n == Plan[r][i] IN (n.kind = "iterator" /\ ~n.continueOnError) =>
            \A k \in 1 .. Len(n.children) : row[n.children[k]] # "none" =>
                \A j \in 1 .. k - 1 : row[n.children[j]] = "SUCCESS"

\* A blown budget is not masked by an iterator that continues on errors: the run that
\* minted it does not succeed, and the job is not tried again for the root's own budget,
\* unless the failure could not be recorded.  (That of a subworkflow fails its node, which
\* the job's next attempt runs again.)
OverflowIsFatal ==
    \A a \in Tries :
        /\ frame[a][Root].result = "FATAL" => attempt = a
        /\ \A r \in Runs : frame[a][r].result = "ABORTED" =>
              frame[a][frame[a][r].budget].result \in {"none", "FATAL", "UNSAVED", "LOST"}

\* A child's row stays RUNNING only under a run in progress, or where an error unwound the
\* child or the run above it, or its last update was lost.
BrokeOff(a, r) == frame[a][r].result \in {"ABORTED", "CRASHED", "LOST"}
Below(c, r) == \E i \in NodesOf(r) : \E k \in 1 .. Len(Plan[r][i].children) : Plan[r][i].children[k] = c
OrphansWereUnwound ==
    \A c \in Runs \ {Root} : row[c] = "RUNNING" =>
        \E a \in Tries :
            \/ Active(a, c) \/ BrokeOff(a, c)
            \/ \E r \in Runs : /\ Below(c, r)
                               /\ BrokeOff(a, r) \/ (At(a, r, "wait") /\ Child(a, r) = c)

\* The top-level execution settles, unless the update after the last attempt is lost.
RootSettles == <>(row[Root] \in {"SUCCESS", "FAILED"} \/ frame[Attempts][Root].result = "LOST")
==================================================================================
