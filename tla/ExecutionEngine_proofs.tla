------------------------- MODULE ExecutionEngine_proofs -------------------------
(* Proofs about ExecutionEngine, for every workflow graph, number of attempts    *)
(* and number of forgiven stalls.                                                *)
EXTENDS ExecutionEngine, TLAPS

----------------------------------------------------------------------------------
(* Type correctness.  What the runs hold in memory is the hard part, so it gets a *)
(* predicate of its own: while a node is being processed, the loop's position is  *)
(* one of the nodes, and a run about to write or publish an outcome has one.      *)

PositionOK == \A r \in Runs :
    /\ run[r].pc \in {"exec", "save", "fail"} => Current(r) \in Nodes
    /\ run[r].pc \in {"close", "announce"} => run[r].result \in Terminal
RunOK == run \in [Runs -> RunState] /\ PositionOK

LEMMA NewRunType == NewRun \in RunState
  BY GraphAssumption DEF NewRun, RunState, Points, HandlerPoints, Nodes, StepStatus, Terminal

\* Routing only ever reaches nodes of the graph.
LEMMA PropagateType ==
    ASSUME NEW n \in Nodes, NEW outcome, NEW branch
    PROVE  Propagate(n, outcome, branch) \in SUBSET Nodes
  BY GraphAssumption DEF Propagate, Outgoing, Edge

LEMMA ClassifyType ==
    ASSUME NEW n, NEW verdict
    PROVE  Classify(n, verdict) \in {"CANCELLED", "SKIPPED"}
  BY DEF Classify

LEMMA LeaveOK ==
    ASSUME NEW r \in Runs, NEW point \in Points \ {"exec", "save", "fail"},
           NEW result \in {"none"} \union Terminal, RunOK, Leave(r, point, result),
           point \in {"close", "announce"} => result \in Terminal
    PROVE  RunOK'
<1>1. run' \in [Runs -> RunState]
  BY NewRunType DEF Leave, RunState, RunOK
<1>2. PositionOK'
  BY <1>1 DEF RunOK, PositionOK, Leave, NewRun, Current
<1> QED BY <1>1, <1>2 DEF RunOK

LEMMA GotoOK ==
    ASSUME NEW r \in Runs, NEW point \in Points, RunOK, Goto(r, point),
           point \in {"exec", "save", "fail"} => Current(r) \in Nodes,
           point \in {"close", "announce"} => run[r].result \in Terminal
    PROVE  RunOK'
<1>1. run' \in [Runs -> RunState]
  BY DEF Goto, RunState, RunOK
<1>2. PositionOK'
  BY <1>1 DEF RunOK, PositionOK, Goto, RunState, Current
<1> QED BY <1>1, <1>2 DEF RunOK

\* One iteration of the loop, with or without a hard failure.
LEMMA LoopOK ==
    ASSUME NEW r \in Runs, Current(r) \in Nodes, NEW status \in StepStatus,
           NEW reach \in SUBSET Nodes, NEW failed \in BOOLEAN, RunOK,
           run' = [run EXCEPT ![r] =
              [run[r] EXCEPT !.pc = "loop", !.idx = run[r].idx + 1, !.failed = failed,
                             !.verdict = [run[r].verdict EXCEPT ![run[r].idx] = status],
                             !.reach = reach]]
    PROVE  RunOK'
<1> DEFINE v == [run[r].verdict EXCEPT ![run[r].idx] = status]
           new == [run[r] EXCEPT !.pc = "loop", !.idx = run[r].idx + 1, !.failed = failed,
                                 !.verdict = v, !.reach = reach]
<1>1. run[r] \in RunState
  BY DEF RunOK
<1>2. run[r].idx \in Nodes /\ run[r].idx + 1 \in 1 .. (N + 1)
  BY GraphAssumption DEF Current, Nodes
<1>3. v \in [Nodes -> StepStatus \union {"none"}]
  BY <1>1, <1>2 DEF RunState
<1>4. new \in RunState /\ new.pc = "loop"
  <2> HIDE DEF v
  <2> QED BY <1>1, <1>2, <1>3 DEF RunState, Points
<1>5. run' = [run EXCEPT ![r] = new]
  OBVIOUS
<1>6. run' \in [Runs -> RunState] /\ PositionOK'
  <2> HIDE DEF new
  <2> QED BY <1>4, <1>5 DEF RunOK, PositionOK, Current
<1> QED BY <1>6 DEF RunOK

LEMMA AdvanceOK ==
    ASSUME NEW r \in Runs, Current(r) \in Nodes, NEW status \in StepStatus,
           NEW targets \in SUBSET Nodes, RunOK, Advance(r, status, targets)
    PROVE  RunOK'
<1>1. run[r] \in RunState
  BY DEF RunOK
<1>2. run[r].failed \in BOOLEAN /\ run[r].reach \union targets \in SUBSET Nodes
  BY <1>1 DEF RunState
<1>3. run' = [run EXCEPT ![r] =
              [run[r] EXCEPT !.pc = "loop", !.idx = run[r].idx + 1, !.failed = run[r].failed,
                             !.verdict = [run[r].verdict EXCEPT ![run[r].idx] = status],
                             !.reach = run[r].reach \union targets]]
  BY <1>1 DEF Advance, RunState
<1> QED BY <1>2, <1>3, LoopOK

LEMMA RecordType ==
    ASSUME NEW r \in Runs, Current(r) \in Nodes, NEW status \in StepStatus,
           steps \in [StepKeys -> StepStatus \union {"none"}], Record(r, status)
    PROVE  steps' \in [StepKeys -> StepStatus \union {"none"}]
  BY DEF Record, StepKeys

LEMMA RunSetFacts == Runs # {} /\ 0 \in 0 .. Attempts /\ 0 \in 0 .. (MaxStalls + 1) /\ 0 \notin Runs
  BY QueueAssumption DEF Runs

\* The job's counters keep their range because an attempt ends only while one is left,
\* and a run sent to fail at once holds the job until it has.
JobType == [state : JobStates, attemptsMade : 0 .. Attempts,
            stalls : 0 .. (MaxStalls + 1), holder : Runs \union {0}]
Held == /\ job.state \in {"waiting", "active"} => job.attemptsMade < Attempts
        /\ job.state = "active" <=> job.holder # 0
        /\ \A r \in Runs : At(r, "doomed") => job.holder = r /\ job.stalls > MaxStalls

StepsType == [StepKeys -> StepStatus \union {"none"}]
LandingsType == fired \in [Nodes -> SUBSET Runs] /\ late \subseteq StepKeys /\ lost \subseteq StepKeys
RestType == /\ dryRun \in BOOLEAN /\ row \in {"PENDING", "RUNNING"} \union Terminal
            /\ announced \subseteq Terminal /\ dlq \in Nat /\ unmarked \in BOOLEAN

TInv == RunOK /\ job \in JobType /\ Held /\ steps \in StepsType /\ LandingsType /\ RestType

LEMMA TInvTypeOK == TInv => TypeOK
  BY DEF TInv, TypeOK, RunOK, JobType, StepsType, LandingsType, RestType

LEMMA TypeInit == Init => TInv
<1> SUFFICES ASSUME Init PROVE TInv
  OBVIOUS
<1>1. RunOK
  BY NewRunType DEF Init, RunOK, PositionOK, NewRun, Current
<1>2. job \in JobType /\ Held
  BY RunSetFacts, QueueAssumption DEF Init, JobStates, JobType, Held, At, NewRun
<1> QED BY <1>1, <1>2 DEF Init, TInv, StepKeys, StepsType, LandingsType, RestType

\* Where a run goes does not disturb Held unless it is sent to fail at once.
LEMMA HeldKept ==
    ASSUME Held, NEW r \in Runs, NEW x, run \in [Runs -> RunState],
           run' = [run EXCEPT ![r] = x], x.pc # "doomed", job' = job
    PROVE  Held'
  BY DEF Held, At

\* The queue's own actions, the only ones that change the job.
LEMMA TypeTake == ASSUME TInv, NEW r \in Runs, Take(r) PROVE TInv'
<1> DEFINE point == IF job.stalls > MaxStalls THEN "doomed" ELSE "open"
<1> USE DEF TInv
<1>1. job' = [state |-> "active", attemptsMade |-> job.attemptsMade,
              stalls |-> job.stalls, holder |-> r]
  BY DEF Take, JobType
<1>2. job' \in JobType
  BY <1>1 DEF JobType, JobStates
<1>3. RunOK'
  <2>1. Goto(r, point) /\ point \in Points /\ point \in {"open", "doomed"}
    BY DEF Take, Points
  <2> HIDE DEF point
  <2> QED BY <2>1, GotoOK
<1>4. Held'
  <2>1. run' = [run EXCEPT ![r].pc = point] /\ job.state = "waiting"
    BY DEF Take, Goto
  <2>2. \A q \in Runs \ {r} : At(q, "doomed")' => FALSE
    BY <2>1, RunSetFacts DEF Held, RunOK, At
  <2>3. At(r, "doomed")' => job.stalls > MaxStalls
    BY <2>1 DEF RunOK, RunState, At
  <2> QED BY <1>1, <2>1, <2>2, <2>3, RunSetFacts DEF Held
<1> QED BY <1>2, <1>3, <1>4 DEF Take, LandingsType, RestType

LEMMA TypeLoseLock == ASSUME TInv, NEW r \in Runs, LoseLock(r) PROVE TInv'
<1> USE DEF TInv
<1>1. job' = [state |-> "waiting", attemptsMade |-> job.attemptsMade,
              stalls |-> job.stalls + 1, holder |-> 0]
  BY DEF LoseLock, JobType
<1>2. job' \in JobType
  BY <1>1, QueueAssumption DEF JobType, JobStates, LoseLock
<1>3. RunOK'
  BY DEF LoseLock, RunOK, PositionOK, Current
<1>4. Held'
  BY <1>1, QueueAssumption DEF LoseLock, Held, At, JobType
<1> QED BY <1>2, <1>3, <1>4 DEF LoseLock, LandingsType, RestType

\* A run that ends its activation lets go of the job.
LEMMA TypeEnd ==
    ASSUME TInv, NEW r \in Runs, NEW point \in {"halt", "mark"}, Leave(r, point, "none"),
           NEW s \in JobStates \ {"active"}, NEW a \in 0 .. Attempts,
           s = "waiting" => a < Attempts, job.holder = r,
           job' = [state |-> s, attemptsMade |-> a, stalls |-> job.stalls, holder |-> 0],
           UNCHANGED <<dryRun, row, announced, dlq, steps, fired, late, lost, unmarked>>
    PROVE  TInv'
<1> USE DEF TInv
<1>1. job' \in JobType
  BY DEF JobType
<1>2. RunOK'
  BY LeaveOK DEF Points, HandlerPoints
<1>3. \A q \in Runs : ~At(q, "doomed")'
  <2>1. \A q \in Runs \ {r} : ~At(q, "doomed")
    BY RunSetFacts DEF Held
  <2> QED BY <2>1 DEF At, Leave, RunOK, NewRun
<1>4. Held'
  BY <1>3 DEF Held
<1> QED BY <1>1, <1>2, <1>4 DEF LandingsType, RestType

\* A zombie's end leaves the job alone.
LEMMA TypeLeave ==
    ASSUME TInv, NEW r \in Runs, NEW point \in Points \ {"exec", "save", "fail", "doomed"},
           NEW result \in {"none"} \union Terminal, Leave(r, point, result), job' = job,
           point \in {"close", "announce"} => result \in Terminal,
           steps' \in StepsType, LandingsType', RestType'
    PROVE  TInv'
<1>1. RunOK'
  BY LeaveOK DEF TInv
<1>2. Held'
  <2> DEFINE x == [NewRun EXCEPT !.pc = point, !.result = result]
  <2>1. run' = [run EXCEPT ![r] = x] /\ x.pc # "doomed"
    BY DEF Leave, NewRun
  <2> HIDE DEF x
  <2> QED BY <2>1, HeldKept DEF TInv, RunOK
<1> QED BY <1>1, <1>2 DEF TInv

LEMMA TypeComplete == ASSUME TInv, NEW r \in Runs, Complete(r) PROVE TInv'
<1>1. CASE job.holder = r
  <2>1. job' = [state |-> "completed", attemptsMade |-> job.attemptsMade,
                stalls |-> job.stalls, holder |-> 0]
    BY <1>1 DEF Complete, JobType, TInv
  <2>2. job.attemptsMade \in 0 .. Attempts
    BY DEF TInv, JobType
  <2> QED BY <1>1, <2>1, <2>2, TypeEnd DEF Complete, JobStates
<1>2. CASE job.holder # r
  BY <1>2, TypeLeave DEF Complete, Points, TInv, LandingsType, RestType
<1> QED BY <1>1, <1>2

LEMMA TypeFailAttempt == ASSUME TInv, NEW r \in Runs, FailAttempt(r) PROVE TInv'
<1> DEFINE made == job.attemptsMade + 1
           state == IF GivesUp(made) THEN "failed" ELSE "waiting"
           point == IF Exhausted(made) THEN "mark" ELSE "halt"
<1>1. CASE job.holder = r
  <2>1. made \in 0 .. Attempts /\ job.attemptsMade \in Nat
    BY <1>1, RunSetFacts, QueueAssumption DEF TInv, Held, JobType
  <2>2. state = "waiting" => made < Attempts
    BY <2>1, QueueAssumption DEF GivesUp
  <2>3. job' = [job EXCEPT !.attemptsMade = made, !.holder = 0, !.state = state]
    BY <1>1 DEF FailAttempt
  <2>4. state \in JobStates \ {"active"} /\ point \in {"halt", "mark"} /\ Leave(r, point, "none")
    BY <1>1 DEF FailAttempt, JobStates
  <2> HIDE DEF made, state, point
  <2>5. job' = [state |-> state, attemptsMade |-> made, stalls |-> job.stalls, holder |-> 0]
    BY <2>3 DEF TInv, JobType
  <2> QED BY <1>1, <2>1, <2>2, <2>4, <2>5, TypeEnd DEF FailAttempt
<1>2. CASE job.holder # r
  BY <1>2, TypeLeave DEF FailAttempt, Points, TInv, LandingsType, RestType
<1> QED BY <1>1, <1>2

LEMMA TypeFailStalled == ASSUME TInv, NEW r \in Runs, FailStalled(r) PROVE TInv'
<1> DEFINE made == job.attemptsMade + 1
           point == IF Exhausted(made) THEN "mark" ELSE "halt"
<1>1. job.holder = r
  BY DEF FailStalled, TInv, Held
<1>2. made \in 0 .. Attempts
  BY <1>1, RunSetFacts, QueueAssumption DEF TInv, Held, JobType
<1>3. /\ job' = [job EXCEPT !.state = "failed", !.attemptsMade = made, !.holder = 0]
      /\ point \in {"halt", "mark"} /\ Leave(r, point, "none")
  BY DEF FailStalled
<1> HIDE DEF made, point
<1>4. job' = [state |-> "failed", attemptsMade |-> made, stalls |-> job.stalls, holder |-> 0]
  BY <1>3 DEF TInv, JobType
<1> QED BY <1>1, <1>2, <1>3, <1>4, TypeEnd DEF FailStalled, JobStates

\* Every other action leaves the job alone.
LEMMA TypeGoto ==
    ASSUME TInv, NEW r \in Runs, NEW point \in Points \ {"doomed"}, Goto(r, point),
           point \in {"exec", "save", "fail"} => Current(r) \in Nodes,
           point \in {"close", "announce"} => run[r].result \in Terminal, job' = job,
           steps' \in StepsType, LandingsType', RestType'
    PROVE  TInv'
<1>1. RunOK'
  BY GotoOK DEF TInv
<1>2. Held'
  BY DEF Held, At, Goto, TInv, RunOK, RunState
<1> QED BY <1>1, <1>2 DEF TInv

LEMMA TypeAdvance ==
    ASSUME TInv, NEW r \in Runs, Current(r) \in Nodes, NEW status \in StepStatus,
           NEW targets \in SUBSET Nodes, Advance(r, status, targets), job' = job,
           steps' \in StepsType, LandingsType', RestType'
    PROVE  TInv'
<1>1. RunOK'
  BY AdvanceOK DEF TInv
<1>2. Held'
  BY DEF Held, At, Advance, TInv, RunOK, RunState
<1> QED BY <1>1, <1>2 DEF TInv

LEMMA TypeExecute ==
    ASSUME TInv, NEW r \in Runs,
           \/ Open(r) \/ WorkflowNotFound(r) \/ RejectDefinition(r)
           \/ RunnerReturns(r) \/ Close(r) \/ Bury(r) \/ Announce(r)
    PROVE  TInv'
<1> USE DEF TInv
<1>0. run[r] \in RunState
  BY DEF RunOK
<1>1. CASE Open(r)
  BY <1>1, TypeGoto DEF Open, Points, LandingsType, RestType
<1>2. CASE WorkflowNotFound(r)
  BY <1>2, TypeLeave DEF WorkflowNotFound, Points, LandingsType, RestType
<1>3. CASE RejectDefinition(r)
  BY <1>3, TypeLeave DEF RejectDefinition, Points, LandingsType, RestType, Terminal
<1>4. CASE RunnerReturns(r)
  BY <1>4, TypeLeave DEF RunnerReturns, Points, LandingsType, RestType, Terminal
<1>5. CASE Close(r)
  <2>1. row' \in {"PENDING", "RUNNING"} \union Terminal
    BY <1>5 DEF Close, RunOK, PositionOK, At
  <2>2. run[r].result \in Terminal
    BY <1>5 DEF Close, RunOK, PositionOK, At
  <2> QED BY <1>5, <2>1, <2>2, TypeGoto DEF Close, Points, LandingsType, RestType
<1>6. CASE Bury(r)
  BY <1>6, TypeLeave DEF Bury, Points, LandingsType, RestType, Terminal
<1>7. CASE Announce(r)
  BY <1>0, <1>7, TypeGoto, TypeLeave
     DEF Announce, Points, LandingsType, RestType, Terminal, HandlerPoints, RunOK, PositionOK, At
<1> QED BY <1>1, <1>2, <1>3, <1>4, <1>5, <1>6, <1>7

LEMMA StepsAfterRecord ==
    ASSUME TInv, NEW r \in Runs, Current(r) \in Nodes, NEW status \in StepStatus,
           Record(r, status)
    PROVE  steps' \in StepsType
  BY RecordType DEF TInv, StepsType

LEMMA TypeLoop ==
    ASSUME TInv, NEW r \in Runs,
           \/ LoadSteps(r) \/ Purge(r)
           \/ RecordNotRun(r) \/ Reuse(r) \/ PassThrough(r) \/ StartNode(r)
    PROVE  TInv'
<1>0. run[r] \in RunState
  BY DEF TInv, RunOK
<1>1. CASE LoadSteps(r)
  <2> DEFINE point == IF \A k \in StepKeys : steps[k] = "none" THEN "loop" ELSE "purge"
             x == [run[r] EXCEPT !.keep = KeptSteps, !.pc = point]
  <2>1. KeptSteps \in SUBSET StepKeys /\ point \in {"loop", "purge"}
    BY DEF KeptSteps
  <2>2. run' = [run EXCEPT ![r] = x]
    BY <1>1 DEF LoadSteps
  <2>3. x \in RunState /\ x.pc \in {"loop", "purge"}
    <3> HIDE DEF point
    <3> QED BY <1>0, <2>1 DEF RunState, Points
  <2> HIDE DEF x
  <2>4. RunOK'
    BY <2>2, <2>3 DEF TInv, RunOK, PositionOK, Current
  <2>5. Held'
    BY <1>1, <2>2, <2>3, HeldKept DEF LoadSteps, TInv, RunOK
  <2> QED BY <1>1, <2>4, <2>5 DEF LoadSteps, TInv, LandingsType, RestType
<1>2. CASE Purge(r)
  <2>1. steps' \in StepsType
    BY <1>2 DEF Purge, TInv, StepsType
  <2> QED BY <1>2, <2>1, TypeGoto DEF Purge, Points, TInv, LandingsType, RestType
<1>3. CASE RecordNotRun(r)
  <2> DEFINE status == IF run[r].failed THEN "CANCELLED"
                       ELSE Classify(Current(r), run[r].verdict)
  <2>1. Current(r) \in Nodes /\ status \in StepStatus /\ Record(r, status) /\ Advance(r, status, {})
    BY <1>3, ClassifyType DEF RecordNotRun, InLoop, StepStatus
  <2> HIDE DEF status
  <2>2. steps' \in StepsType
    BY <2>1, StepsAfterRecord
  <2> QED BY <1>3, <2>1, <2>2, TypeAdvance DEF RecordNotRun, TInv, LandingsType, RestType
<1>4. CASE Reuse(r)
  <2>1. Current(r) \in Nodes
    BY <1>4 DEF Reuse, MayRun, InLoop
  <2>2. Propagate(Current(r), "success", "none") \in SUBSET Nodes
    BY <2>1, PropagateType
  <2> QED BY <1>4, <2>1, <2>2, TypeAdvance DEF Reuse, StepStatus, TInv, LandingsType, RestType
<1>5. CASE PassThrough(r)
  <2>1. Current(r) \in Nodes
    BY <1>5 DEF PassThrough, MayRun, InLoop
  <2>2. Propagate(Current(r), "success", "none") \in SUBSET Nodes
    BY <2>1, PropagateType
  <2>3. steps' \in StepsType
    BY <1>5, <2>1, StepsAfterRecord DEF PassThrough, StepStatus
  <2> QED BY <1>5, <2>1, <2>2, <2>3, TypeAdvance
          DEF PassThrough, StepStatus, TInv, LandingsType, RestType
<1>6. CASE StartNode(r)
  <2>1. Current(r) \in Nodes
    BY <1>6 DEF StartNode, MayRun, InLoop
  <2>2. steps' \in StepsType
    BY <1>6, <2>1, StepsAfterRecord DEF StartNode, StepStatus
  <2> QED BY <1>6, <2>1, <2>2, TypeGoto DEF StartNode, Points, TInv, LandingsType, RestType
<1> QED BY <1>1, <1>2, <1>3, <1>4, <1>5, <1>6

LEMMA TypeNode ==
    ASSUME TInv, NEW r \in Runs,
           \/ ExecutorReturns(r) \/ ExecutorTimesOut(r)
           \/ \E landed \in BOOLEAN : ExecutorThrows(r, landed)
           \/ \E branch \in Handles : SaveStep(r, branch)
           \/ SaveStepThrows(r) \/ FailStep(r)
    PROVE  TInv'
<1>1. run[r] \in RunState /\ Current(r) \in Nodes /\ <<Current(r), r>> \in StepKeys
  <2>1. At(r, "exec") \/ At(r, "save") \/ At(r, "fail")
    BY DEF ExecutorReturns, ExecutorTimesOut, ExecutorThrows, SaveStep, SaveStepThrows, FailStep
  <2> QED BY <2>1 DEF TInv, RunOK, PositionOK, At, StepKeys
<1>2. CASE ExecutorReturns(r)
  <2>1. LandingsType'
    BY <1>1, <1>2 DEF ExecutorReturns, TInv, LandingsType
  <2> QED BY <1>1, <1>2, <2>1, TypeGoto DEF ExecutorReturns, Points, TInv, RestType
<1>3. CASE ExecutorTimesOut(r)
  <2>1. LandingsType'
    BY <1>1, <1>3 DEF ExecutorTimesOut, TInv, LandingsType
  <2> QED BY <1>1, <1>3, <2>1, TypeGoto DEF ExecutorTimesOut, Points, TInv, RestType
<1>4. ASSUME NEW landed \in BOOLEAN, ExecutorThrows(r, landed) PROVE TInv'
  <2>1. LandingsType'
    BY <1>1, <1>4 DEF ExecutorThrows, TInv, LandingsType
  <2> QED BY <1>1, <1>4, <2>1, TypeGoto DEF ExecutorThrows, Points, TInv, RestType
<1>5. ASSUME NEW branch \in Handles, SaveStep(r, branch) PROVE TInv'
  <2>1. Propagate(Current(r), "success", branch) \in SUBSET Nodes
    BY <1>1, PropagateType
  <2>2. steps' \in StepsType
    BY <1>1, <1>5, StepsAfterRecord DEF SaveStep, StepStatus
  <2> QED BY <1>1, <1>5, <2>1, <2>2, TypeAdvance
          DEF SaveStep, StepStatus, TInv, LandingsType, RestType
<1>6. CASE SaveStepThrows(r)
  <2>1. LandingsType'
    BY <1>1, <1>6 DEF SaveStepThrows, TInv, LandingsType
  <2> QED BY <1>1, <1>6, <2>1, TypeGoto DEF SaveStepThrows, Points, TInv, RestType
<1>7. CASE FailStep(r)
  <2>1. steps' \in StepsType
    BY <1>1, <1>7, StepsAfterRecord DEF FailStep, StepStatus
  <2>2. CASE HasErrorEdge(Current(r))
    <3>1. Propagate(Current(r), "error", "none") \in SUBSET Nodes
      BY <1>1, PropagateType
    <3> QED BY <1>1, <1>7, <2>1, <2>2, <3>1, TypeAdvance
            DEF FailStep, StepStatus, TInv, LandingsType, RestType
  <2>3. CASE ~HasErrorEdge(Current(r))
    <3> DEFINE reach == run[r].reach
    <3>1. reach \in SUBSET Nodes
      BY <1>1 DEF RunState
    <3>2. run' = [run EXCEPT ![r] =
              [run[r] EXCEPT !.pc = "loop", !.idx = run[r].idx + 1, !.failed = TRUE,
                             !.verdict = [run[r].verdict EXCEPT ![run[r].idx] = "FAILED"],
                             !.reach = reach]]
      BY <1>1, <1>7, <2>3 DEF FailStep, Current, RunState
    <3>3. RunOK'
      <4> HIDE DEF reach
      <4> QED BY <1>1, <3>1, <3>2, LoopOK DEF TInv, StepStatus
    <3>4. Held'
      <4> DEFINE x == [run[r] EXCEPT !.pc = "loop", !.idx = run[r].idx + 1, !.failed = TRUE,
                             !.verdict = [run[r].verdict EXCEPT ![run[r].idx] = "FAILED"],
                             !.reach = reach]
      <4>1. x.pc = "loop"
        BY <1>1 DEF RunState
      <4> HIDE DEF x
      <4> QED BY <1>7, <3>2, <4>1, HeldKept DEF x, FailStep, TInv, RunOK
    <3> QED BY <1>7, <2>1, <3>3, <3>4 DEF FailStep, TInv, LandingsType, RestType
  <2> QED BY <2>2, <2>3
<1> QED BY <1>2, <1>3, <1>4, <1>5, <1>6, <1>7

LEMMA TypeErrors ==
    ASSUME TInv, NEW r \in Runs,
           \/ DbErrorOutside(r) \/ DbErrorInside(r)
           \/ MarkFailed(r) \/ PublishFailed(r) \/ HandlerCut(r)
    PROVE  TInv'
<1> USE DEF TInv
<1>1. CASE DbErrorOutside(r)
  BY <1>1, TypeLeave DEF DbErrorOutside, Points, LandingsType, RestType
<1>2. CASE DbErrorInside(r)
  BY <1>2, TypeLeave DEF DbErrorInside, Thrown, Points, LandingsType, RestType
<1>3. CASE MarkFailed(r)
  BY <1>3, TypeGoto DEF MarkFailed, Points, HandlerPoints, LandingsType, RestType, Terminal
<1>4. CASE PublishFailed(r)
  BY <1>4, TypeLeave DEF PublishFailed, Points, LandingsType, RestType
<1>5. CASE HandlerCut(r)
  BY <1>5, TypeLeave DEF HandlerCut, Points, LandingsType, RestType
<1> QED BY <1>1, <1>2, <1>3, <1>4, <1>5

LEMMA TypeLateEffect ==
    ASSUME TInv, NEW n \in Nodes, NEW r \in Runs, LateEffect(n, r) PROVE TInv'
<1>1. LandingsType'
  BY DEF LateEffect, TInv, LandingsType
<1>2. RunOK' /\ Held'
  BY DEF LateEffect, TInv, RunOK, PositionOK, Current, Held, At
<1> QED BY <1>1, <1>2 DEF LateEffect, TInv, RestType

LEMMA TypeStep == TInv /\ [Next]_vars => TInv'
<1> SUFFICES ASSUME TInv, [Next]_vars PROVE TInv'
  OBVIOUS
<1>1. CASE UNCHANGED vars
  BY <1>1 DEF vars, TInv, RunOK, PositionOK, Current, Held, At, StepsType, LandingsType, RestType
<1>2. ASSUME NEW r \in Runs, Work(r) PROVE TInv'
  BY <1>2, TypeComplete, TypeFailAttempt, TypeFailStalled, TypeExecute, TypeLoop, TypeNode,
     TypeErrors DEF Work
<1>3. ASSUME NEW r \in Runs, Take(r) \/ LoseLock(r) \/ HandlerCut(r) PROVE TInv'
  BY <1>3, TypeTake, TypeLoseLock, TypeErrors
<1>4. ASSUME NEW r \in Runs, NEW n \in Nodes, LateEffect(n, r) PROVE TInv'
  BY <1>4, TypeLateEffect
<1> QED BY <1>1, <1>2, <1>3, <1>4 DEF Next

\* Every variable of an execution, and all that its runs hold in memory, keeps its type
\* in every reachable state, whatever the definition, the attempts and the stalls.
THEOREM TypeCorrect == Spec => []TypeOK
<1>1. Spec => []TInv
  BY TypeInit, TypeStep, PTL DEF Spec
<1> QED BY <1>1, TInvTypeOK, PTL

----------------------------------------------------------------------------------
(* At most one recordable side effect per action, over all attempts.  The         *)
(* invariant says which run may act, what it has not touched yet, where a landing *)
(* is remembered, and that a retry knows every success it did not make itself.    *)

Busy(r) == run[r].pc \in {"exec", "save", "fail"}
Resuming(r) == run[r].pc \in {"purge", "loop", "exec", "save", "fail"}
Ended(r) == run[r].pc \in {"idle", "halt"} \union HandlerPoints

\* Node n is still ahead of run r.
Ahead(n, r) ==
    \/ run[r].pc \in {"idle", "open", "load", "purge"}
    \/ At(r, "loop") /\ n >= Current(r)
    \/ Busy(r) /\ n > Current(r)

\* One run at a time, and the runs that had no turn yet are idle.
Turns ==
    /\ job.state = "active" => job.holder = job.attemptsMade + 1
    /\ \A r \in Runs :
          /\ ~Ended(r) => job.holder = r
          /\ r > job.attemptsMade + 1 => At(r, "idle")
          /\ r = job.attemptsMade + 1 /\ job.state \in {"waiting", "failed"} => At(r, "idle")

Untouched(r) ==
    \A n \in Nodes : Ahead(n, r) =>
        r \notin fired[n] /\ <<n, r>> \notin lost /\ steps[<<n, r>>] = "none"

\* A landing is on record, given up as lost, or about to be recorded.
Remembered(r) ==
    \A n \in Nodes :
        /\ r \in fired[n] =>
              /\ HasSideEffect(n)
              /\ \/ <<n, r>> \in lost
                 \/ steps[<<n, r>>] = "SUCCESS"
                 \/ At(r, "save") /\ Current(r) = n
        /\ <<n, r>> \in late => <<n, r>> \in lost /\ HasSideEffect(n)

\* The node a run has in hand is not one it could have reused.
InHand(r) ==
    /\ Busy(r) => Current(r) \notin Reused(r)
    /\ At(r, "exec") => r \notin fired[Current(r)] /\ <<Current(r), r>> \notin lost
    /\ At(r, "fail") /\ r \in fired[Current(r)] => <<Current(r), r>> \in lost

\* A retry has read every success that an earlier run recorded.
KnowsSuccesses(r) ==
    Resuming(r) =>
        \A n \in ActionNodes, q \in Runs \ {r} :
            steps[<<n, q>>] = "SUCCESS" => <<n, q>> \in run[r].keep

Once == \A n \in Nodes : \A q, r \in fired[n] :
            (<<n, q>> \notin lost /\ <<n, r>> \notin lost) => q = r

Aware(r) == Untouched(r) /\ Remembered(r) /\ InHand(r) /\ KnowsSuccesses(r)
EffectInv == Turns /\ (\A r \in Runs : Aware(r)) /\ Once
IInv == job.stalls = 0 => EffectInv

LEMMA EffectInit == Init => IInv
<1> SUFFICES ASSUME Init PROVE EffectInv
  BY DEF IInv
<1>1. \A r \in Runs : At(r, "idle") /\ Ended(r)
  BY DEF Init, NewRun, At, Ended
<1>2. Turns
  BY <1>1, RunSetFacts DEF Init, Turns
<1>3. ASSUME NEW r \in Runs PROVE Untouched(r) /\ Remembered(r)
  BY DEF Init, Untouched, Remembered, StepKeys
<1>4. ASSUME NEW r \in Runs PROVE InHand(r) /\ KnowsSuccesses(r)
  BY <1>1 DEF InHand, KnowsSuccesses, Busy, Resuming, At
<1>5. Once
  BY DEF Init, Once
<1> QED BY <1>2, <1>3, <1>4, <1>5 DEF EffectInv, Aware

\* While one run is at work, all others are out of the way.
LEMMA Alone ==
    ASSUME TInv, Turns, NEW r \in Runs, ~Ended(r), NEW q \in Runs \ {r}
    PROVE  Ended(q)
  BY DEF Turns

\* A run that moves on without leaving the ranks of the working ones.
LEMMA TurnsKept ==
    ASSUME TInv, Turns, NEW r \in Runs, NEW x, run' = [run EXCEPT ![r] = x], job' = job,
           run[r].pc # "idle", Ended(r) => x.pc \in {"halt"} \union HandlerPoints
    PROVE  Turns'
<1>1. \A q \in Runs \ {r} : run'[q] = run[q]
  BY DEF TInv, RunOK
<1>2. run'[r] = x
  BY DEF TInv, RunOK
<1>3. \A q \in Runs : At(q, "idle") => At(q, "idle")'
  BY <1>1 DEF At
<1>4. \A q \in Runs : ~Ended(q)' => job.holder = q
  BY <1>1, <1>2 DEF Ended, Turns
<1> QED BY <1>3, <1>4 DEF Turns

\* What a run must be aware of changes only with its own state, with what landed, or
\* with the successes of others.
DataUnchanged == UNCHANGED <<dryRun, steps, fired, late, lost>>

LEMMA AwareKept ==
    ASSUME NEW q \in Runs, Aware(q), run'[q] = run[q], DataUnchanged
    PROVE  Aware(q)'
<1>1. /\ \A n : Ahead(n, q)' = Ahead(n, q)
      /\ \A point : At(q, point)' = At(q, point)
      /\ Current(q)' = Current(q) /\ Reused(q)' = Reused(q)
      /\ Busy(q)' = Busy(q) /\ Resuming(q)' = Resuming(q)
  BY DEF Ahead, At, Current, Reused, Busy, Resuming
<1>2. Untouched(q)'
  BY <1>1 DEF Aware, Untouched, DataUnchanged
<1>3. Remembered(q)'
  BY <1>1 DEF Aware, Remembered, HasSideEffect, DataUnchanged
<1>4. InHand(q)'
  BY <1>1 DEF Aware, InHand, DataUnchanged
<1>5. KnowsSuccesses(q)'
  BY <1>1 DEF Aware, KnowsSuccesses, DataUnchanged
<1> QED BY <1>2, <1>3, <1>4, <1>5 DEF Aware

Out == {"close", "bury", "announce", "return", "throw", "halt"} \union HandlerPoints

\* A run that is done with its nodes has nothing more to uphold.
LEMMA OutAware ==
    ASSUME NEW r \in Runs, Aware(r), run'[r].pc \in Out, ~At(r, "save"), DataUnchanged
    PROVE  Aware(r)'
<1>1. Untouched(r)'
  BY DEF Untouched, Ahead, Busy, At, Out, HandlerPoints
<1>2. Remembered(r)'
  BY DEF Aware, Remembered, HasSideEffect, DataUnchanged
<1>3. InHand(r)' /\ KnowsSuccesses(r)'
  BY DEF InHand, KnowsSuccesses, Busy, Resuming, At, Out, HandlerPoints
<1> QED BY <1>1, <1>2, <1>3 DEF Aware

LEMMA OutData ==
    ASSUME TInv, EffectInv, NEW r \in Runs, NEW x, run' = [run EXCEPT ![r] = x],
           x.pc \in Out, ~At(r, "save"), DataUnchanged
    PROVE  (\A q \in Runs : Aware(q)') /\ Once'
<1>1. \A q \in Runs \ {r} : run'[q] = run[q]
  BY DEF TInv, RunOK
<1>2. run'[r].pc \in Out
  BY DEF TInv, RunOK
<1>3. Once'
  BY DEF Once, EffectInv, DataUnchanged
<1> QED BY <1>1, <1>2, <1>3, AwareKept, OutAware DEF EffectInv

LEMMA OutKept ==
    ASSUME TInv, EffectInv, NEW r \in Runs, NEW x, run' = [run EXCEPT ![r] = x],
           x.pc \in Out, run[r].pc \notin {"save", "idle"}, job' = job, DataUnchanged,
           Ended(r) => x.pc \in {"halt"} \union HandlerPoints
    PROVE  EffectInv'
<1>1. Turns'
  BY TurnsKept DEF EffectInv
<1>2. ~At(r, "save")
  BY DEF At
<1> QED BY <1>1, <1>2, OutData DEF EffectInv

\* Leaving the runner or the engine, and the failed event's handler.
LEMMA EffectLeave ==
    ASSUME TInv, EffectInv, NEW r \in Runs, NEW point \in Out, NEW result,
           Leave(r, point, result) \/ Goto(r, point),
           run[r].pc \notin {"save", "idle"}, job' = job, DataUnchanged,
           Ended(r) => point \in {"halt"} \union HandlerPoints
    PROVE  EffectInv'
<1>1. run[r] \in RunState
  BY DEF TInv, RunOK
<1>2. CASE Leave(r, point, result)
  <2> DEFINE x == [NewRun EXCEPT !.pc = point, !.result = result]
  <2>1. run' = [run EXCEPT ![r] = x] /\ x.pc = point
    BY <1>2 DEF Leave, NewRun
  <2> HIDE DEF x
  <2> QED BY <2>1, OutKept
<1>3. CASE Goto(r, point)
  <2> DEFINE x == [run[r] EXCEPT !.pc = point]
  <2>1. run' = [run EXCEPT ![r] = x] /\ x.pc = point
    BY <1>1, <1>3 DEF Goto, RunState
  <2> HIDE DEF x
  <2> QED BY <2>1, OutKept
<1> QED BY <1>2, <1>3

LEMMA EffectOut ==
    ASSUME TInv, EffectInv, NEW r \in Runs,
           \/ WorkflowNotFound(r) \/ RejectDefinition(r) \/ RunnerReturns(r)
           \/ Close(r) \/ Bury(r) \/ Announce(r)
           \/ DbErrorOutside(r) \/ DbErrorInside(r)
           \/ MarkFailed(r) \/ PublishFailed(r) \/ HandlerCut(r)
    PROVE  EffectInv'
<1> USE DEF At, Out, HandlerPoints, Ended, DataUnchanged
<1>1. CASE WorkflowNotFound(r)
  BY <1>1, EffectLeave DEF WorkflowNotFound
<1>2. CASE RejectDefinition(r)
  BY <1>2, EffectLeave DEF RejectDefinition
<1>3. CASE RunnerReturns(r)
  BY <1>3, EffectLeave DEF RunnerReturns
<1>4. CASE Close(r)
  BY <1>4, EffectLeave DEF Close
<1>5. CASE Bury(r)
  BY <1>5, EffectLeave DEF Bury
<1>6. CASE Announce(r)
  BY <1>6, EffectLeave DEF Announce
<1>7. CASE DbErrorOutside(r)
  BY <1>7, EffectLeave DEF DbErrorOutside
<1>8. CASE DbErrorInside(r)
  BY <1>8, EffectLeave DEF DbErrorInside, InLoop, Thrown
<1>9. CASE MarkFailed(r)
  BY <1>9, EffectLeave DEF MarkFailed
<1>10. CASE PublishFailed(r)
  BY <1>10, EffectLeave DEF PublishFailed
<1>11. CASE HandlerCut(r)
  BY <1>11, EffectLeave DEF HandlerCut
<1> QED BY <1>1, <1>2, <1>3, <1>4, <1>5, <1>6, <1>7, <1>8, <1>9, <1>10, <1>11

LEMMA EffectTake == ASSUME TInv, EffectInv, job.stalls = 0, NEW r \in Runs, Take(r) PROVE EffectInv'
<1>1. job' = [state |-> "active", attemptsMade |-> job.attemptsMade,
              stalls |-> job.stalls, holder |-> r]
  BY DEF Take, TInv, JobType
<1>2. /\ job.state = "waiting" /\ r = job.attemptsMade + 1 /\ Goto(r, "open")
      /\ DataUnchanged
  BY QueueAssumption DEF Take, TInv, JobType, DataUnchanged
<1>3. At(r, "idle") /\ \A q \in Runs : Ended(q)
  BY <1>2, RunSetFacts DEF EffectInv, Turns, TInv, Held
<1>4. (\A q \in Runs \ {r} : run'[q] = run[q]) /\ run'[r].pc = "open"
  BY <1>2 DEF Goto, TInv, RunOK, RunState
<1>5. Turns'
  <2>1. \A q \in Runs : ~Ended(q)' => q = r
    BY <1>3, <1>4 DEF Ended
  <2>2. \A q \in Runs : q > job.attemptsMade + 1 => At(q, "idle")'
    BY <1>2, <1>4 DEF EffectInv, Turns, At, Runs
  <2> QED BY <1>1, <1>2, <2>1, <2>2 DEF Turns
<1>6. Aware(r)'
  <2>1. Untouched(r)'
    BY <1>2, <1>3 DEF EffectInv, Aware, Untouched, Ahead, At, DataUnchanged
  <2>2. Remembered(r)'
    BY <1>2, <1>3 DEF EffectInv, Aware, Remembered, HasSideEffect, At, DataUnchanged
  <2>3. InHand(r)' /\ KnowsSuccesses(r)'
    BY <1>4 DEF InHand, KnowsSuccesses, Busy, Resuming, At
  <2> QED BY <2>1, <2>2, <2>3 DEF Aware
<1>7. \A q \in Runs : Aware(q)'
  BY <1>2, <1>4, <1>6, AwareKept DEF EffectInv
<1>8. Once'
  BY <1>2 DEF EffectInv, Once, DataUnchanged
<1> QED BY <1>5, <1>7, <1>8 DEF EffectInv

\* The job ends, or goes back to the wait list for the run after this one.
LEMMA EffectEnd ==
    ASSUME TInv, EffectInv, job.stalls = 0, NEW r \in Runs, NEW point \in {"halt", "mark"},
           run[r].pc \in {"return", "throw"}, Leave(r, point, "none"),
           job' \in JobType, job'.state # "active", DataUnchanged,
           \/ job'.state = "completed" /\ job'.attemptsMade = job.attemptsMade
           \/ job'.attemptsMade = job.attemptsMade + 1
    PROVE  EffectInv'
<1> DEFINE x == [NewRun EXCEPT !.pc = point, !.result = "none"]
<1>1. run' = [run EXCEPT ![r] = x] /\ x.pc = point
  BY DEF Leave, NewRun
<1> HIDE DEF x
<1>2. (\A q \in Runs \ {r} : run'[q] = run[q]) /\ run'[r].pc = point
  BY <1>1 DEF TInv, RunOK
<1>3. job.holder = r /\ job.state = "active" /\ r = job.attemptsMade + 1
  BY RunSetFacts DEF EffectInv, Turns, Ended, HandlerPoints, TInv, Held
<1>4. Turns'
  <2>1. \A q \in Runs : Ended(q)'
    BY <1>2, <1>3, Alone DEF EffectInv, Ended, HandlerPoints
  <2>2. \A q \in Runs : q > job.attemptsMade + 1 => At(q, "idle")'
    BY <1>2, <1>3 DEF EffectInv, Turns, At, Runs
  <2>3. job.attemptsMade \in Nat /\ job'.attemptsMade \in Nat
    BY QueueAssumption DEF TInv, JobType
  <2> QED BY <2>1, <2>2, <2>3 DEF Turns, Runs
<1> QED BY <1>1, <1>4, OutData DEF EffectInv, Out, HandlerPoints, At

LEMMA EffectQueue ==
    ASSUME TInv, TInv', EffectInv, job.stalls = 0, job'.stalls = 0, NEW r \in Runs,
           LoseLock(r) \/ Complete(r) \/ FailAttempt(r) \/ FailStalled(r)
    PROVE  EffectInv'
<1>1. CASE LoseLock(r)
  BY <1>1 DEF LoseLock, TInv, JobType
<1>2. CASE Complete(r)
  <2>1. job.holder = r
    BY <1>2 DEF EffectInv, Turns, Ended, HandlerPoints, Complete, At
  <2>2. job'.state = "completed" /\ job'.attemptsMade = job.attemptsMade
    BY <1>2, <2>1 DEF Complete, TInv, JobType
  <2> QED BY <1>2, <2>2, EffectEnd DEF Complete, At, DataUnchanged, TInv
<1>3. CASE FailAttempt(r)
  <2> DEFINE made == job.attemptsMade + 1
             state == IF GivesUp(made) THEN "failed" ELSE "waiting"
             point == IF Exhausted(made) THEN "mark" ELSE "halt"
  <2>1. job.holder = r
    BY <1>3 DEF EffectInv, Turns, Ended, HandlerPoints, FailAttempt, At
  <2>2. /\ job' = [job EXCEPT !.attemptsMade = made, !.holder = 0, !.state = state]
        /\ Leave(r, point, "none") /\ point \in {"halt", "mark"} /\ state # "active"
    BY <1>3, <2>1 DEF FailAttempt
  <2>3. job'.state = state /\ job'.attemptsMade = made
    <3> HIDE DEF made, state
    <3> QED BY <2>2 DEF TInv, JobType
  <2> HIDE DEF state, point
  <2> QED BY <1>3, <2>2, <2>3, EffectEnd DEF FailAttempt, At, DataUnchanged, TInv
<1>4. CASE FailStalled(r)
  BY <1>4, QueueAssumption DEF FailStalled, TInv, Held
<1> QED BY <1>1, <1>2, <1>3, <1>4

\* From here on run r works on the execution's steps, alone.  The runs that are out of
\* the way stay aware of what concerns them.
LEMMA Bystander ==
    ASSUME TInv, TInv', EffectInv, NEW r \in Runs, ~Ended(r), NEW q \in Runs \ {r},
           run'[q] = run[q], UNCHANGED dryRun,
           \A n \in Nodes :
              /\ (q \in fired[n]) <=> (q \in fired'[n])
              /\ (<<n, q>> \in late) <=> (<<n, q>> \in late')
              /\ (<<n, q>> \in lost) <=> (<<n, q>> \in lost')
              /\ steps'[<<n, q>>] = steps[<<n, q>>]
    PROVE  Aware(q)'
<1>1. Ended(q)
  BY Alone DEF EffectInv
<1>2. /\ \A n : Ahead(n, q)' = Ahead(n, q)
      /\ \A point : At(q, point)' = At(q, point)
      /\ Current(q)' = Current(q)
      /\ ~Busy(q)' /\ ~Resuming(q)' /\ ~At(q, "exec")' /\ ~At(q, "fail")'
  BY <1>1 DEF Ahead, At, Current, Busy, Resuming, Ended, HandlerPoints
<1>3. Untouched(q)'
  BY <1>2 DEF EffectInv, Aware, Untouched
<1>4. Remembered(q)'
  BY <1>2 DEF EffectInv, Aware, Remembered, HasSideEffect
<1>5. InHand(q)' /\ KnowsSuccesses(q)'
  BY <1>2 DEF InHand, KnowsSuccesses
<1> QED BY <1>3, <1>4, <1>5 DEF Aware

LEMMA EffectOpen == ASSUME TInv, EffectInv, NEW r \in Runs, Open(r) PROVE EffectInv'
<1>0. run[r] \in RunState
  BY DEF TInv, RunOK
<1> DEFINE x == [run[r] EXCEPT !.pc = "load"]
<1>1. run' = [run EXCEPT ![r] = x] /\ x.pc = "load"
  BY <1>0 DEF Open, Goto, RunState
<1> HIDE DEF x
<1>2. (\A q \in Runs \ {r} : run'[q] = run[q]) /\ run'[r].pc = "load"
  BY <1>1 DEF TInv, RunOK
<1>3. At(r, "open") /\ DataUnchanged /\ job' = job
  BY DEF Open, DataUnchanged
<1>4. Turns'
  BY <1>1, <1>3, TurnsKept DEF EffectInv, At, Ended, HandlerPoints
<1>5. Aware(r)'
  <2>1. Untouched(r)'
    BY <1>2, <1>3 DEF EffectInv, Aware, Untouched, Ahead, At, DataUnchanged
  <2>2. Remembered(r)'
    BY <1>2, <1>3 DEF EffectInv, Aware, Remembered, HasSideEffect, At, DataUnchanged
  <2>3. InHand(r)' /\ KnowsSuccesses(r)'
    BY <1>2 DEF InHand, KnowsSuccesses, Busy, Resuming, At
  <2> QED BY <2>1, <2>2, <2>3 DEF Aware
<1>6. \A q \in Runs : Aware(q)'
  BY <1>2, <1>3, <1>5, AwareKept DEF EffectInv
<1>7. Once'
  BY <1>3 DEF EffectInv, Once, DataUnchanged
<1> QED BY <1>4, <1>6, <1>7 DEF EffectInv

\* The read of the steps to reuse: every success there is becomes known.
LEMMA EffectLoadSteps == ASSUME TInv, EffectInv, NEW r \in Runs, LoadSteps(r) PROVE EffectInv'
<1>0. run[r] \in RunState
  BY DEF TInv, RunOK
<1> DEFINE point == IF \A k \in StepKeys : steps[k] = "none" THEN "loop" ELSE "purge"
           x == [run[r] EXCEPT !.keep = KeptSteps, !.pc = point]
<1>1. run' = [run EXCEPT ![r] = x] /\ point \in {"loop", "purge"}
  BY DEF LoadSteps
<1>2. x.pc \in {"loop", "purge"} /\ x.keep = KeptSteps /\ x.idx = run[r].idx
  <2> HIDE DEF point
  <2> QED BY <1>0, <1>1 DEF RunState
<1> HIDE DEF x
<1>3. /\ \A q \in Runs \ {r} : run'[q] = run[q]
      /\ run'[r].pc \in {"loop", "purge"} /\ run'[r].keep = KeptSteps
  BY <1>1, <1>2 DEF TInv, RunOK
<1>4. At(r, "load") /\ DataUnchanged /\ job' = job
  BY DEF LoadSteps, DataUnchanged
<1>5. Turns'
  BY <1>1, <1>4, TurnsKept DEF EffectInv, At, Ended, HandlerPoints
<1>6. Aware(r)'
  <2>1. Untouched(r)'
    BY <1>4 DEF EffectInv, Aware, Untouched, Ahead, At, DataUnchanged
  <2>2. Remembered(r)'
    BY <1>3, <1>4 DEF EffectInv, Aware, Remembered, HasSideEffect, At, DataUnchanged
  <2>3. InHand(r)'
    BY <1>3 DEF InHand, Busy, At
  <2>4. KnowsSuccesses(r)'
    BY <1>3, <1>4, GraphAssumption DEF KnowsSuccesses, KeptSteps, StepKeys, DataUnchanged
  <2> QED BY <2>1, <2>2, <2>3, <2>4 DEF Aware
<1>7. \A q \in Runs : Aware(q)'
  BY <1>3, <1>4, <1>6, AwareKept DEF EffectInv
<1>8. Once'
  BY <1>4 DEF EffectInv, Once, DataUnchanged
<1> QED BY <1>5, <1>7, <1>8 DEF EffectInv

\* The delete spares every success, so no landing is forgotten.
LEMMA EffectPurge == ASSUME TInv, TInv', EffectInv, NEW r \in Runs, Purge(r) PROVE EffectInv'
<1>0. run[r] \in RunState
  BY DEF TInv, RunOK
<1> DEFINE x == [run[r] EXCEPT !.pc = "loop"]
<1>1. run' = [run EXCEPT ![r] = x] /\ x.pc = "loop" /\ x.keep = run[r].keep
  BY <1>0 DEF Purge, Goto, RunState
<1> HIDE DEF x
<1>2. /\ \A q \in Runs \ {r} : run'[q] = run[q]
      /\ run'[r].pc = "loop" /\ run'[r].keep = run[r].keep
  BY <1>1 DEF TInv, RunOK
<1>3. At(r, "purge") /\ job' = job /\ UNCHANGED <<dryRun, fired, late, lost>>
  BY DEF Purge
<1>4. \A k \in StepKeys : steps'[k] = steps[k] \/ (k \notin run[r].keep /\ steps'[k] = "none")
  BY DEF Purge
<1>5. \A n \in ActionNodes, q \in Runs \ {r} :
         steps[<<n, q>>] = "SUCCESS" => steps'[<<n, q>>] = "SUCCESS"
  BY <1>3, <1>4, GraphAssumption DEF EffectInv, Aware, KnowsSuccesses, Resuming, At, StepKeys
<1>6. Turns'
  BY <1>1, <1>3, TurnsKept DEF EffectInv, At, Ended, HandlerPoints
<1>7. Aware(r)'
  <2>1. \A n \in Nodes : /\ r \notin fired[n] /\ <<n, r>> \notin lost /\ steps[<<n, r>>] = "none"
                         /\ steps'[<<n, r>>] = "none"
    BY <1>3, <1>4 DEF EffectInv, Aware, Untouched, Ahead, At, StepKeys
  <2>2. Untouched(r)' /\ Remembered(r)'
    BY <1>3, <2>1 DEF EffectInv, Aware, Untouched, Remembered, HasSideEffect
  <2>3. InHand(r)'
    BY <1>2 DEF InHand, Busy, At
  <2>4. KnowsSuccesses(r)'
    BY <1>2, <1>3, <1>4, GraphAssumption
       DEF EffectInv, Aware, KnowsSuccesses, Resuming, At, StepKeys
  <2> QED BY <2>2, <2>3, <2>4 DEF Aware
<1>8. ASSUME NEW q \in Runs \ {r} PROVE Aware(q)'
  <2>1. Ended(q)
    BY <1>3, Alone DEF EffectInv, Ended, At, HandlerPoints
  <2>2. ~Busy(q)' /\ ~Resuming(q)' /\ ~At(q, "exec")' /\ ~At(q, "fail")' /\ ~At(q, "save")
    BY <1>2, <2>1 DEF Ended, HandlerPoints, Busy, Resuming, At
  <2>3. Untouched(q)'
    <3>1. \A n \in Nodes : Ahead(n, q)' => Ahead(n, q)
      BY <1>2 DEF Ahead, At, Busy, Current
    <3>2. \A n \in Nodes : steps[<<n, q>>] = "none" => steps'[<<n, q>>] = "none"
      BY <1>4 DEF StepKeys
    <3> QED BY <1>3, <3>1, <3>2 DEF EffectInv, Aware, Untouched
  <2>4. Remembered(q)'
    BY <1>3, <1>5, <2>2 DEF EffectInv, Aware, Remembered, HasSideEffect
  <2>5. InHand(q)' /\ KnowsSuccesses(q)'
    BY <2>2 DEF InHand, KnowsSuccesses
  <2> QED BY <2>3, <2>4, <2>5 DEF Aware
<1>9. Once'
  BY <1>3 DEF EffectInv, Once
<1> QED BY <1>6, <1>7, <1>8, <1>9 DEF EffectInv

\* One node behind: nothing is left to recall of its landing but the step.
LEMMA EffectNext ==
    ASSUME TInv, TInv', EffectInv, NEW r \in Runs, NEW x, NEW status,
           At(r, "loop") \/ Busy(r), Current(r) \in Nodes,
           run' = [run EXCEPT ![r] = x],
           x.pc = "loop", x.idx = Current(r) + 1, x.keep = run[r].keep,
           steps' = steps \/ steps' = [steps EXCEPT ![<<Current(r), r>>] = status],
           UNCHANGED <<dryRun, job, fired, late, lost>>,
           r \in fired[Current(r)] =>
               <<Current(r), r>> \in lost \/ steps'[<<Current(r), r>>] = "SUCCESS"
    PROVE  EffectInv'
<1>1. /\ \A q \in Runs \ {r} : run'[q] = run[q]
      /\ run'[r].pc = "loop" /\ run'[r].keep = run[r].keep /\ run'[r].idx = Current(r) + 1
  BY DEF TInv, RunOK
<1>2. ~Ended(r) /\ run[r].pc # "idle" /\ Current(r) \in Nat
  BY GraphAssumption DEF Ended, HandlerPoints, At, Busy, Nodes
<1>3. \A n \in Nodes, q \in Runs :
         (n # Current(r) \/ q # r) => steps'[<<n, q>>] = steps[<<n, q>>]
  BY DEF TInv, StepsType, StepKeys
<1>4. Turns'
  BY <1>2, TurnsKept DEF EffectInv
<1>5. Aware(r)'
  <2>1. Untouched(r)'
    <3>1. \A n \in Nodes : Ahead(n, r)' => Ahead(n, r) /\ n # Current(r)
      BY <1>1, <1>2, GraphAssumption DEF Ahead, At, Busy, Current, Nodes
    <3> QED BY <1>3, <3>1 DEF EffectInv, Aware, Untouched
  <2>2. Remembered(r)'
    BY <1>3 DEF EffectInv, Aware, Remembered, HasSideEffect
  <2>3. InHand(r)'
    BY <1>1 DEF InHand, Busy, At
  <2>4. KnowsSuccesses(r)'
    BY <1>1, <1>3, GraphAssumption DEF EffectInv, Aware, KnowsSuccesses, Resuming, At, Busy
  <2> QED BY <2>1, <2>2, <2>3, <2>4 DEF Aware
<1>6. \A q \in Runs \ {r} : Aware(q)'
  BY <1>1, <1>2, <1>3, Bystander
<1>7. Once'
  BY DEF EffectInv, Once
<1> QED BY <1>4, <1>5, <1>6, <1>7 DEF EffectInv

\* Every way of advancing the loop has the form that EffectNext speaks of.
LEMMA AdvanceForm ==
    ASSUME TInv, NEW r \in Runs, NEW status, NEW targets, Advance(r, status, targets)
    PROVE  \E x : /\ run' = [run EXCEPT ![r] = x]
                  /\ x.pc = "loop" /\ x.idx = Current(r) + 1 /\ x.keep = run[r].keep
                  /\ x.failed = run[r].failed
<1>1. run[r] \in RunState
  BY DEF TInv, RunOK
<1> DEFINE v == [run[r].verdict EXCEPT ![run[r].idx] = status]
           reach == run[r].reach \union targets
           x == [run[r] EXCEPT !.pc = "loop", !.idx = run[r].idx + 1,
                               !.verdict = v, !.reach = reach]
<1>2. run' = [run EXCEPT ![r] = x]
  BY DEF Advance
<1>3. /\ x.pc = "loop" /\ x.idx = Current(r) + 1 /\ x.keep = run[r].keep
      /\ x.failed = run[r].failed
  <2> HIDE DEF v, reach
  <2> QED BY <1>1 DEF RunState, Current
<1> HIDE DEF x
<1> QED BY <1>2, <1>3

LEMMA FailForm ==
    ASSUME TInv, NEW r \in Runs,
           run' = [run EXCEPT ![r] =
              [run[r] EXCEPT !.pc = "loop", !.idx = Current(r) + 1, !.failed = TRUE,
                             !.verdict = [run[r].verdict EXCEPT ![Current(r)] = "FAILED"]]]
    PROVE  \E x : /\ run' = [run EXCEPT ![r] = x]
                  /\ x.pc = "loop" /\ x.idx = Current(r) + 1 /\ x.keep = run[r].keep
                  /\ x.failed = TRUE
<1>1. run[r] \in RunState
  BY DEF TInv, RunOK
<1> DEFINE v == [run[r].verdict EXCEPT ![Current(r)] = "FAILED"]
           x == [run[r] EXCEPT !.pc = "loop", !.idx = Current(r) + 1, !.failed = TRUE,
                               !.verdict = v]
<1>2. run' = [run EXCEPT ![r] = x]
  OBVIOUS
<1>3. x.pc = "loop" /\ x.idx = Current(r) + 1 /\ x.keep = run[r].keep /\ x.failed = TRUE
  <2> HIDE DEF v
  <2> QED BY <1>1 DEF RunState, Current
<1> HIDE DEF x
<1> QED BY <1>2, <1>3

LEMMA EffectPass ==
    ASSUME TInv, TInv', EffectInv, NEW r \in Runs,
           RecordNotRun(r) \/ Reuse(r) \/ PassThrough(r)
    PROVE  EffectInv'
<1>1. At(r, "loop") /\ Current(r) \in Nodes /\ Current(r) >= Current(r)
  BY GraphAssumption DEF RecordNotRun, Reuse, PassThrough, MayRun, InLoop, Nodes
<1>2. r \notin fired[Current(r)]
  BY <1>1 DEF EffectInv, Aware, Untouched, Ahead
<1>3. PICK x : /\ run' = [run EXCEPT ![r] = x]
               /\ x.pc = "loop" /\ x.idx = Current(r) + 1 /\ x.keep = run[r].keep
  BY AdvanceForm DEF RecordNotRun, Reuse, PassThrough
<1>4. UNCHANGED <<dryRun, job, fired, late, lost>>
  BY DEF RecordNotRun, Reuse, PassThrough
<1>5. \E status : steps' = steps \/ steps' = [steps EXCEPT ![<<Current(r), r>>] = status]
  BY DEF RecordNotRun, Reuse, PassThrough, Record
<1> QED BY <1>1, <1>2, <1>3, <1>4, <1>5, EffectNext

LEMMA EffectFinish ==
    ASSUME TInv, TInv', EffectInv, NEW r \in Runs,
           (\E branch \in Handles : SaveStep(r, branch)) \/ FailStep(r)
    PROVE  EffectInv'
<1>1. Current(r) \in Nodes /\ Busy(r)
  BY DEF SaveStep, FailStep, TInv, RunOK, PositionOK, At, Busy
<1>2. PICK x : /\ run' = [run EXCEPT ![r] = x]
               /\ x.pc = "loop" /\ x.idx = Current(r) + 1 /\ x.keep = run[r].keep
  BY AdvanceForm, FailForm DEF SaveStep, FailStep
<1>3. UNCHANGED <<dryRun, job, fired, late, lost>>
  BY DEF SaveStep, FailStep
<1>4. CASE \E branch \in Handles : SaveStep(r, branch)
  <2>1. steps' = [steps EXCEPT ![<<Current(r), r>>] = "SUCCESS"]
    BY <1>4 DEF SaveStep, Record
  <2>2. steps'[<<Current(r), r>>] = "SUCCESS"
    BY <1>1, <2>1 DEF TInv, StepsType, StepKeys
  <2> QED BY <1>1, <1>2, <1>3, <2>1, <2>2, EffectNext
<1>5. CASE FailStep(r)
  <2>1. steps' = [steps EXCEPT ![<<Current(r), r>>] = "FAILED"]
    BY <1>5 DEF FailStep, Record
  <2>2. r \in fired[Current(r)] => <<Current(r), r>> \in lost
    BY <1>5 DEF FailStep, EffectInv, Aware, InHand
  <2> QED BY <1>1, <1>2, <1>3, <2>1, <2>2, EffectNext
<1> QED BY <1>4, <1>5

\* A step of run r that stays with its node.
LEMMA StayForm ==
    ASSUME TInv, NEW r \in Runs, NEW point, Goto(r, point)
    PROVE  /\ run' = [run EXCEPT ![r] = [run[r] EXCEPT !.pc = point]]
           /\ \A q \in Runs \ {r} : run'[q] = run[q]
           /\ run'[r].pc = point /\ run'[r].idx = run[r].idx /\ run'[r].keep = run[r].keep
           /\ [run[r] EXCEPT !.pc = point].pc = point
  BY DEF Goto, TInv, RunOK, RunState

LEMMA EffectStay ==
    ASSUME TInv, TInv', EffectInv, NEW r \in Runs, NEW point \in {"exec", "save", "fail"},
           At(r, "loop") \/ Busy(r), Current(r) \in Nodes, Goto(r, point),
           UNCHANGED <<dryRun, job>>,
           \* only what concerns run r and its node may change
           \A n \in Nodes, q \in Runs : (n # Current(r) \/ q # r) =>
              /\ (q \in fired[n]) <=> (q \in fired'[n])
              /\ (<<n, q>> \in late) <=> (<<n, q>> \in late')
              /\ (<<n, q>> \in lost) <=> (<<n, q>> \in lost')
              /\ steps'[<<n, q>>] = steps[<<n, q>>],
           Current(r) \notin Reused(r),
           point = "exec" => r \notin fired'[Current(r)] /\ <<Current(r), r>> \notin lost',
           point = "fail" /\ r \in fired'[Current(r)] => <<Current(r), r>> \in lost',
           <<Current(r), r>> \in late' => <<Current(r), r>> \in lost' /\ HasSideEffect(Current(r)),
           r \in fired'[Current(r)] => HasSideEffect(Current(r)),
           \A q \in Runs \ {r} : (q \in fired[Current(r)] /\ r \in fired'[Current(r)]) =>
              <<Current(r), q>> \in lost \/ <<Current(r), r>> \in lost'
    PROVE  EffectInv'
<1>1. /\ run' = [run EXCEPT ![r] = [run[r] EXCEPT !.pc = point]]
      /\ \A q \in Runs \ {r} : run'[q] = run[q]
      /\ run'[r].pc = point /\ run'[r].idx = run[r].idx /\ run'[r].keep = run[r].keep
      /\ [run[r] EXCEPT !.pc = point].pc = point
  BY StayForm
<1>2. ~Ended(r) /\ run[r].pc # "idle" /\ Current(r) \in Nat /\ Current(r)' = Current(r)
  BY <1>1, GraphAssumption DEF Ended, HandlerPoints, At, Busy, Nodes, Current
<1>3. Turns'
  BY <1>1, <1>2, TurnsKept DEF EffectInv
<1>4. Aware(r)'
  <2>1. Untouched(r)'
    <3>1. \A n \in Nodes : Ahead(n, r)' => Ahead(n, r) /\ n # Current(r)
      BY <1>1, <1>2, GraphAssumption DEF Ahead, At, Busy, Current, Nodes
    <3> QED BY <3>1 DEF EffectInv, Aware, Untouched
  <2>2. Remembered(r)'
    <3>1. ASSUME NEW n \in Nodes, n # Current(r)
          PROVE  /\ r \in fired'[n] =>
                      HasSideEffect(n)' /\ (<<n, r>> \in lost' \/ steps'[<<n, r>>] = "SUCCESS")
                 /\ <<n, r>> \in late' => <<n, r>> \in lost' /\ HasSideEffect(n)'
      BY <3>1 DEF EffectInv, Aware, Remembered, HasSideEffect
    <3>2. r \in fired'[Current(r)] => <<Current(r), r>> \in lost' \/ At(r, "save")'
      BY <1>1 DEF At
    <3> QED BY <1>2, <3>1, <3>2 DEF Remembered, HasSideEffect
  <2>3. InHand(r)'
    <3>1. Reused(r)' = Reused(r)
      BY <1>1 DEF Reused
    <3> QED BY <1>1, <1>2, <3>1 DEF InHand, At
  <2>4. KnowsSuccesses(r)'
    BY <1>1, GraphAssumption DEF EffectInv, Aware, KnowsSuccesses, Resuming, At, Busy
  <2> QED BY <2>1, <2>2, <2>3, <2>4 DEF Aware
<1>5. \A q \in Runs \ {r} : Aware(q)'
  BY <1>1, <1>2, Bystander
<1>6. Once'
  <2> SUFFICES ASSUME NEW n \in Nodes, NEW p \in fired'[n], NEW q \in fired'[n],
                      <<n, p>> \notin lost', <<n, q>> \notin lost'
               PROVE  p = q
    BY DEF Once
  <2>1. p \in Runs /\ q \in Runs
    BY DEF TInv, LandingsType
  <2>2. CASE n # Current(r) \/ (p # r /\ q # r)
    BY <2>1, <2>2 DEF EffectInv, Once
  <2>3. CASE n = Current(r) /\ (p = r \/ q = r)
    BY <2>1, <2>3
  <2> QED BY <2>2, <2>3
<1> QED BY <1>3, <1>4, <1>5, <1>6 DEF EffectInv

\* The heart of the argument: what an earlier run landed and did not lose is a recorded
\* success, so run r, which knows it, would have reused the node instead of running it.
LEMMA NotLandedBefore ==
    ASSUME TInv, EffectInv, NEW r \in Runs, Busy(r), NEW q \in Runs \ {r},
           q \in fired[Current(r)]
    PROVE  <<Current(r), q>> \in lost
<1>1. Current(r) \in Nodes /\ ~Ended(r)
  BY DEF TInv, RunOK, PositionOK, Busy, Ended, HandlerPoints
<1>2. ~At(q, "save")
  BY <1>1, Alone DEF EffectInv, Ended, HandlerPoints, At
<1>3. HasSideEffect(Current(r))
  BY <1>1 DEF EffectInv, Aware, Remembered
<1>4. steps[<<Current(r), q>>] # "SUCCESS"
  BY <1>1, <1>3 DEF EffectInv, Aware, InHand, KnowsSuccesses, Busy, Resuming, Reused, HasSideEffect
<1> QED BY <1>1, <1>2, <1>4 DEF EffectInv, Aware, Remembered

LEMMA EffectStart == ASSUME TInv, TInv', EffectInv, NEW r \in Runs, StartNode(r) PROVE EffectInv'
<1>1. /\ At(r, "loop") /\ Current(r) \in Nodes /\ Current(r) \notin Reused(r)
      /\ Goto(r, "exec") /\ UNCHANGED <<dryRun, job, fired, late, lost>>
      /\ steps' = [steps EXCEPT ![<<Current(r), r>>] = "RUNNING"]
  BY DEF StartNode, MayRun, InLoop, Record
<1>2. r \notin fired[Current(r)] /\ <<Current(r), r>> \notin lost
  BY <1>1, GraphAssumption DEF EffectInv, Aware, Untouched, Ahead, Nodes
<1>3. \A n \in Nodes, q \in Runs : (n # Current(r) \/ q # r) => steps'[<<n, q>>] = steps[<<n, q>>]
  BY <1>1 DEF TInv, StepsType, StepKeys
<1>4. <<Current(r), r>> \notin late
  BY <1>1, <1>2 DEF EffectInv, Aware, Remembered
<1> QED BY <1>1, <1>2, <1>3, <1>4, EffectStay

LEMMA EffectExecute ==
    ASSUME TInv, TInv', EffectInv, NEW r \in Runs,
           \/ ExecutorReturns(r) \/ ExecutorTimesOut(r) \/ SaveStepThrows(r)
           \/ \E landed \in BOOLEAN : ExecutorThrows(r, landed)
    PROVE  EffectInv'
<1>1. Busy(r) /\ Current(r) \in Nodes
  BY DEF ExecutorReturns, ExecutorTimesOut, SaveStepThrows, ExecutorThrows,
         TInv, RunOK, PositionOK, At, Busy
<1>2. Current(r) \notin Reused(r)
  BY <1>1 DEF EffectInv, Aware, InHand
<1>3. \A q \in Runs \ {r} : q \in fired[Current(r)] => <<Current(r), q>> \in lost
  BY <1>1, NotLandedBefore
<1>4. \A n \in Nodes, q \in Runs : (n # Current(r) \/ q # r) =>
              /\ (q \in fired[n]) <=> (q \in fired'[n])
              /\ (<<n, q>> \in late) <=> (<<n, q>> \in late')
              /\ (<<n, q>> \in lost) <=> (<<n, q>> \in lost')
              /\ steps'[<<n, q>>] = steps[<<n, q>>]
  BY DEF ExecutorReturns, ExecutorTimesOut, SaveStepThrows, ExecutorThrows, TInv, LandingsType
<1>5. UNCHANGED <<dryRun, job>>
  BY DEF ExecutorReturns, ExecutorTimesOut, SaveStepThrows, ExecutorThrows
<1>6. /\ r \in fired[Current(r)] => HasSideEffect(Current(r))
      /\ <<Current(r), r>> \in late => <<Current(r), r>> \in lost /\ HasSideEffect(Current(r))
  BY <1>1 DEF EffectInv, Aware, Remembered
<1>7. CASE ExecutorReturns(r)
  <2>1. Goto(r, "save") /\ UNCHANGED <<late, lost>>
    BY <1>7 DEF ExecutorReturns
  <2>2. r \in fired'[Current(r)] => HasSideEffect(Current(r))
    BY <1>6, <1>7 DEF ExecutorReturns
  <2> QED BY <1>1, <1>2, <1>3, <1>4, <1>5, <1>6, <2>1, <2>2, EffectStay
<1>8. CASE ExecutorTimesOut(r)
  <2>1. Goto(r, "fail") /\ UNCHANGED fired /\ r \notin fired[Current(r)]
    BY <1>8 DEF ExecutorTimesOut, EffectInv, Aware, InHand
  <2>2. <<Current(r), r>> \in late' => <<Current(r), r>> \in lost' /\ HasSideEffect(Current(r))
    BY <1>6, <1>8 DEF ExecutorTimesOut
  <2> QED BY <1>1, <1>2, <1>3, <1>4, <1>5, <1>6, <2>1, <2>2, EffectStay
<1>9. CASE SaveStepThrows(r)
  <2>1. Goto(r, "fail") /\ UNCHANGED <<fired, late>>
    BY <1>9 DEF SaveStepThrows
  <2>2. /\ r \in fired[Current(r)] => <<Current(r), r>> \in lost'
        /\ <<Current(r), r>> \in late => <<Current(r), r>> \in lost'
    BY <1>6, <1>9 DEF SaveStepThrows
  <2> QED BY <1>1, <1>2, <1>3, <1>4, <1>5, <1>6, <2>1, <2>2, EffectStay
<1>10. ASSUME NEW landed \in BOOLEAN, ExecutorThrows(r, landed) PROVE EffectInv'
  <2>1. Goto(r, "fail") /\ UNCHANGED late /\ r \notin fired[Current(r)]
    BY <1>10 DEF ExecutorThrows, EffectInv, Aware, InHand
  <2>2. r \in fired'[Current(r)] => HasSideEffect(Current(r)) /\ <<Current(r), r>> \in lost'
    BY <1>10, <2>1 DEF ExecutorThrows
  <2>3. <<Current(r), r>> \in late => <<Current(r), r>> \in lost'
    BY <1>6, <1>10 DEF ExecutorThrows
  <2> QED BY <1>1, <1>2, <1>3, <1>4, <1>5, <1>6, <2>1, <2>2, <2>3, EffectStay
<1> QED BY <1>7, <1>8, <1>9, <1>10

\* An abandoned executor's side effect was given up as lost when it was abandoned.
LEMMA EffectLate ==
    ASSUME TInv, TInv', EffectInv, NEW n \in Nodes, NEW r \in Runs, LateEffect(n, r)
    PROVE  EffectInv'
<1>1. /\ <<n, r>> \in late /\ <<n, r>> \in lost /\ HasSideEffect(n)
      /\ UNCHANGED <<dryRun, job, steps, run, lost>>
  BY DEF LateEffect, EffectInv, Aware, Remembered
<1>2. /\ \A m \in Nodes, q \in Runs : q \in fired'[m] <=> (q \in fired[m] \/ (m = n /\ q = r))
      /\ late' \subseteq late
  BY DEF LateEffect, TInv, LandingsType
<1>3. /\ \A q \in Runs : \A m : Ahead(m, q)' = Ahead(m, q)
      /\ \A q \in Runs : \A point : At(q, point)' = At(q, point)
      /\ \A q \in Runs : /\ Current(q)' = Current(q) /\ Reused(q)' = Reused(q)
                         /\ Busy(q)' = Busy(q) /\ Resuming(q)' = Resuming(q)
                         /\ Ended(q)' = Ended(q)
  BY <1>1 DEF Ahead, At, Current, Reused, Busy, Resuming, Ended
<1>4. Turns'
  BY <1>1, <1>3 DEF EffectInv, Turns
<1>5. ASSUME NEW q \in Runs PROVE Aware(q)'
  <2>1. Untouched(q)'
    BY <1>1, <1>2, <1>3 DEF EffectInv, Aware, Untouched
  <2>2. Remembered(q)'
    BY <1>1, <1>2, <1>3 DEF EffectInv, Aware, Remembered, HasSideEffect
  <2>3. InHand(q)'
    <3>1. Busy(q) => Current(q) \in Nodes
      BY DEF TInv, RunOK, PositionOK, Busy
    <3> QED BY <1>1, <1>2, <1>3, <3>1 DEF EffectInv, Aware, InHand, Busy, At
  <2>4. KnowsSuccesses(q)'
    BY <1>1, <1>3 DEF EffectInv, Aware, KnowsSuccesses
  <2> QED BY <2>1, <2>2, <2>3, <2>4 DEF Aware
<1>6. Once'
  <2> SUFFICES ASSUME NEW m \in Nodes, NEW p \in fired'[m], NEW q \in fired'[m],
                      <<m, p>> \notin lost', <<m, q>> \notin lost'
               PROVE  p = q
    BY DEF Once
  <2>1. p \in Runs /\ q \in Runs
    BY DEF TInv, LandingsType
  <2>2. p \in fired[m] /\ q \in fired[m]
    BY <1>1, <1>2, <2>1
  <2> QED BY <1>1, <2>2 DEF EffectInv, Once
<1> QED BY <1>4, <1>5, <1>6 DEF EffectInv

\* The count of stalls changes only when a lock is lost.
LEMMA StallsKept ==
    ASSUME TInv, [Next]_vars
    PROVE  job'.stalls = job.stalls \/ (job'.stalls > 0 /\ \E r \in Runs : LoseLock(r))
<1>0. job.stalls \in Nat
  BY QueueAssumption DEF TInv, JobType
<1>1. CASE UNCHANGED vars
  BY <1>1 DEF vars
<1>2. ASSUME NEW r \in Runs, Take(r) \/ Complete(r) \/ FailStalled(r)
      PROVE  job'.stalls = job.stalls
  BY <1>2 DEF Take, Complete, FailStalled, TInv, JobType
<1>3. ASSUME NEW r \in Runs, FailAttempt(r) PROVE job'.stalls = job.stalls
  <2> DEFINE made == job.attemptsMade + 1
             state == IF GivesUp(made) THEN "failed" ELSE "waiting"
  <2>1. [job EXCEPT !.attemptsMade = made, !.holder = 0, !.state = state].stalls = job.stalls
    <3> HIDE DEF made, state
    <3> QED BY DEF TInv, JobType
  <2> QED BY <1>3, <2>1 DEF FailAttempt
<1>4. ASSUME NEW r \in Runs, LoseLock(r) PROVE job'.stalls > 0
  BY <1>0, <1>4 DEF LoseLock, TInv, JobType
<1>5. ASSUME NEW r \in Runs, NEW n \in Nodes, LateEffect(n, r) PROVE job' = job
  BY <1>5 DEF LateEffect
<1>6. ASSUME NEW r \in Runs, Work(r) \/ HandlerCut(r),
             ~(Complete(r) \/ FailAttempt(r) \/ FailStalled(r))
      PROVE  job' = job
  BY <1>6 DEF Work, HandlerCut, Open, WorkflowNotFound, RejectDefinition, RunnerReturns, Close,
              Bury, Announce, LoadSteps, Purge, RecordNotRun, Reuse, PassThrough, StartNode,
              ExecutorReturns, ExecutorTimesOut, ExecutorThrows, SaveStep, SaveStepThrows,
              FailStep, DbErrorOutside, DbErrorInside, MarkFailed, PublishFailed
<1> QED BY <1>1, <1>2, <1>3, <1>4, <1>5, <1>6 DEF Next

LEMMA EffectStep == TInv /\ TInv' /\ IInv /\ [Next]_vars => IInv'
<1> SUFFICES ASSUME TInv, TInv', IInv, [Next]_vars, job'.stalls = 0 PROVE EffectInv'
  BY DEF IInv
<1>1. CASE UNCHANGED vars
  <2>1. job.stalls = 0 /\ DataUnchanged /\ UNCHANGED <<run, job>>
    BY <1>1 DEF vars, DataUnchanged
  <2>2. \A q \in Runs : Aware(q)'
    BY <2>1, AwareKept DEF IInv, EffectInv
  <2>3. Turns' /\ Once'
    BY <2>1 DEF IInv, EffectInv, Turns, Ended, At, Once, DataUnchanged
  <2> QED BY <2>2, <2>3 DEF EffectInv
<1>2. ASSUME NEW r \in Runs, Take(r) \/ LoseLock(r) \/ HandlerCut(r) \/ Work(r) PROVE EffectInv'
  <2>1. job.stalls = 0 /\ ~LoseLock(r)
    <3>1. job.stalls = 0
      BY StallsKept
    <3>2. LoseLock(r) => job'.stalls = job.stalls + 1
      BY DEF LoseLock, TInv, JobType
    <3> QED BY <3>1, <3>2
  <2>2. EffectInv
    BY <2>1 DEF IInv
  <2> QED BY <1>2, <2>1, <2>2, EffectTake, EffectQueue, EffectOpen, EffectLoadSteps, EffectPurge,
             EffectOut, EffectPass, EffectStart, EffectExecute, EffectFinish DEF Work
<1>3. ASSUME NEW r \in Runs, NEW n \in Nodes, LateEffect(n, r) PROVE EffectInv'
  <2>1. EffectInv
    BY <1>3 DEF IInv, LateEffect
  <2> QED BY <1>3, <2>1, EffectLate
<1> QED BY <1>1, <1>2, <1>3 DEF Next

\* Along every behaviour the types are right and, as long as no lock was lost, what a run
\* knows is what has happened.
LEMMA EffectAlways == Spec => [](TInv /\ IInv)
<1>1. TInv /\ [Next]_vars => TInv'
  BY TypeStep
<1> QED BY <1>1, TypeInit, EffectInit, EffectStep, PTL DEF Spec

\* While no lock was lost, an action lands at most once in a way that a SUCCESS step can
\* record: step-level resume never repeats what it could have known about.
THEOREM RecordedEffectsLandOnce == Spec => []AtMostOneRecordedEffect
<1>1. IInv => AtMostOneRecordedEffect
  BY DEF IInv, EffectInv, Once, AtMostOneRecordedEffect
<1> QED BY <1>1, EffectAlways, PTL

----------------------------------------------------------------------------------
(* The outcome.  Where a run stands says what the row shows, what was told and    *)
(* what the dead-letter queue holds; the job's state says it once all runs are    *)
(* out of the way.                                                                *)

Untold == announced = {} /\ dlq = 0
Unsettled == row \in {"PENDING", "RUNNING"} /\ Untold
Standing(r) ==
    /\ run[r].pc \in {"open", "bury", "throw", "mark"} => Unsettled
    /\ Resuming(r) \/ run[r].pc \in {"load", "close"} => row = "RUNNING" /\ Untold
    /\ At(r, "announce") => row \in Terminal /\ row = run[r].result /\ Untold
    /\ At(r, "return") => row \in Terminal /\ announced = {row} /\ dlq = 0
    /\ At(r, "obituary") => row = "FAILED" /\ Untold
    /\ At(r, "bin") => dlq = 0 /\ (unmarked \/ (row = "FAILED" /\ announced = {"FAILED"}))
    /\ run[r].pc \in HandlerPoints => job.state = "failed" /\ r = job.attemptsMade

Verdict ==
    /\ job.state = "waiting" => Unsettled
    /\ job.state = "completed" => row \in Terminal /\ announced = {row} /\ dlq = 0
    /\ job.state = "failed" =>
          \/ \E r \in Runs : run[r].pc \in HandlerPoints
          \/ unmarked
          \/ row = "FAILED" /\ announced = {"FAILED"} /\ dlq = 1

Outcome == (\A r \in Runs : Standing(r)) /\ Verdict
OutcomeInv == job.stalls = 0 => Outcome

\* Before the first activation the row is PENDING and nobody was told anything.
LEMMA OutcomeInit == Init => OutcomeInv
<1> SUFFICES ASSUME Init PROVE Outcome
  BY DEF OutcomeInv
<1>1. \A r \in Runs : run[r].pc = "idle"
  BY DEF Init, NewRun
<1>2. \A r \in Runs : Standing(r)
  BY <1>1 DEF Standing, At, Resuming, HandlerPoints
<1>3. Verdict
  BY DEF Init, Verdict, Unsettled, Untold
<1> QED BY <1>2, <1>3 DEF Outcome

\* A run that is out of the way stands for nothing.
Gone(q) == run[q].pc \in {"idle", "halt"}

LEMMA GoneStands == ASSUME NEW q, Gone(q)' PROVE Standing(q)'
  BY DEF Gone, Standing, At, Resuming, HandlerPoints

\* All runs are out of the way but the one at work or in the failed event's handler.
LEMMA OthersGone ==
    ASSUME TInv, Turns, Outcome, NEW r \in Runs, ~Gone(r), NEW q \in Runs \ {r}
    PROVE  Gone(q)
<1>1. CASE ~Ended(r)
  <2>1. job.state = "active"
    BY <1>1, RunSetFacts DEF Turns, TInv, Held
  <2> QED BY <1>1, <2>1, Alone DEF Outcome, Standing, Ended, Gone
<1>2. CASE Ended(r)
  <2>1. run[r].pc \in HandlerPoints
    BY <1>2 DEF Ended, Gone
  <2>2. job.state = "failed" /\ r = job.attemptsMade
    BY <2>1 DEF Outcome, Standing
  <2>3. Ended(q)
    BY <2>2, RunSetFacts DEF Turns, TInv, Held
  <2> QED BY <2>2, <2>3 DEF Outcome, Standing, Ended, Gone
<1> QED BY <1>1, <1>2

\* A run moves on, and stands where it goes.
LEMMA OutcomeMoves ==
    ASSUME TInv, Turns, Outcome, NEW r \in Runs, ~Gone(r),
           \A q \in Runs \ {r} : run'[q] = run[q], Standing(r)', Verdict'
    PROVE  Outcome'
<1>1. \A q \in Runs \ {r} : Gone(q)'
  BY OthersGone DEF Gone
<1> QED BY <1>1, GoneStands DEF Outcome

\* While a run is at work the job is active, and its state says nothing yet.
LEMMA OutcomeWorks ==
    ASSUME TInv, Turns, Outcome, NEW r \in Runs, ~Ended(r), job' = job,
           \A q \in Runs \ {r} : run'[q] = run[q], Standing(r)'
    PROVE  Outcome'
<1>1. job.state = "active"
  BY RunSetFacts DEF Turns, TInv, Held
<1>2. Verdict'
  BY <1>1 DEF Verdict
<1> QED BY <1>2, OutcomeMoves DEF Ended, Gone

\* What a run is after Leave and after Goto.
LEMMA LeaveForm ==
    ASSUME TInv, NEW r \in Runs, NEW point, NEW result, Leave(r, point, result)
    PROVE  /\ \A q \in Runs \ {r} : run'[q] = run[q]
           /\ run'[r].pc = point /\ run'[r].result = result
           /\ run'[r].idx = 1 /\ run'[r].keep = {} /\ ~run'[r].failed
  BY DEF Leave, NewRun, TInv, RunOK

LEMMA GotoForm ==
    ASSUME TInv, NEW r \in Runs, NEW point, Goto(r, point)
    PROVE  /\ \A q \in Runs \ {r} : run'[q] = run[q]
           /\ run'[r].pc = point /\ run'[r].result = run[r].result
           /\ run'[r].idx = run[r].idx /\ run'[r].keep = run[r].keep
           /\ run'[r].failed = run[r].failed
  BY DEF Goto, TInv, RunOK, RunState

\* In the engine, around the runner.
LEMMA OutcomeExecute ==
    ASSUME TInv, Turns, Outcome, NEW r \in Runs,
           \/ Open(r) \/ WorkflowNotFound(r) \/ RejectDefinition(r)
           \/ RunnerReturns(r) \/ Close(r) \/ Bury(r)
           \/ (At(r, "announce") /\ Announce(r))
           \/ DbErrorOutside(r) \/ DbErrorInside(r)
    PROVE  Outcome'
<1> USE DEF At, Resuming, HandlerPoints, Terminal, Unsettled, Untold
<1>0. Standing(r)
  BY DEF Outcome
<1>1. CASE Open(r)
  <2>1. Standing(r)'
    BY <1>0, <1>1, GotoForm DEF Open, Standing
  <2> QED BY <1>1, <2>1, GotoForm, OutcomeWorks DEF Open, Ended
<1>2. CASE WorkflowNotFound(r)
  <2>1. Standing(r)'
    BY <1>0, <1>2, LeaveForm DEF WorkflowNotFound, Standing
  <2> QED BY <1>2, <2>1, LeaveForm, OutcomeWorks DEF WorkflowNotFound, Ended
<1>3. CASE RejectDefinition(r)
  <2>1. Standing(r)'
    BY <1>0, <1>3, LeaveForm DEF RejectDefinition, Standing
  <2> QED BY <1>3, <2>1, LeaveForm, OutcomeWorks DEF RejectDefinition, Ended
<1>4. CASE RunnerReturns(r)
  <2>1. Standing(r)'
    BY <1>0, <1>4, LeaveForm DEF RunnerReturns, Standing
  <2> QED BY <1>4, <2>1, LeaveForm, OutcomeWorks DEF RunnerReturns, Ended
<1>5. CASE Close(r)
  <2>1. run[r].result \in Terminal
    BY <1>5 DEF Close, TInv, RunOK, PositionOK
  <2>2. Standing(r)'
    BY <1>0, <1>5, <2>1, GotoForm DEF Close, Standing
  <2> QED BY <1>5, <2>2, GotoForm, OutcomeWorks DEF Close, Ended
<1>6. CASE Bury(r)
  <2>1. Standing(r)'
    BY <1>0, <1>6, LeaveForm DEF Bury, Standing
  <2> QED BY <1>6, <2>1, LeaveForm, OutcomeWorks DEF Bury, Ended
<1>7. CASE At(r, "announce") /\ Announce(r)
  <2>1. Standing(r)'
    BY <1>0, <1>7, LeaveForm DEF Announce, Standing
  <2> QED BY <1>7, <2>1, LeaveForm, OutcomeWorks DEF Announce, Ended
<1>8. CASE DbErrorOutside(r)
  <2>1. Standing(r)'
    BY <1>0, <1>8, LeaveForm DEF DbErrorOutside, Standing
  <2> QED BY <1>8, <2>1, LeaveForm, OutcomeWorks DEF DbErrorOutside, Ended
<1>9. CASE DbErrorInside(r)
  <2>1. Leave(r, Thrown, "none") /\ Thrown \in {"bury", "throw"}
        /\ UNCHANGED <<job, row, announced, dlq, unmarked>>
    BY <1>9 DEF DbErrorInside, Thrown
  <2>2. row = "RUNNING" /\ Untold /\ ~Ended(r)
    BY <1>0, <1>9 DEF DbErrorInside, InLoop, Standing, Ended
  <2>3. Standing(r)'
    BY <2>1, <2>2, LeaveForm DEF Standing
  <2> QED BY <2>1, <2>2, <2>3, LeaveForm, OutcomeWorks
<1> QED BY <1>1, <1>2, <1>3, <1>4, <1>5, <1>6, <1>7, <1>8, <1>9

\* What a run is after LoadSteps.
LEMMA LoadForm ==
    ASSUME TInv, NEW r \in Runs, LoadSteps(r)
    PROVE  \E x : /\ run' = [run EXCEPT ![r] = x]
                  /\ x.pc \in {"loop", "purge"} /\ x.keep = KeptSteps /\ x.idx = run[r].idx
                  /\ (\E k \in StepKeys : steps[k] # "none") => x.pc = "purge"
<1>1. run[r] \in RunState
  BY DEF TInv, RunOK
<1> DEFINE point == IF \A k \in StepKeys : steps[k] = "none" THEN "loop" ELSE "purge"
           x == [run[r] EXCEPT !.keep = KeptSteps, !.pc = point]
<1>2. /\ run' = [run EXCEPT ![r] = x] /\ point \in {"loop", "purge"}
      /\ (\E k \in StepKeys : steps[k] # "none") => point = "purge"
  BY DEF LoadSteps
<1>3. x.pc = point /\ x.keep = KeptSteps /\ x.idx = run[r].idx
  <2> HIDE DEF point
  <2> QED BY <1>1 DEF RunState
<1> HIDE DEF x, point
<1> QED BY <1>2, <1>3

\* In the runner, where the row stays RUNNING.
LEMMA OutcomeRun ==
    ASSUME TInv, TInv', Turns, Outcome, NEW r \in Runs,
           \/ LoadSteps(r) \/ Purge(r)
           \/ RecordNotRun(r) \/ Reuse(r) \/ PassThrough(r) \/ StartNode(r)
           \/ ExecutorReturns(r) \/ ExecutorTimesOut(r)
           \/ \E landed \in BOOLEAN : ExecutorThrows(r, landed)
           \/ \E branch \in Handles : SaveStep(r, branch)
           \/ SaveStepThrows(r) \/ FailStep(r)
    PROVE  Outcome'
<1> DEFINE inside == {"purge", "loop", "exec", "save", "fail"}
<1>1. /\ run[r].pc \in inside \union {"load"} /\ ~Ended(r)
      /\ UNCHANGED <<job, row, announced, dlq, unmarked>>
  BY DEF LoadSteps, Purge, RecordNotRun, Reuse, PassThrough, StartNode, MayRun, InLoop,
         ExecutorReturns, ExecutorTimesOut, ExecutorThrows, SaveStep, SaveStepThrows, FailStep,
         At, Ended, HandlerPoints
<1>2. PICK x : run' = [run EXCEPT ![r] = x] /\ x.pc \in inside
  <2>1. CASE LoadSteps(r)
    BY <2>1, LoadForm
  <2>2. CASE RecordNotRun(r) \/ Reuse(r) \/ PassThrough(r)
             \/ \E branch \in Handles : SaveStep(r, branch)
    BY <2>2, AdvanceForm DEF RecordNotRun, Reuse, PassThrough, SaveStep
  <2>3. CASE FailStep(r)
    BY <2>3, AdvanceForm, FailForm DEF FailStep
  <2>4. CASE Purge(r) \/ StartNode(r) \/ ExecutorReturns(r) \/ ExecutorTimesOut(r)
             \/ (\E landed \in BOOLEAN : ExecutorThrows(r, landed)) \/ SaveStepThrows(r)
    BY <2>4, StayForm DEF Purge, StartNode, ExecutorReturns, ExecutorTimesOut, ExecutorThrows,
                SaveStepThrows
  <2> QED BY <2>1, <2>2, <2>3, <2>4
<1>3. run'[r].pc \in inside /\ \A q \in Runs \ {r} : run'[q] = run[q]
  BY <1>2 DEF TInv, RunOK
<1>4. row = "RUNNING" /\ Untold
  BY <1>1 DEF Outcome, Standing, Resuming
<1>5. Standing(r)'
  BY <1>1, <1>3, <1>4 DEF Standing, Resuming, At, HandlerPoints, Untold
<1> QED BY <1>1, <1>3, <1>5, OutcomeWorks

\* The failed event's handler, up to the record in the dead-letter queue.
LEMMA OutcomeHandler ==
    ASSUME TInv, Turns, Outcome, NEW r \in Runs,
           \/ MarkFailed(r) \/ PublishFailed(r) \/ HandlerCut(r)
           \/ (At(r, "obituary") /\ Announce(r))
    PROVE  Outcome'
<1>1. run[r].pc \in HandlerPoints /\ ~Gone(r) /\ Standing(r) /\ job' = job
  BY DEF MarkFailed, PublishFailed, HandlerCut, Announce, At, HandlerPoints, Gone, Outcome
<1>2. job.state = "failed" /\ r = job.attemptsMade
  BY <1>1 DEF Standing
<1> USE DEF At, Resuming, Untold, Unsettled, Terminal
<1>3. CASE MarkFailed(r)
  <2>1. run'[r].pc \in {"obituary", "bin"} /\ \A q \in Runs \ {r} : run'[q] = run[q]
    BY <1>3, GotoForm DEF MarkFailed
  <2>2. Standing(r)'
    BY <1>1, <1>2, <1>3, GotoForm DEF MarkFailed, Standing, HandlerPoints
  <2>3. Verdict'
    BY <1>1, <1>2, <2>1 DEF Verdict, HandlerPoints
  <2> QED BY <1>1, <2>1, <2>2, <2>3, OutcomeMoves
<1>4. CASE PublishFailed(r)
  <2>1. run'[r].pc = "halt" /\ \A q \in Runs \ {r} : run'[q] = run[q]
    BY <1>4, LeaveForm DEF PublishFailed
  <2>2. Standing(r)'
    BY <2>1, GoneStands DEF Gone
  <2>3. Verdict'
    BY <1>1, <1>2, <1>4 DEF PublishFailed, Standing, Verdict, HandlerPoints
  <2> QED BY <1>1, <2>1, <2>2, <2>3, OutcomeMoves
<1>5. CASE HandlerCut(r)
  <2>1. run'[r].pc = "halt" /\ \A q \in Runs \ {r} : run'[q] = run[q]
    BY <1>5, LeaveForm DEF HandlerCut
  <2>2. Standing(r)'
    BY <2>1, GoneStands DEF Gone
  <2>3. Verdict'
    BY <1>1, <1>2, <1>5 DEF HandlerCut, Verdict
  <2> QED BY <1>1, <2>1, <2>2, <2>3, OutcomeMoves
<1>6. CASE At(r, "obituary") /\ Announce(r)
  <2>1. run'[r].pc = "bin" /\ \A q \in Runs \ {r} : run'[q] = run[q]
    BY <1>6, GotoForm DEF Announce
  <2>2. Standing(r)'
    BY <1>1, <1>2, <1>6, <2>1 DEF Announce, Standing, HandlerPoints
  <2>3. Verdict'
    BY <1>1, <1>2, <2>1 DEF Verdict, HandlerPoints
  <2> QED BY <1>1, <2>1, <2>2, <2>3, OutcomeMoves
<1> QED BY <1>3, <1>4, <1>5, <1>6 DEF MarkFailed, PublishFailed, HandlerCut

\* The job is taken when nothing is decided, and ends with what its last run stood for.
LEMMA OutcomeQueue ==
    ASSUME TInv, Turns, Outcome, job.stalls = 0, NEW r \in Runs,
           Take(r) \/ Complete(r) \/ FailAttempt(r)
    PROVE  Outcome'
<1> USE DEF At, Resuming, Untold, Unsettled, Terminal
<1>1. CASE Take(r)
  <2>1. /\ job.state = "waiting" /\ Goto(r, "open") /\ UNCHANGED <<row, announced, dlq, unmarked>>
        /\ job' = [job EXCEPT !.state = "active", !.holder = r]
    BY <1>1, QueueAssumption DEF Take, TInv, JobType
  <2>2. \A q \in Runs : Gone(q)
    BY <2>1, RunSetFacts DEF Turns, TInv, Held, Ended, Gone, Outcome, Standing
  <2>3. \A q \in Runs \ {r} : Standing(q)'
    BY <2>1, <2>2, GotoForm, GoneStands DEF Gone
  <2>4. Standing(r)'
    BY <2>1, GotoForm DEF Standing, HandlerPoints, Outcome, Verdict
  <2>5. job'.state = "active"
    BY <2>1 DEF TInv, JobType
  <2> QED BY <2>3, <2>4, <2>5 DEF Outcome, Verdict
<1>2. CASE Complete(r)
  <2>1. job.holder = r /\ ~Gone(r)
    BY <1>2 DEF Turns, Ended, HandlerPoints, Complete, Gone
  <2>2. job'.state = "completed"
    BY <1>2, <2>1 DEF Complete, TInv, JobType
  <2>3. run'[r].pc = "halt" /\ \A q \in Runs \ {r} : run'[q] = run[q]
    BY <1>2, LeaveForm DEF Complete
  <2>4. Standing(r)'
    BY <2>3, GoneStands DEF Gone
  <2>5. Verdict'
    BY <1>2, <2>2 DEF Complete, Verdict, Outcome, Standing
  <2> QED BY <2>1, <2>3, <2>4, <2>5, OutcomeMoves
<1>3. CASE FailAttempt(r)
  <2> DEFINE made == job.attemptsMade + 1
             state == IF GivesUp(made) THEN "failed" ELSE "waiting"
             point == IF Exhausted(made) THEN "mark" ELSE "halt"
  <2>1. job.holder = r /\ ~Gone(r) /\ job.state = "active"
    BY <1>3, RunSetFacts DEF Turns, Ended, HandlerPoints, FailAttempt, Gone, TInv, Held
  <2>2. r = made
    BY <2>1 DEF Turns
  <2>3. /\ job' = [job EXCEPT !.attemptsMade = made, !.holder = 0, !.state = state]
        /\ Leave(r, point, "none")
        /\ \/ state = "failed" /\ point = "mark"
           \/ state = "waiting" /\ point = "halt"
        /\ UNCHANGED <<row, announced, dlq, unmarked>>
    BY <1>3, <2>1 DEF FailAttempt, GivesUp, Exhausted
  <2>4. job'.state = state /\ job'.attemptsMade = made
    <3> HIDE DEF made, state
    <3> QED BY <2>3 DEF TInv, JobType
  <2> HIDE DEF made, state, point
  <2>5. run'[r].pc = point /\ \A q \in Runs \ {r} : run'[q] = run[q]
    BY <2>3, LeaveForm
  <2>6. Unsettled
    BY <1>3 DEF FailAttempt, Outcome, Standing
  <2>7. Standing(r)'
    BY <2>2, <2>3, <2>4, <2>5, <2>6 DEF Standing, HandlerPoints
  <2>8. Verdict'
    BY <2>3, <2>4, <2>5, <2>6 DEF Verdict, HandlerPoints
  <2> QED BY <2>1, <2>5, <2>7, <2>8, OutcomeMoves
<1> QED BY <1>1, <1>2, <1>3

\* A step of a job that has not stalled keeps the outcome in step with where its run stands.
LEMMA OutcomeStep == TInv /\ TInv' /\ IInv /\ OutcomeInv /\ [Next]_vars => OutcomeInv'
<1> SUFFICES ASSUME TInv, TInv', IInv, OutcomeInv, [Next]_vars, job'.stalls = 0 PROVE Outcome'
  BY DEF OutcomeInv
<1>1. job.stalls = 0 /\ Turns /\ Outcome
  BY StallsKept DEF IInv, EffectInv, OutcomeInv
<1>2. CASE UNCHANGED <<job, row, announced, dlq, unmarked, run>>
  BY <1>1, <1>2 DEF Outcome, Standing, Verdict, Unsettled, Untold, At, Resuming
<1>3. ASSUME NEW r \in Runs, Work(r) PROVE Outcome'
  <2>1. ~FailStalled(r)
    BY <1>1, QueueAssumption DEF FailStalled, TInv, Held
  <2>2. Announce(r) => At(r, "announce") \/ At(r, "obituary")
    BY DEF Announce
  <2> QED BY <1>1, <1>3, <2>1, <2>2, OutcomeExecute, OutcomeRun, OutcomeHandler, OutcomeQueue DEF Work
<1>4. ASSUME NEW r \in Runs, Take(r) \/ HandlerCut(r) PROVE Outcome'
  BY <1>1, <1>4, OutcomeQueue, OutcomeHandler
<1>5. ASSUME NEW r \in Runs, LoseLock(r) PROVE FALSE
  <2>1. job'.stalls = job.stalls + 1
    BY <1>5 DEF LoseLock, TInv, JobType
  <2> QED BY <1>1, <2>1
<1>6. ASSUME NEW r \in Runs, NEW n \in Nodes, LateEffect(n, r) PROVE Outcome'
  BY <1>2, <1>6 DEF LateEffect
<1> QED BY <1>2, <1>3, <1>4, <1>5, <1>6 DEF Next, vars

\* Spec keeps the outcome.
LEMMA OutcomeAlways == Spec => [](TInv /\ IInv /\ OutcomeInv)
<1>1. Spec => [](TInv /\ IInv)
  BY EffectAlways
<1> QED BY <1>1, OutcomeInit, OutcomeStep, PTL DEF Spec

\* When BullMQ is through with a job that never stalled and whose failed event was handled,
\* the row, the completed event and the dead-letter queue agree on how it ended: whatever
\* threw, in whichever attempt, execute and onFailed told exactly one outcome.
THEOREM EndsAgree == Spec => []SettledExecution
<1>1. TInv /\ OutcomeInv => SettledExecution
  <2> SUFFICES ASSUME OutcomeInv, Settled, job.stalls = 0, ~unmarked
               PROVE  /\ row \in Terminal /\ announced = {row}
                      /\ dlq = (IF job.state = "failed" THEN 1 ELSE 0)
                      /\ job.state = "failed" => row = "FAILED"
    BY DEF SettledExecution
  <2>1. \A r \in Runs : run[r].pc \notin HandlerPoints
    BY DEF Settled, HandlerPoints
  <2> QED BY <2>1 DEF Settled, OutcomeInv, Outcome, Verdict, Terminal
<1> QED BY <1>1, OutcomeAlways, PTL

----------------------------------------------------------------------------------
(* What a SUCCESS row stands on.  While a run is in its loop every step there is   *)
(* has its place: RUNNING is the node in hand, FAILED was routed or fails the run, *)
(* nothing an earlier attempt failed is left, and no node behind has no step.      *)

Accounted(n, r) ==
    /\ \A q \in Runs :
          /\ steps[<<n, q>>] = "RUNNING" => q = r /\ Busy(r) /\ n = Current(r)
          /\ steps[<<n, q>>] = "FAILED" => HasErrorEdge(n) \/ run[r].failed
    /\ n < Current(r) => \E q \in Runs : steps[<<n, q>>] # "none"

AllAccounted ==
    \A n \in Nodes :
        /\ \E r \in Runs : steps[<<n, r>>] # "none"
        /\ \A r \in Runs : /\ steps[<<n, r>>] # "RUNNING"
                           /\ steps[<<n, r>>] = "FAILED" => HasErrorEdge(n)

Grounded(r) ==
    /\ run[r].pc \in {"idle", "open", "load", "purge"} => Current(r) = 1
    /\ Resuming(r) => \A n \in Nodes, q \in Runs :
          <<n, q>> \in run[r].keep => q # r /\ steps[<<n, q>>] = "SUCCESS"
    /\ Busy(r) => steps[<<Current(r), r>>] = "RUNNING"
    /\ Resuming(r) /\ ~At(r, "purge") => \A n \in Nodes : Accounted(n, r)
    /\ At(r, "close") /\ run[r].result = "SUCCESS" => AllAccounted

Cover == (\A r \in Runs : Grounded(r)) /\ (row = "SUCCESS" => AllAccounted)
CoverInv == job.stalls = 0 => Cover

\* No run has started, and no row is SUCCESS.
LEMMA CoverInit == Init => CoverInv
<1> SUFFICES ASSUME Init PROVE Cover
  BY DEF CoverInv
<1>1. \A r \in Runs : run[r].pc = "idle" /\ run[r].idx = 1
  BY DEF Init, NewRun
<1> QED BY <1>1 DEF Init, Cover, Grounded, Resuming, Busy, At, Current

\* A run that is not at work is grounded as long as it starts from the first node.
LEMMA GoneGrounded ==
    ASSUME NEW q \in Runs, Grounded(q), Gone(q), run'[q] = run[q] PROVE Grounded(q)'
  BY DEF Gone, Grounded, Resuming, Busy, At, Current

\* A run moves on while all others are gone: its own part and the row are what is left to show.
LEMMA CoverMoves ==
    ASSUME TInv, Turns, Outcome, Cover, NEW r \in Runs, ~Gone(r),
           \A q \in Runs \ {r} : run'[q] = run[q], Grounded(r)',
           row' = "SUCCESS" => AllAccounted'
    PROVE  Cover'
<1>1. \A q \in Runs \ {r} : Grounded(q)'
  BY OthersGone, GoneGrounded DEF Cover
<1> QED BY <1>1 DEF Cover

\* Out of the runner there is nothing to uphold but a SUCCESS that is about to be written.
LEMMA CoverOut ==
    ASSUME TInv, Turns, Outcome, Cover, NEW r \in Runs, ~Gone(r),
           \A q \in Runs \ {r} : run'[q] = run[q],
           run'[r].pc \in Out \/ (run'[r].pc = "load" /\ run'[r].idx = 1), steps' = steps,
           At(r, "close")' => run'[r].result = "FAILED",
           row' \in {row, "RUNNING", "FAILED"}
    PROVE  Cover'
<1>1. Grounded(r)'
  BY DEF Grounded, Out, HandlerPoints, Resuming, Busy, At, Current
<1>2. row' = "SUCCESS" => AllAccounted'
  BY DEF Cover, AllAccounted
<1> QED BY <1>1, <1>2, CoverMoves

\* Leave drops what the run held, so only the row can ask for more.
LEMMA CoverLeave ==
    ASSUME TInv, Turns, Outcome, Cover, NEW r \in Runs, ~Gone(r), NEW point \in Out, NEW result,
           Leave(r, point, result), point = "close" => result = "FAILED", steps' = steps,
           row' \in {row, "RUNNING", "FAILED"}
    PROVE  Cover'
  BY LeaveForm, CoverOut DEF At

\* In the engine around the runner, where a run that returns without failure closes the row.
LEMMA CoverExecute ==
    ASSUME TInv, Turns, Outcome, Cover, NEW r \in Runs,
           \/ Complete(r) \/ FailAttempt(r)
           \/ Open(r) \/ WorkflowNotFound(r) \/ RejectDefinition(r)
           \/ RunnerReturns(r) \/ Close(r) \/ Bury(r) \/ Announce(r)
           \/ DbErrorOutside(r) \/ DbErrorInside(r)
           \/ MarkFailed(r) \/ PublishFailed(r) \/ HandlerCut(r)
    PROVE  Cover'
<1> USE DEF At, HandlerPoints, Gone, Out
<1>1. CASE Complete(r)
  BY <1>1, CoverLeave DEF Complete
<1>2. CASE FailAttempt(r)
  BY <1>2, CoverLeave DEF FailAttempt
<1>3. CASE Open(r)
  <2>1. run[r].idx = 1
    BY <1>3 DEF Open, Cover, Grounded, Current
  <2> QED BY <1>3, <2>1, GotoForm, CoverOut DEF Open
<1>4. CASE WorkflowNotFound(r)
  BY <1>4, CoverLeave DEF WorkflowNotFound
<1>5. CASE RejectDefinition(r)
  BY <1>5, CoverLeave DEF RejectDefinition
<1>6. CASE RunnerReturns(r)
  <2>1. CASE run[r].failed
    BY <1>6, <2>1, CoverLeave DEF RunnerReturns
  <2>2. CASE ~run[r].failed
    <3>1. Leave(r, "close", "SUCCESS") /\ UNCHANGED <<row, steps>>
      BY <1>6, <2>2 DEF RunnerReturns
    <3>2. \A n \in Nodes : Accounted(n, r)
      BY <1>6 DEF RunnerReturns, Cover, Grounded, Resuming
    <3>3. ~Busy(r) /\ \A n \in Nodes : n < Current(r)
      BY <1>6, GraphAssumption DEF RunnerReturns, Busy, Nodes
    <3>4. AllAccounted'
      BY <2>2, <3>1, <3>2, <3>3 DEF Accounted, AllAccounted
    <3>5. Grounded(r)'
      BY <3>1, <3>4, LeaveForm DEF Grounded, Resuming, Busy
    <3> QED BY <1>6, <3>1, <3>4, <3>5, LeaveForm, CoverMoves DEF RunnerReturns
  <2> QED BY <2>1, <2>2
<1>7. CASE Close(r)
  <2>1. Grounded(r)'
    BY <1>7, GotoForm DEF Close, Grounded, Resuming, Busy
  <2>2. row' = "SUCCESS" => AllAccounted'
    <3>1. row' = run[r].result /\ run[r].pc = "close" /\ steps' = steps
      BY <1>7 DEF Close
    <3>2. run[r].result = "SUCCESS" => AllAccounted
      BY <3>1 DEF Cover, Grounded
    <3> QED BY <3>1, <3>2 DEF AllAccounted
  <2> QED BY <1>7, <2>1, <2>2, GotoForm, CoverMoves DEF Close
<1>8. CASE Bury(r)
  BY <1>8, CoverLeave DEF Bury
<1>9. CASE Announce(r)
  BY <1>9, CoverLeave, GotoForm, CoverOut DEF Announce
<1>10. CASE DbErrorOutside(r)
  BY <1>10, CoverLeave DEF DbErrorOutside
<1>11. CASE DbErrorInside(r)
  BY <1>11, CoverLeave DEF DbErrorInside, InLoop, Thrown
<1>12. CASE MarkFailed(r)
  BY <1>12, GotoForm, CoverOut DEF MarkFailed
<1>13. CASE PublishFailed(r)
  BY <1>13, CoverLeave DEF PublishFailed
<1>14. CASE HandlerCut(r)
  BY <1>14, CoverLeave DEF HandlerCut
<1> QED BY <1>1, <1>2, <1>3, <1>4, <1>5, <1>6, <1>7, <1>8, <1>9, <1>10, <1>11, <1>12, <1>13, <1>14

\* Inside the runner the row is RUNNING, so what is written there disturbs no SUCCESS.
LEMMA CoverRuns ==
    ASSUME TInv, Turns, Outcome, Cover, NEW r \in Runs, Resuming(r) \/ At(r, "load"),
           \A q \in Runs \ {r} : run'[q] = run[q], Grounded(r)', row' = row
    PROVE  Cover'
<1>1. row' # "SUCCESS" /\ ~Gone(r)
  BY DEF Outcome, Standing, Resuming, At, Gone
<1> QED BY <1>1, CoverMoves

LEMMA CoverLoad ==
    ASSUME TInv, EffectInv, Outcome, Cover, NEW r \in Runs, LoadSteps(r) \/ Purge(r)
    PROVE  Cover'
<1>1. Current(r) = 1 /\ \A n \in Nodes : steps[<<n, r>>] = "none"
  BY DEF LoadSteps, Purge, At, Cover, Grounded, EffectInv, Aware, Untouched, Ahead
<1>2. CASE LoadSteps(r)
  <2>1. PICK x : /\ run' = [run EXCEPT ![r] = x]
                 /\ x.pc \in {"loop", "purge"} /\ x.keep = KeptSteps /\ x.idx = run[r].idx
                 /\ (\E k \in StepKeys : steps[k] # "none") => x.pc = "purge"
    BY <1>2, LoadForm
  <2>2. /\ \A q \in Runs \ {r} : run'[q] = run[q]
        /\ run'[r] = x
    BY <2>1 DEF TInv, RunOK
  <2>3. row' = row /\ steps' = steps /\ At(r, "load")
    BY <1>2 DEF LoadSteps
  <2>4. \A n \in Nodes, q \in Runs :
          <<n, q>> \in run'[r].keep => q # r /\ steps'[<<n, q>>] = "SUCCESS"
    BY <1>1, <2>1, <2>2, <2>3 DEF KeptSteps
  <2>5. ~At(r, "purge")' => \A n \in Nodes : Accounted(n, r)'
    BY <1>1, <2>1, <2>2, <2>3, GraphAssumption DEF Accounted, At, StepKeys, Current, Nodes
  <2>6. Grounded(r)'
    BY <1>1, <2>1, <2>2, <2>4, <2>5 DEF Grounded, At, Busy, Current
  <2> QED BY <2>2, <2>3, <2>6, CoverRuns DEF EffectInv
<1>3. CASE Purge(r)
  <2>1. /\ \A q \in Runs \ {r} : run'[q] = run[q]
        /\ run'[r].pc = "loop" /\ run'[r].idx = 1 /\ run'[r].keep = run[r].keep
    BY <1>1, <1>3, GotoForm DEF Purge, Current
  <2>2. row' = row /\ Resuming(r)
    BY <1>3 DEF Purge, At, Resuming
  <2>3. \A n \in Nodes, q \in Runs :
          IF <<n, q>> \in run[r].keep THEN q # r /\ steps'[<<n, q>>] = "SUCCESS"
                                      ELSE steps'[<<n, q>>] = "none"
    <3> SUFFICES ASSUME NEW n \in Nodes, NEW q \in Runs
                 PROVE  IF <<n, q>> \in run[r].keep
                        THEN q # r /\ steps'[<<n, q>>] = "SUCCESS"
                        ELSE steps'[<<n, q>>] = "none"
      OBVIOUS
    <3>1. steps'[<<n, q>>] = IF <<n, q>> \in run[r].keep THEN steps[<<n, q>>] ELSE "none"
      BY <1>3 DEF Purge, StepKeys
    <3>2. <<n, q>> \in run[r].keep => q # r /\ steps[<<n, q>>] = "SUCCESS"
      <4>1. Grounded(r)
        BY DEF Cover
      <4> QED BY <2>2, <4>1 DEF Grounded
    <3> QED BY <3>1, <3>2
  <2>4. \A n \in Nodes : Accounted(n, r)'
    BY <2>1, <2>3, GraphAssumption DEF Accounted, Current, Nodes
  <2>5. Grounded(r)'
    BY <2>1, <2>3, <2>4 DEF Grounded, At, Busy
  <2> QED BY <2>1, <2>2, <2>5, CoverRuns DEF EffectInv
<1> QED BY <1>2, <1>3

\* The loop goes on: the node it leaves has a step, and a failure there is accounted for.
LEMMA CoverNext ==
    ASSUME TInv, Turns, Outcome, Cover, NEW r \in Runs, NEW x, NEW status,
           At(r, "loop") \/ Busy(r), Current(r) \in Nodes, run' = [run EXCEPT ![r] = x],
           x.pc = "loop", x.idx = Current(r) + 1, x.keep = run[r].keep,
           run[r].failed => x.failed, row' = row,
           \/ /\ steps' = steps /\ At(r, "loop")
              /\ \E q \in Runs : steps[<<Current(r), q>>] # "none"
           \/ /\ steps' = [steps EXCEPT ![<<Current(r), r>>] = status]
              /\ status \notin {"none", "RUNNING"}
              /\ status = "FAILED" => HasErrorEdge(Current(r)) \/ x.failed
    PROVE  Cover'
<1>1. (\A q \in Runs \ {r} : run'[q] = run[q]) /\ run'[r] = x
  BY DEF TInv, RunOK
<1>2. Resuming(r) /\ ~At(r, "purge") /\ Grounded(r)
  BY DEF At, Busy, Resuming, Cover
<1>3. ASSUME NEW n \in Nodes, NEW q \in Runs, n # Current(r) \/ q # r
      PROVE  steps'[<<n, q>>] = steps[<<n, q>>]
  BY <1>3 DEF TInv, StepsType, StepKeys
<1>4. /\ \E q \in Runs : steps'[<<Current(r), q>>] # "none"
      /\ steps'[<<Current(r), r>>] # "RUNNING"
      /\ steps'[<<Current(r), r>>] = "FAILED" => HasErrorEdge(Current(r)) \/ x.failed
  <2>1. <<Current(r), r>> \in StepKeys /\ steps \in [StepKeys -> StepStatus \union {"none"}]
    BY DEF StepKeys, TInv, StepsType
  <2>2. At(r, "loop") => ~Busy(r)
    BY DEF At, Busy
  <2> QED BY <1>2, <2>1, <2>2 DEF Grounded, Accounted
<1>5. \A n \in Nodes : Accounted(n, r)'
  <2> SUFFICES ASSUME NEW n \in Nodes PROVE Accounted(n, r)'
    OBVIOUS
  <2>1. Accounted(n, r)
    BY <1>2 DEF Grounded
  <2>2. n < Current(r)' => n < Current(r) \/ n = Current(r)
    BY <1>1, GraphAssumption DEF Current, Nodes
  <2> QED BY <1>1, <1>3, <1>4, <2>1, <2>2 DEF Accounted, Current
<1>6. \A n \in Nodes, q \in Runs :
        <<n, q>> \in run'[r].keep => q # r /\ steps'[<<n, q>>] = "SUCCESS"
  BY <1>1, <1>2, <1>3 DEF Grounded
<1>7. Grounded(r)'
  BY <1>1, <1>5, <1>6 DEF Grounded, Busy, At
<1> QED BY <1>1, <1>2, <1>7, CoverRuns

\* The iterations that finish a node: each leaves a step for it and moves to the next.
LEMMA CoverPass ==
    ASSUME TInv, Turns, Outcome, Cover, NEW r \in Runs,
           \/ RecordNotRun(r) \/ Reuse(r) \/ PassThrough(r)
           \/ (\E branch \in Handles : SaveStep(r, branch)) \/ FailStep(r)
    PROVE  Cover'
<1>0. Current(r) \in Nodes
  BY DEF RecordNotRun, Reuse, PassThrough, MayRun, InLoop, SaveStep, FailStep, TInv, RunOK,
         PositionOK, At
<1>1. CASE RecordNotRun(r)
  <2> DEFINE status == IF run[r].failed THEN "CANCELLED"
                       ELSE Classify(Current(r), run[r].verdict)
  <2>1. /\ status \in {"CANCELLED", "SKIPPED"} /\ Record(r, status) /\ Advance(r, status, {})
        /\ At(r, "loop") /\ row' = row
    BY <1>1, ClassifyType DEF RecordNotRun, InLoop
  <2> HIDE DEF status
  <2>2. PICK x : /\ run' = [run EXCEPT ![r] = x]
                 /\ x.pc = "loop" /\ x.idx = Current(r) + 1 /\ x.keep = run[r].keep
                 /\ x.failed = run[r].failed
    BY <2>1, AdvanceForm
  <2> QED BY <1>0, <2>1, <2>2, CoverNext DEF Record
<1>2. CASE Reuse(r)
  <2>1. At(r, "loop") /\ row' = row /\ steps' = steps /\ Current(r) \in Reused(r)
    BY <1>2 DEF Reuse, MayRun, InLoop
  <2>2. PICK x : /\ run' = [run EXCEPT ![r] = x]
                 /\ x.pc = "loop" /\ x.idx = Current(r) + 1 /\ x.keep = run[r].keep
                 /\ x.failed = run[r].failed
    BY <1>2, AdvanceForm DEF Reuse
  <2>3. \E q \in Runs : steps[<<Current(r), q>>] # "none"
    BY <1>0, <2>1 DEF Reused, Cover, Grounded, Resuming, At
  <2> QED BY <1>0, <2>1, <2>2, <2>3, CoverNext
<1>3. CASE PassThrough(r)
  <2>1. PICK x : /\ run' = [run EXCEPT ![r] = x]
                 /\ x.pc = "loop" /\ x.idx = Current(r) + 1 /\ x.keep = run[r].keep
                 /\ x.failed = run[r].failed
    BY <1>3, AdvanceForm DEF PassThrough
  <2> DEFINE status == "SKIPPED"
  <2>2. /\ steps' = [steps EXCEPT ![<<Current(r), r>>] = status]
        /\ status \notin {"none", "RUNNING"} /\ status # "FAILED"
        /\ At(r, "loop") /\ row' = row
    BY <1>3 DEF PassThrough, Record, MayRun, InLoop
  <2> HIDE DEF status
  <2> QED BY <1>0, <2>1, <2>2, CoverNext
<1>4. ASSUME NEW branch \in Handles, SaveStep(r, branch) PROVE Cover'
  <2>1. PICK x : /\ run' = [run EXCEPT ![r] = x]
                 /\ x.pc = "loop" /\ x.idx = Current(r) + 1 /\ x.keep = run[r].keep
                 /\ x.failed = run[r].failed
    BY <1>4, AdvanceForm DEF SaveStep
  <2> DEFINE status == "SUCCESS"
  <2>2. /\ steps' = [steps EXCEPT ![<<Current(r), r>>] = status]
        /\ status \notin {"none", "RUNNING"} /\ status # "FAILED"
        /\ Busy(r) /\ row' = row
    BY <1>4 DEF SaveStep, Record, At, Busy
  <2> HIDE DEF status
  <2> QED BY <1>0, <2>1, <2>2, CoverNext
<1>5. CASE FailStep(r)
  <2>1. /\ steps' = [steps EXCEPT ![<<Current(r), r>>] = "FAILED"]
        /\ Busy(r) /\ row' = row
    BY <1>5 DEF FailStep, Record, At, Busy
  <2>2. PICK x : /\ run' = [run EXCEPT ![r] = x]
                 /\ x.pc = "loop" /\ x.idx = Current(r) + 1 /\ x.keep = run[r].keep
                 /\ run[r].failed => x.failed
                 /\ HasErrorEdge(Current(r)) \/ x.failed
    BY <1>5, AdvanceForm, FailForm DEF FailStep
  <2> QED BY <1>0, <2>1, <2>2, CoverNext
<1> QED BY <1>1, <1>2, <1>3, <1>4, <1>5

\* The node in hand: its step is RUNNING until it is saved or fails.
LEMMA CoverStay ==
    ASSUME TInv, Turns, Outcome, Cover, NEW r \in Runs,
           \/ StartNode(r) \/ ExecutorReturns(r) \/ ExecutorTimesOut(r) \/ SaveStepThrows(r)
           \/ \E landed \in BOOLEAN : ExecutorThrows(r, landed)
    PROVE  Cover'
<1>1. /\ Current(r) \in Nodes /\ row' = row /\ Resuming(r) /\ ~At(r, "purge")
      /\ \/ steps' = steps /\ Busy(r)
         \/ steps' = [steps EXCEPT ![<<Current(r), r>>] = "RUNNING"] /\ At(r, "loop")
  BY DEF StartNode, MayRun, InLoop, Record, ExecutorReturns, ExecutorTimesOut, SaveStepThrows,
         ExecutorThrows, TInv, RunOK, PositionOK, At, Busy, Resuming
<1>2. PICK point \in {"exec", "save", "fail"} : Goto(r, point)
  BY DEF StartNode, ExecutorReturns, ExecutorTimesOut, SaveStepThrows, ExecutorThrows
<1>3. /\ \A q \in Runs \ {r} : run'[q] = run[q]
      /\ run'[r].pc = point /\ run'[r].idx = run[r].idx /\ run'[r].keep = run[r].keep
      /\ run'[r].failed = run[r].failed
  BY <1>2, GotoForm
<1>4. Grounded(r)
  BY DEF Cover
<1>5. ASSUME NEW n \in Nodes, NEW q \in Runs, n # Current(r) \/ q # r
      PROVE  steps'[<<n, q>>] = steps[<<n, q>>]
  BY <1>1, <1>5 DEF TInv, StepsType, StepKeys
<1>6. steps'[<<Current(r), r>>] = "RUNNING"
  BY <1>1, <1>4 DEF TInv, StepsType, StepKeys, Grounded
<1>7. Busy(r)' /\ Current(r)' = Current(r)
  BY <1>3 DEF Busy, Current
<1>8. \A n \in Nodes : Accounted(n, r)'
  <2> SUFFICES ASSUME NEW n \in Nodes PROVE Accounted(n, r)'
    OBVIOUS
  <2>1. Accounted(n, r)
    BY <1>1, <1>4 DEF Grounded
  <2> QED BY <1>3, <1>5, <1>6, <1>7, <2>1 DEF Accounted
<1>9. Grounded(r)'
  BY <1>1, <1>3, <1>4, <1>5, <1>6, <1>7, <1>8 DEF Grounded, Busy, Resuming, At
<1> QED BY <1>1, <1>3, <1>9, CoverRuns

\* An activation starts from the first node.
LEMMA CoverTake ==
    ASSUME TInv, Turns, Outcome, Cover, job.stalls = 0, NEW r \in Runs, Take(r) PROVE Cover'
<1>1. Goto(r, "open") /\ UNCHANGED <<row, steps>> /\ r = job.attemptsMade + 1
  BY QueueAssumption DEF Take, TInv, JobType
<1>2. \A q \in Runs : Gone(q)
  BY <1>1, RunSetFacts DEF Take, Turns, TInv, Held, Ended, Gone, Outcome, Standing
<1>3. At(r, "idle") /\ run[r].idx = 1
  BY <1>1 DEF Take, Turns, Cover, Grounded, At, Current
<1>4. \A q \in Runs \ {r} : Grounded(q)'
  BY <1>1, <1>2, GotoForm, GoneGrounded DEF Cover
<1>5. Grounded(r)'
  BY <1>1, <1>3, GotoForm DEF Grounded, Resuming, Busy, At, Current
<1> QED BY <1>1, <1>4, <1>5 DEF Cover, AllAccounted

\* A step of a job that has not stalled keeps every step of a SUCCESS row accounted for.
LEMMA CoverStep ==
    TInv /\ IInv /\ OutcomeInv /\ CoverInv /\ [Next]_vars => CoverInv'
<1> SUFFICES ASSUME TInv, IInv, OutcomeInv, CoverInv, [Next]_vars, job'.stalls = 0 PROVE Cover'
  BY DEF CoverInv
<1>1. job.stalls = 0 /\ EffectInv /\ Turns /\ Outcome /\ Cover
  BY StallsKept DEF IInv, EffectInv, OutcomeInv, CoverInv
<1>2. CASE UNCHANGED <<row, steps, run>>
  BY <1>1, <1>2 DEF Cover, Grounded, Accounted, AllAccounted, At, Busy, Resuming, Current
<1>3. ASSUME NEW r \in Runs, Work(r) PROVE Cover'
  <2>1. ~FailStalled(r)
    BY <1>1, QueueAssumption DEF FailStalled, TInv, Held
  <2> QED BY <1>1, <1>3, <2>1, CoverExecute, CoverLoad, CoverPass, CoverStay DEF Work
<1>4. ASSUME NEW r \in Runs, Take(r) \/ HandlerCut(r) PROVE Cover'
  BY <1>1, <1>4, CoverTake, CoverExecute
<1>5. ASSUME NEW r \in Runs, LoseLock(r) PROVE Cover'
  BY <1>2, <1>5 DEF LoseLock
<1>6. ASSUME NEW r \in Runs, NEW n \in Nodes, LateEffect(n, r) PROVE Cover'
  BY <1>2, <1>6 DEF LateEffect
<1> QED BY <1>2, <1>3, <1>4, <1>5, <1>6 DEF Next, vars

EngineInv == TInv /\ IInv /\ OutcomeInv /\ CoverInv

\* All invariants of the engine hold together along every behaviour.
LEMMA EngineAlways == Spec => []EngineInv
<1>1. Spec => [](TInv /\ IInv /\ OutcomeInv)
  BY OutcomeAlways
<1> QED BY <1>1, CoverInit, CoverStep, PTL DEF Spec, EngineInv

\* A SUCCESS row of an execution that never stalled stands for a whole run of the workflow:
\* the runner recorded something for every node, closed every step it opened, and routed
\* every failure that it shows.
THEOREM SuccessAccountsForAll == Spec => []SuccessIsComplete
<1>1. EngineInv => SuccessIsComplete
  BY DEF EngineInv, CoverInv, Cover, AllAccounted, SuccessIsComplete
<1> QED BY <1>1, EngineAlways, PTL

----------------------------------------------------------------------------------
(* The refinement.  Every step of the engine is a step of the contract or leaves  *)
(* what an observer sees alone.                                                   *)

Recorded == {n \in ActionNodes : \E r \in Runs : steps[<<n, r>>] = "SUCCESS"}

\* The engine starts where the contract starts.
LEMMA ContractInit == Init => Contract!CInit
<1> SUFFICES ASSUME Init PROVE Contract!CInit
  OBVIOUS
<1>1. row = "PENDING" /\ announced = {} /\ job.stalls = 0
  BY DEF Init
<1>2. Recorded = {}
  BY GraphAssumption DEF Init, Recorded, StepKeys
<1> QED BY <1>1, <1>2 DEF Contract!CInit, Recorded

\* A record that is no success, in a place where there was none, is not seen.
LEMMA RecordUnseen ==
    ASSUME TInv, NEW r \in Runs, Current(r) \in Nodes, steps[<<Current(r), r>>] # "SUCCESS",
           NEW status, status # "SUCCESS", Record(r, status)
    PROVE  Recorded' = Recorded
<1>1. \A n \in ActionNodes, q \in Runs :
        steps'[<<n, q>>] = "SUCCESS" <=> steps[<<n, q>>] = "SUCCESS"
  BY GraphAssumption DEF Record, TInv, StepsType, StepKeys
<1> QED BY <1>1 DEF Recorded

\* The delete spares all recorded successes of actions.
LEMMA PurgeUnseen ==
    ASSUME TInv, EffectInv, Cover, NEW r \in Runs, Purge(r) PROVE Recorded' = Recorded
<1>1. At(r, "purge") /\ Resuming(r)
  BY DEF Purge, At, Resuming
<1>2. /\ KnowsSuccesses(r) /\ Grounded(r) /\ Untouched(r) /\ ActionNodes \subseteq Nodes
      /\ \A n : Ahead(n, r)
  BY <1>1, GraphAssumption DEF Cover, EffectInv, Aware, Ahead, At
<1>4. ASSUME NEW n \in ActionNodes, NEW q \in Runs
      PROVE  <<n, q>> \in run[r].keep <=> steps[<<n, q>>] = "SUCCESS"
  <2>1. n \in Nodes
    BY <1>2
  <2>2. <<n, q>> \in run[r].keep => steps[<<n, q>>] = "SUCCESS"
    BY <1>1, <1>2, <2>1 DEF Grounded
  <2>3. steps[<<n, r>>] = "none"
    BY <1>2, <2>1 DEF Untouched
  <2>4. q # r /\ steps[<<n, q>>] = "SUCCESS" => <<n, q>> \in run[r].keep
    BY <1>1, <1>2 DEF KnowsSuccesses
  <2> QED BY <2>2, <2>3, <2>4
<1>3. \A n \in ActionNodes, q \in Runs :
        steps'[<<n, q>>] = "SUCCESS" <=> steps[<<n, q>>] = "SUCCESS"
  BY <1>2, <1>4 DEF Purge, StepKeys
<1> QED BY <1>3 DEF Recorded

\* A node that is about to be saved was recorded by nobody.
LEMMA SaveIsFirst ==
    ASSUME TInv, EffectInv, Cover, NEW r \in Runs, At(r, "save") PROVE Current(r) \notin Recorded
<1>1. Busy(r) /\ Resuming(r)
  BY DEF At, Busy, Resuming
<1>2. steps[<<Current(r), r>>] = "RUNNING" /\ Current(r) \notin Reused(r) /\ Current(r) \in Nodes
  BY <1>1 DEF Cover, Grounded, EffectInv, Aware, InHand, TInv, RunOK, PositionOK, Busy
<1>3. ASSUME NEW q \in Runs \ {r}, Current(r) \in ActionNodes,
             steps[<<Current(r), q>>] = "SUCCESS"
      PROVE  FALSE
  BY <1>1, <1>2, <1>3 DEF EffectInv, Aware, KnowsSuccesses, Reused
<1> QED BY <1>2, <1>3 DEF Recorded

Calm == job.stalls = 0 /\ job'.stalls = 0
Unseen == UNCHANGED <<row, announced>> /\ Recorded' = Recorded

\* A step that leaves row, announcement and recorded successes alone is a stutter.
LEMMA CalmUnseen == ASSUME Calm, Unseen PROVE UNCHANGED Contract!cvars
<1>1. (job.stalls > 0)' = (job.stalls > 0)
  BY DEF Calm
<1> QED BY <1>1 DEF Unseen, Contract!cvars, Recorded

\* The writes of the row and the announcements are Begin, Settle and Tell.
LEMMA ContractExecute ==
    ASSUME TInv, EffectInv, Outcome, Cover, Calm, NEW r \in Runs,
           Open(r) \/ Close(r) \/ Bury(r) \/ Announce(r) \/ MarkFailed(r)
    PROVE  [Contract!CNext]_(Contract!cvars)
<1>0. /\ steps' = steps /\ (job.stalls > 0)' = (job.stalls > 0) /\ Standing(r)
      /\ Recorded' = Recorded
  BY DEF Open, Close, Bury, Announce, MarkFailed, Outcome, Calm, Recorded
<1> USE DEF At, Standing, Unsettled, Untold, HandlerPoints, Resuming
<1>1. CASE Open(r)
  <2>1. Contract!Begin
    BY <1>0, <1>1 DEF Open, Contract!Begin, Contract!Open, Recorded
  <2> QED BY <2>1 DEF Contract!CNext
<1>2. CASE Close(r)
  <2>1. run[r].result \in Terminal
    BY <1>2 DEF Close, TInv, RunOK, PositionOK
  <2>2. Contract!Settle(run[r].result)
    BY <1>0, <1>2 DEF Close, Contract!Settle, Recorded
  <2> QED BY <2>1, <2>2 DEF Contract!CNext, Contract!Final, Terminal
<1>3. CASE Bury(r)
  <2>1. Contract!Settle("FAILED")
    BY <1>0, <1>3 DEF Bury, Contract!Settle, Recorded
  <2> QED BY <2>1 DEF Contract!CNext, Contract!Final
<1>4. CASE Announce(r)
  <2>1. Contract!Tell
    BY <1>0, <1>4 DEF Announce, Contract!Tell, Contract!Final, Terminal, Recorded
  <2> QED BY <2>1 DEF Contract!CNext
<1>5. CASE MarkFailed(r)
  <2>1. Contract!Settle("FAILED") \/ Unseen
    BY <1>0, <1>5 DEF MarkFailed, Contract!Settle, Recorded, Unseen
  <2> QED BY <2>1, CalmUnseen DEF Contract!CNext, Contract!Final
<1> QED BY <1>1, <1>2, <1>3, <1>4, <1>5

\* The runner's other writes of steps touch no success of an action.
LEMMA ContractLoop ==
    ASSUME TInv, EffectInv, Cover, NEW r \in Runs,
           Purge(r) \/ RecordNotRun(r) \/ PassThrough(r) \/ StartNode(r) \/ FailStep(r)
    PROVE  Unseen
<1>1. UNCHANGED <<row, announced>>
  BY DEF Purge, RecordNotRun, PassThrough, StartNode, FailStep
<1>2. CASE Purge(r)
  BY <1>1, <1>2, PurgeUnseen DEF Unseen
<1>3. CASE RecordNotRun(r) \/ PassThrough(r) \/ StartNode(r)
  <2>1. At(r, "loop") /\ Current(r) \in Nodes
    BY <1>3 DEF RecordNotRun, PassThrough, StartNode, MayRun, InLoop
  <2>2. steps[<<Current(r), r>>] = "none"
    BY <2>1, GraphAssumption DEF EffectInv, Aware, Untouched, Ahead, Nodes
  <2>3. PICK status : status # "SUCCESS" /\ Record(r, status)
    BY <1>3, ClassifyType DEF RecordNotRun, PassThrough, StartNode
  <2> QED BY <1>1, <2>1, <2>2, <2>3, RecordUnseen DEF Unseen
<1>4. CASE FailStep(r)
  <2>1. steps[<<Current(r), r>>] = "RUNNING" /\ Current(r) \in Nodes
    BY <1>4 DEF FailStep, Cover, Grounded, Busy, At, TInv, RunOK, PositionOK
  <2> QED BY <1>1, <1>4, <2>1, RecordUnseen DEF FailStep, Unseen
<1> QED BY <1>2, <1>3, <1>4

\* Saving an action is Succeed; saving any other node is not seen.
LEMMA ContractSave ==
    ASSUME TInv, EffectInv, Outcome, Cover, Calm, NEW r \in Runs, NEW branch \in Handles,
           SaveStep(r, branch)
    PROVE  [Contract!CNext]_(Contract!cvars)
<1>1. /\ steps' = [steps EXCEPT ![<<Current(r), r>>] = "SUCCESS"]
      /\ row' = row /\ announced' = announced /\ At(r, "save")
      /\ Current(r) \in Nodes /\ row = "RUNNING"
  BY DEF SaveStep, Record, TInv, RunOK, PositionOK, At, Outcome, Standing, Resuming
<1>2. \A n \in ActionNodes, q \in Runs :
        steps'[<<n, q>>] = "SUCCESS" <=>
           steps[<<n, q>>] = "SUCCESS" \/ (n = Current(r) /\ q = r)
  BY <1>1, GraphAssumption DEF TInv, StepsType, StepKeys
<1>3. CASE Current(r) \in ActionNodes
  <2>1. Recorded' = Recorded \union {Current(r)} /\ Current(r) \notin Recorded
    BY <1>1, <1>2, <1>3, SaveIsFirst DEF Recorded
  <2>2. PICK n \in ActionNodes : n = Current(r)
    BY <1>3
  <2>3. Contract!Succeed(n)
    <3>1. (job.stalls > 0)' = (job.stalls > 0)
      BY DEF Calm
    <3> QED BY <1>1, <2>1, <2>2, <3>1 DEF Contract!Succeed, Recorded
  <2> QED BY <2>3 DEF Contract!CNext
<1>4. CASE Current(r) \notin ActionNodes
  <2>1. Recorded' = Recorded
    BY <1>2, <1>4 DEF Recorded
  <2> QED BY <1>1, <2>1, CalmUnseen DEF Unseen
<1> QED BY <1>3, <1>4

\* What writes neither row, step nor announcement is not seen.
LEMMA ContractOther ==
    ASSUME NEW r \in Runs,
           \/ Take(r) \/ HandlerCut(r) \/ Complete(r) \/ FailAttempt(r) \/ FailStalled(r)
           \/ WorkflowNotFound(r) \/ RejectDefinition(r) \/ RunnerReturns(r)
           \/ LoadSteps(r) \/ Reuse(r)
           \/ ExecutorReturns(r) \/ ExecutorTimesOut(r)
           \/ (\E landed \in BOOLEAN : ExecutorThrows(r, landed))
           \/ SaveStepThrows(r) \/ DbErrorOutside(r) \/ DbErrorInside(r) \/ PublishFailed(r)
           \/ \E n \in Nodes : LateEffect(n, r)
    PROVE  Unseen
<1>1. UNCHANGED <<row, announced, steps>>
  BY DEF Take, HandlerCut, Complete, FailAttempt, FailStalled, WorkflowNotFound,
         RejectDefinition, RunnerReturns, LoadSteps, Reuse, ExecutorReturns, ExecutorTimesOut,
         ExecutorThrows, SaveStepThrows, DbErrorOutside, DbErrorInside, PublishFailed, LateEffect
<1> QED BY <1>1 DEF Unseen, Recorded

\* Every step is a step of the contract or a stutter; a stall is where the contract ends.
LEMMA ContractStep == EngineInv /\ [Next]_vars => [Contract!CNext]_(Contract!cvars)
<1> SUFFICES ASSUME EngineInv, [Next]_vars PROVE [Contract!CNext]_(Contract!cvars)
  OBVIOUS
<1>0. TInv /\ job.stalls \in Nat
  BY QueueAssumption DEF EngineInv, TInv, JobType
<1>1. CASE job.stalls > 0
  <2>1. job'.stalls > 0
    BY <1>0, <1>1, StallsKept
  <2>2. Contract!Disturbed
    BY <1>1, <2>1 DEF Contract!Disturbed
  <2> QED BY <2>2 DEF Contract!CNext
<1>2. CASE job.stalls = 0 /\ job'.stalls # 0
  <2>1. job'.stalls > 0 /\ \E r \in Runs : LoseLock(r)
    BY <1>0, <1>2, StallsKept
  <2>2. UNCHANGED <<row, steps, announced>>
    BY <2>1 DEF LoseLock
  <2>3. Contract!Disturb
    BY <2>1, <2>2 DEF Contract!Disturb
  <2> QED BY <2>3 DEF Contract!CNext
<1>3. CASE Calm
  <2>1. EffectInv /\ Outcome /\ Cover
    BY <1>3 DEF Calm, EngineInv, IInv, OutcomeInv, CoverInv
  <2>2. CASE UNCHANGED vars
    BY <1>3, <2>2, CalmUnseen DEF vars, Unseen, Recorded
  <2>3. ASSUME NEW r \in Runs, NEW branch \in Handles, SaveStep(r, branch)
        PROVE  [Contract!CNext]_(Contract!cvars)
    BY <1>0, <1>3, <2>1, <2>3, ContractSave
  <2>4. ASSUME NEW r \in Runs, Take(r) \/ HandlerCut(r) \/ Work(r),
               ~\E branch \in Handles : SaveStep(r, branch)
        PROVE  [Contract!CNext]_(Contract!cvars)
    BY <1>0, <1>3, <2>1, <2>4, ContractExecute, ContractLoop, ContractOther, CalmUnseen DEF Work
  <2>5. ASSUME NEW r \in Runs, LoseLock(r) PROVE FALSE
    <3>1. job'.stalls = job.stalls + 1
      BY <1>0, <2>5 DEF LoseLock, TInv, JobType
    <3> QED BY <1>3, <3>1 DEF Calm
  <2>6. ASSUME NEW r \in Runs, NEW n \in Nodes, LateEffect(n, r)
        PROVE  [Contract!CNext]_(Contract!cvars)
    BY <1>3, <2>6, ContractOther, CalmUnseen
  <2>7. ASSUME NEW r \in Runs, Work(r) PROVE [Contract!CNext]_(Contract!cvars)
    BY <2>3, <2>4, <2>7
  <2>8. ASSUME Next PROVE [Contract!CNext]_(Contract!cvars)
    <3>1. PICK r \in Runs : Take(r) \/ Work(r) \/ LoseLock(r) \/ HandlerCut(r)
                            \/ \E n \in Nodes : LateEffect(n, r)
      BY <2>8 DEF Next
    <3>2. CASE Take(r) \/ HandlerCut(r)
      BY <2>3, <2>4, <3>2, Zenon
    <3> QED BY <3>1, <3>2, <2>5, <2>6, <2>7
  <2>9. Next \/ UNCHANGED vars
    OBVIOUS
  <2> QED BY <2>2, <2>8, <2>9
<1> QED BY <1>1, <1>2, <1>3, <1>0 DEF Calm

\* Every behaviour of the engine is one that ExecutionContract allows: the row is settled
\* once, one outcome is told, after the row, and no action succeeds on record twice.
THEOREM EngineKeepsContract == Spec => KeepsContract
<1>1. Spec => []EngineInv
  BY EngineAlways
<1> QED BY <1>1, ContractInit, ContractStep, PTL DEF Spec, KeepsContract, Contract!ContractSpec
==================================================================================
