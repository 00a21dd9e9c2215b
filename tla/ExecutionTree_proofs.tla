--------------------------- MODULE ExecutionTree_proofs ---------------------------
(* Proofs about ExecutionTree, for every tree of executions, every plan, step      *)
(* budget, depth and number of attempts, and any number of faults and timeouts.    *)
(*                                                                                 *)
(* Every step is one of four: a run that is on its way moves, starts the child in  *)
(* hand, a new attempt starts the root, or the tree stays as it is.  Tree is what  *)
(* those four keep of the frames; what the properties say of results, rows and     *)
(* effects rests on it.                                                            *)
EXTENDS ExecutionTree, TLAPS

-----------------------------------------------------------------------------------
(* The tree and the types                                                          *)

Kid(r, i, k) == Plan[r][i].children[k]
Items(r, i) == 1 .. Len(Plan[r][i].children)

\* What the assumption says of a node and its children.
LEMMA PlanTypes ==
    /\ Root \in Runs
    /\ \A r \in Runs : Len(Plan[r]) \in Nat
    /\ \A r \in Runs : \A i \in NodesOf(r) :
          /\ i \in Nat /\ i >= 1 /\ i <= Len(Plan[r])
          /\ Plan[r][i].kind \in Kinds /\ Plan[r][i].continueOnError \in BOOLEAN
          /\ Len(Plan[r][i].children) \in Nat
          /\ Plan[r][i].kind = "subworkflow" => Len(Plan[r][i].children) = 1
          /\ Plan[r][i].kind \in {"logic", "action"} => Len(Plan[r][i].children) = 0
          /\ \A k \in Items(r, i) : Kid(r, i, k) \in Runs /\ Kid(r, i, k) # Root
          /\ Plan[r][i].handler \subseteq Nat /\ \A j \in Plan[r][i].handler : j > i
          /\ \A targets \in Plan[r][i].routes : targets \subseteq Nat /\ \A j \in targets : j > i
  <1>1. Root \in Runs /\ Plan \in [Runs -> Seq(Node)]
    BY TreeAssumption
  <1>2. ASSUME NEW r \in Runs PROVE Len(Plan[r]) \in Nat
    BY <1>1
  <1>3. ASSUME NEW r \in Runs, NEW i \in NodesOf(r)
        PROVE  /\ i \in Nat /\ i >= 1 /\ i <= Len(Plan[r])
               /\ Plan[r][i] \in Node
    BY <1>1, <1>2, <1>3 DEF NodesOf
  <1>4. ASSUME NEW r \in Runs, NEW i \in NodesOf(r)
        PROVE  /\ Plan[r][i].kind \in Kinds /\ Plan[r][i].continueOnError \in BOOLEAN
               /\ Plan[r][i].children \in Seq(Runs)
               /\ Plan[r][i].handler \subseteq Nat
               /\ \A targets \in Plan[r][i].routes : targets \subseteq Nat
    BY <1>3 DEF Node
  <1>5. ASSUME NEW r \in Runs, NEW i \in NodesOf(r)
        PROVE  /\ Plan[r][i].kind = "subworkflow" => Len(Plan[r][i].children) = 1
               /\ Plan[r][i].kind \in {"logic", "action"} => Len(Plan[r][i].children) = 0
               /\ \A k \in Items(r, i) : Kid(r, i, k) # Root
               /\ \A j \in Plan[r][i].handler : j > i
               /\ \A targets \in Plan[r][i].routes : \A j \in targets : j > i
    BY ChildAssumption DEF NodesOf, Items, Kid
  <1>6. ASSUME NEW r \in Runs, NEW i \in NodesOf(r)
        PROVE  /\ Len(Plan[r][i].children) \in Nat
               /\ \A k \in Items(r, i) : Kid(r, i, k) \in Runs
    <2> DEFINE s == Plan[r][i].children
    <2>1. s \in Seq(Runs)
      BY <1>4
    <2> QED
      BY <2>1 DEF Items, Kid
  <1> QED
    BY <1>1, <1>2, <1>3, <1>4, <1>5, <1>6

\* A child has one parent, node and item.
LEMMA OneParent ==
    ASSUME NEW r \in Runs, NEW q \in Runs, NEW i \in NodesOf(r), NEW j \in NodesOf(q),
           NEW k \in Items(r, i), NEW l \in Items(q, j), Kid(r, i, k) = Kid(q, j, l)
    PROVE  r = q /\ i = j /\ k = l
  <1>1. \A m \in 1 .. Len(Plan[r]), n \in 1 .. Len(Plan[q]) :
           \A x \in 1 .. Len(Plan[r][m].children), y \in 1 .. Len(Plan[q][n].children) :
              Plan[r][m].children[x] = Plan[q][n].children[y] => r = q /\ m = n /\ x = y
    BY ChildAssumption
  <1>2. i \in 1 .. Len(Plan[r]) /\ j \in 1 .. Len(Plan[q])
    BY DEF NodesOf
  <1>3. \A x \in 1 .. Len(Plan[r][i].children), y \in 1 .. Len(Plan[q][j].children) :
           Plan[r][i].children[x] = Plan[q][j].children[y] => r = q /\ i = j /\ x = y
    BY <1>1, <1>2, Zenon
  <1>4. k \in 1 .. Len(Plan[r][i].children) /\ l \in 1 .. Len(Plan[q][j].children)
    BY DEF Items
  <1> QED
    BY <1>3, <1>4, Zenon DEF Kid

\* The bounds as numbers.
LEMMA Bounds ==
    /\ MaxSteps \in Nat /\ MaxSteps >= 1 /\ MaxDepth \in Nat /\ Attempts \in Nat /\ Attempts >= 1
    /\ MaxFaults \in Nat /\ MaxTimeouts \in Nat
  BY TreeAssumption

\* The frames a run can come to.
LEMMA FrameTypes ==
    ASSUME NEW f \in Frame
    PROVE  /\ \A p \in {"off", "loop", "iterate", "wait", "record", "mark", "over"} :
                 [f EXCEPT !.pc = p] \in Frame
           /\ [f EXCEPT !.pc = "iterate", !.item = @ + 1] \in Frame
           /\ [f EXCEPT !.item = @ + 1] \in Frame
           /\ \A res \in Results, p \in {"record", "mark", "over"} :
                 [f EXCEPT !.result = res, !.pc = p] \in Frame
  <1>2. ASSUME NEW p \in {"off", "loop", "iterate", "wait", "record", "mark", "over"}
        PROVE  [f EXCEPT !.pc = p] \in Frame
    BY DEF Frame
  <1>3. f.item \in Nat /\ f.item + 1 \in Nat
    BY DEF Frame
  <1>4. [f EXCEPT !.pc = "iterate", !.item = @ + 1] \in Frame /\ [f EXCEPT !.item = @ + 1] \in Frame
    BY <1>3 DEF Frame
  <1>5. ASSUME NEW res \in Results, NEW p \in {"record", "mark", "over"}
        PROVE  [f EXCEPT !.result = res, !.pc = p] \in Frame
    BY DEF Frame
  <1> QED BY <1>2, <1>4, <1>5

\* A run that has not begun.
LEMMA OffType == Off \in Frame /\ Off.pc = "off" /\ Off.result = "none"
  BY PlanTypes DEF Off, Frame, Results

\* A run that has started.
LEMMA StartedIs ==
    ASSUME TypeOK, NEW c \in Runs, NEW b \in Runs, NEW d \in Nat
    PROVE  LET g == Started(c, b, d) IN
           /\ g \in Frame /\ g.at = 1 /\ g.item = 1 /\ ~g.failed /\ g.reuse = saved[c] /\ g.reached = {1}
           /\ g.budget = b /\ g.depth = d
           /\ d > MaxDepth => g.pc = "over" /\ g.result = "FAILED"
           /\ d <= MaxDepth => g.pc = "loop" /\ g.result = "none"
  <1>1. saved[c] \in SUBSET Nat
    BY PlanTypes DEF TypeOK
  <1>2. CASE d > MaxDepth
    <2>1. Started(c, b, d) = [Off EXCEPT !.reuse = saved[c], !.budget = b, !.depth = d,
                                         !.pc = "over", !.result = "FAILED"]
      BY <1>2 DEF Started, Reusable
    <2>2. ~(d <= MaxDepth)
      BY <1>2, Bounds
    <2> QED
      BY <1>1, <1>2, <2>1, <2>2, OffType DEF Off, Frame, Results
  <1>3. CASE d <= MaxDepth
    <2>1. ~(d > MaxDepth)
      BY <1>3, Bounds
    <2>2. Started(c, b, d) = [Off EXCEPT !.reuse = saved[c], !.budget = b, !.depth = d,
                                         !.pc = "loop", !.result = "none"]
      BY <2>1 DEF Started, Reusable
    <2> QED
      BY <1>1, <1>3, <2>1, <2>2, OffType DEF Off, Frame, Results
  <1> QED
    BY <1>2, <1>3, Bounds

\* A run that ends with a result: an iteration is over, a run with a budget of its own
\* has its end recorded, or marked by the job.
LEMMA EndedIs ==
    ASSUME TypeOK, NEW a \in Tries, NEW r \in Runs, NEW res \in Results
    PROVE  LET f == frame[a][r]
               g == Ended(a, r, res) IN
           /\ g \in Frame /\ g.at = f.at /\ g.item = f.item /\ g.failed = f.failed
           /\ g.reuse = f.reuse /\ g.budget = f.budget /\ g.depth = f.depth
           /\ g.reached = f.reached /\ g.result = res
           /\ ~OwnsBudget(a, r) => g.pc = "over"
           /\ OwnsBudget(a, r) => g.pc \in {"record", "mark"}
           /\ g.pc = "record" => res # "CRASHED"
           /\ g.pc = "mark" => res \in {"CRASHED", "FAILED"}
  <1>1. frame[a][r] \in Frame
    BY DEF TypeOK
  <1> DEFINE p == IF ~OwnsBudget(a, r) THEN "over"
                  ELSE IF res = "CRASHED" \/ (res = "FAILED" /\ r = Root) THEN "mark" ELSE "record"
             g == [frame[a][r] EXCEPT !.result = res, !.pc = p]
  <1>2. Ended(a, r, res) = g
    BY DEF Ended
  <1>3. /\ p \in {"record", "mark", "over"}
        /\ ~OwnsBudget(a, r) => p = "over"
        /\ OwnsBudget(a, r) => p \in {"record", "mark"}
        /\ p = "record" => res # "CRASHED"
        /\ p = "mark" => res \in {"CRASHED", "FAILED"}
    OBVIOUS
  <1> HIDE DEF p
  <1>4. /\ g \in Frame /\ g.at = frame[a][r].at /\ g.item = frame[a][r].item
        /\ g.failed = frame[a][r].failed /\ g.reuse = frame[a][r].reuse
        /\ g.budget = frame[a][r].budget /\ g.depth = frame[a][r].depth
        /\ g.reached = frame[a][r].reached /\ g.result = res /\ g.pc = p
    BY <1>1, <1>3 DEF Frame
  <1> HIDE DEF g
  <1> QED
    BY <1>2, <1>3, <1>4

\* One that ends by throwing.
LEMMA ThrownIs ==
    ASSUME TypeOK, NEW a \in Tries, NEW r \in Runs, NEW reason \in {"ABORTED", "CRASHED"}
    PROVE  LET f == frame[a][r]
               g == Thrown(a, r, reason) IN
           /\ g \in Frame /\ g.at = f.at /\ g.item = f.item /\ g.failed = f.failed
           /\ g.reuse = f.reuse /\ g.budget = f.budget /\ g.depth = f.depth
           /\ g.reached = f.reached
           /\ ~OwnsBudget(a, r) => g.pc = "over" /\ g.result = reason
           /\ OwnsBudget(a, r) /\ reason = "ABORTED" => g.pc = "record" /\ g.result = "FATAL"
           /\ OwnsBudget(a, r) /\ reason = "CRASHED" => g.pc = "mark" /\ g.result = "CRASHED"
  <1> DEFINE res == IF OwnsBudget(a, r) /\ reason = "ABORTED" THEN "FATAL" ELSE reason
  <1>1. Thrown(a, r, reason) = Ended(a, r, res)
    BY DEF Thrown
  <1>2. /\ res \in Results
        /\ ~OwnsBudget(a, r) => res = reason
        /\ OwnsBudget(a, r) /\ reason = "ABORTED" => res = "FATAL"
        /\ OwnsBudget(a, r) /\ reason = "CRASHED" => res = "CRASHED"
    BY DEF Results
  <1> HIDE DEF res
  <1> QED
    BY <1>1, <1>2, EndedIs

\* A run at the next node, which has reached no node behind it anew.
Onward(f, g) ==
    /\ g \in Frame /\ g.pc = "loop" /\ g.at = f.at + 1 /\ g.item = 1
    /\ g.reuse = f.reuse /\ g.budget = f.budget /\ g.depth = f.depth /\ g.result = f.result
    /\ f.reached \subseteq g.reached /\ \A j \in g.reached : j \in f.reached \/ j > f.at

\* A node that is passed, with or without branches taken.
LEMMA OnwardIs ==
    ASSUME NEW f \in Frame
    PROVE  /\ Onward(f, NextNode(f)) /\ NextNode(f).failed = f.failed
           /\ NextNode(f).reached = f.reached
           /\ \A targets \in SUBSET Nat : (\A j \in targets : j > f.at) =>
                 /\ Onward(f, Reaching(f, targets)) /\ Reaching(f, targets).failed = f.failed
                 /\ Reaching(f, targets).reached = f.reached \union targets
  <1> DEFINE n == f.at + 1
             x == NextNode(f)
  <1>1. n \in Nat /\ x = [f EXCEPT !.pc = "loop", !.at = n, !.item = 1]
    BY DEF NextNode, Frame
  <1> HIDE DEF n, x
  <1>2. /\ x.pc = "loop" /\ x.at = n /\ x.item = 1 /\ x.reuse = f.reuse /\ x.budget = f.budget
        /\ x.depth = f.depth /\ x.result = f.result /\ x.failed = f.failed /\ x.reached = f.reached
        /\ x \in Frame
    BY <1>1 DEF Frame
  <1>3. Onward(f, x)
    BY <1>2 DEF Onward, n
  <1>4. ASSUME NEW targets \in SUBSET Nat, \A j \in targets : j > f.at
        PROVE  /\ Onward(f, Reaching(f, targets)) /\ Reaching(f, targets).failed = f.failed
               /\ Reaching(f, targets).reached = f.reached \union targets
    <2> DEFINE all == f.reached \union targets
               y == Reaching(f, targets)
    <2>1. y = [x EXCEPT !.reached = all]
      BY <1>2 DEF Reaching, x
    <2>2. all \subseteq Nat
      BY DEF Frame
    <2>3. f.reached \subseteq all /\ \A j \in all : j \in f.reached \/ j > f.at
      BY <1>4
    <2> HIDE DEF y, all
    <2>4. /\ y.pc = "loop" /\ y.at = n /\ y.item = 1 /\ y.reuse = f.reuse /\ y.budget = f.budget
          /\ y.depth = f.depth /\ y.result = f.result /\ y.failed = f.failed /\ y.reached = all
          /\ y \in Frame
      BY <1>2, <2>1, <2>2 DEF Frame
    <2>5. Onward(f, y)
      BY <2>3, <2>4 DEF Onward, n
    <2> QED
      BY <2>4, <2>5 DEF y, all
  <1> QED BY <1>2, <1>3, <1>4 DEF x

\* A node that fails and one that succeeds.
LEMMA FailedIs ==
    ASSUME TypeOK, NEW a \in Tries, NEW r \in Runs, frame[a][r].at \in NodesOf(r)
    PROVE  LET f == frame[a][r]
               g == NodeFailed(r, f) IN
           /\ Onward(f, g)
           /\ g.failed \/ (Handled(Plan[r][f.at]) /\ Plan[r][f.at].handler \subseteq g.reached)
           /\ ~Handled(Plan[r][f.at]) => g.failed
  <1> DEFINE f == frame[a][r]
             n == Plan[r][f.at]
  <1>1. f \in Frame /\ n.handler \subseteq Nat /\ \A j \in n.handler : j > f.at
    BY PlanTypes DEF TypeOK
  <1>2. CASE Handled(n)
    <2>1. NodeFailed(r, f) = Reaching(f, n.handler)
      BY <1>2 DEF NodeFailed
    <2> QED
      BY <1>1, <1>2, <2>1, OnwardIs
  <1>3. CASE ~Handled(n)
    <2> DEFINE x == NextNode(f)
               y == NodeFailed(r, f)
    <2>1. y = [x EXCEPT !.failed = TRUE]
      BY <1>3 DEF NodeFailed
    <2>2. Onward(f, x)
      BY <1>1, OnwardIs
    <2>3. x \in Frame
      BY <2>2 DEF Onward
    <2> HIDE DEF x, y
    <2>4. /\ y \in Frame /\ y.pc = x.pc /\ y.at = x.at /\ y.item = x.item /\ y.reuse = x.reuse
          /\ y.budget = x.budget /\ y.depth = x.depth /\ y.result = x.result
          /\ y.reached = x.reached /\ y.failed
      BY <2>1, <2>3 DEF Frame
    <2>5. Onward(f, y) /\ y.failed
      BY <2>2, <2>4 DEF Onward
    <2> QED
      BY <1>3, <2>5 DEF y
  <1> QED
    BY <1>2, <1>3

\* The frame of a run whose node has succeeded.
LEMMA SucceedsIs ==
    ASSUME TypeOK, NEW a \in Tries, NEW r \in Runs, frame[a][r].at \in NodesOf(r), Succeeds(a, r)
    PROVE  \E g : Onward(frame[a][r], g) /\ g.failed = frame[a][r].failed /\ Becomes(a, r, g)
  <1> DEFINE f == frame[a][r]
  <1>1. PICK targets \in Plan[r][f.at].routes : Becomes(a, r, Reaching(f, targets))
    BY DEF Succeeds, Here
  <1>2. f \in Frame /\ targets \in SUBSET Nat /\ \A j \in targets : j > f.at
    BY PlanTypes DEF TypeOK
  <1>3. Onward(f, Reaching(f, targets)) /\ Reaching(f, targets).failed = f.failed
    BY <1>2, OnwardIs
  <1> QED
    BY <1>1, <1>3

\* A step of one frame, and of two.
LEMMA OneFrame ==
    ASSUME TypeOK, NEW a \in Tries, NEW r \in Runs, NEW f, Becomes(a, r, f)
    PROVE  /\ frame'[a][r] = f
           /\ \A b \in Tries, q \in Runs : (b # a \/ q # r) => frame'[b][q] = frame[b][q]
           /\ f \in Frame => frame' \in [Tries -> [Runs -> Frame]]
  BY DEF TypeOK, Becomes

\* A step of two frames.
LEMMA TwoFrames ==
    ASSUME TypeOK, NEW a \in Tries, NEW r \in Runs, NEW c \in Runs, NEW f, NEW g,
           frame' = [frame EXCEPT ![a][r] = f, ![a][c] = g]
    PROVE  /\ r # c => frame'[a][r] = f
           /\ frame'[a][c] = g
           /\ \A b \in Tries, q \in Runs : (b # a \/ q \notin {r, c}) => frame'[b][q] = frame[b][q]
           /\ f \in Frame /\ g \in Frame => frame' \in [Tries -> [Runs -> Frame]]
  BY DEF TypeOK

-----------------------------------------------------------------------------------
(* The shape of a step                                                             *)

Frames == [Tries -> [Runs -> Frame]]

\* What holds of one frame wherever its run is.
Shaped(a, r) ==
    LET f == frame[a][r] IN
    /\ f.at >= 1 /\ f.item >= 1
    /\ f.pc = "loop" => f.item = 1
    /\ f.pc \in {"iterate", "wait"} => f.at \in NodesOf(r) /\ ~f.failed /\ f.at \in f.reached
    /\ f.pc = "iterate" => Here(a, r).kind = "iterator"
    /\ f.pc = "wait" => /\ Here(a, r).kind \in {"iterator", "subworkflow"}
                        /\ f.item \in Items(r, f.at)
                        /\ frame[a][Child(a, r)].pc # "off"
    /\ f.pc \in {"off", "loop", "iterate", "wait"} <=> f.result = "none"
    /\ f.result = "SUCCESS" => ~f.failed /\ f.at > Len(Plan[r])
    /\ f.result = "ABORTED" => f.budget # r
    /\ f.result \in {"FATAL", "UNSAVED", "LOST"} => f.budget = r
    /\ f.pc \in {"record", "mark"} => f.budget = r
    /\ f.pc = "record" => f.result \in {"SUCCESS", "FAILED", "FATAL"}
    /\ f.pc = "mark" => f.result \in {"CRASHED", "FAILED", "UNSAVED"}
    /\ a > attempt => f.pc = "off"
Shape == \A a \in Tries, r \in Runs : Shaped(a, r)

Others(a, S) == \A b \in Tries, q \in Runs : (b # a \/ q \notin S) => frame'[b][q] = frame[b][q]

\* A run goes on to the next node, goes on with its iterator, ends, or is recorded.
GoesOn(r, f, g) ==
    /\ f.pc \in {"loop", "iterate", "wait"} /\ f.at \in NodesOf(r)
    /\ g.pc = "loop" /\ g.at = f.at + 1 /\ g.item = 1 /\ g.result = "none"
    /\ f.reached \subseteq g.reached /\ \A j \in g.reached : j \in f.reached \/ j > f.at
IteratesOn(r, f, g) ==
    /\ f.pc \in {"loop", "iterate", "wait"} /\ f.at \in NodesOf(r)
    /\ Plan[r][f.at].kind = "iterator" /\ ~f.failed
    /\ g.pc = "iterate" /\ g.at = f.at /\ ~g.failed /\ g.result = "none" /\ g.reached = f.reached
    /\ f.at \in f.reached
    /\ g.item = IF f.pc = "loop" THEN f.item ELSE f.item + 1
Ends(r, f, g) ==
    /\ f.pc \in {"loop", "iterate", "wait"}
    /\ g.at = f.at /\ g.item = f.item /\ g.failed = f.failed /\ g.reached = f.reached
    /\ g.pc \in IF f.budget = r THEN {"record", "mark"} ELSE {"over"}
    /\ g.pc = "record" => g.result \in {"SUCCESS", "FAILED", "FATAL"}
    /\ g.pc = "mark" => g.result \in {"FAILED", "CRASHED"}
    /\ g.pc = "over" => g.result \in {"SUCCESS", "FAILED", "ABORTED", "CRASHED"}
    /\ g.result = "SUCCESS" => ~f.failed /\ f.at > Len(Plan[r])
IsRecorded(r, f, g) ==
    /\ f.pc \in {"record", "mark"}
    /\ g.at = f.at /\ g.item = f.item /\ g.failed = f.failed /\ g.reached = f.reached
    /\ \/ g.pc = "over" /\ g.result = f.result
       \/ f.pc = "record" /\ g.pc = "mark" /\ g.result = "UNSAVED"
       \/ f.pc = "mark" /\ g.pc = "over" /\ g.result = "LOST"

\* A step of one run that is on its way.
Moves(a, r) ==
    LET f == frame[a][r]
        g == frame'[a][r] IN
    /\ Active(a, r) /\ Others(a, {r}) /\ attempt' = attempt
    /\ timeouts' = 0 => timeouts = 0
    /\ g.budget = f.budget /\ g.depth = f.depth /\ g.reuse = f.reuse
    /\ GoesOn(r, f, g) \/ IteratesOn(r, f, g) \/ Ends(r, f, g) \/ IsRecorded(r, f, g)
    /\ f.pc = "wait" => \/ At(a, Child(a, r), "over")
                        \/ Here(a, r).kind = "subworkflow" /\ timeouts' # 0
    /\ (f.pc = "wait" /\ Here(a, r).kind = "iterator" /\ frame[a][Child(a, r)].result = "ABORTED")
          => g.result = IF f.budget = r THEN "FATAL" ELSE "ABORTED"

\* A run starts the child in hand.
Starts(a, r, c) ==
    LET f == frame[a][r]
        g == frame'[a][r]
        h == frame'[a][c] IN
    /\ f.at \in NodesOf(r) /\ f.item \in Items(r, f.at) /\ c = Kid(r, f.at, f.item) /\ ~f.failed
    /\ f.at \in f.reached
    /\ \/ f.pc = "loop" /\ Plan[r][f.at].kind = "subworkflow" /\ h.budget = c /\ h.pc = "loop"
       \/ f.pc = "iterate" /\ Plan[r][f.at].kind = "iterator" /\ h.budget = f.budget
    /\ g.pc = "wait" /\ g.at = f.at /\ g.item = f.item /\ ~g.failed /\ g.reuse = f.reuse
    /\ g.budget = f.budget /\ g.depth = f.depth /\ g.result = "none" /\ g.reached = f.reached
    /\ h.at = 1 /\ h.item = 1 /\ ~h.failed /\ h.reuse = saved[c] /\ h.depth = f.depth + 1
    /\ h.reached = {1}
    /\ (h.pc = "loop" /\ h.result = "none") \/ (h.pc = "over" /\ h.result = "FAILED")
    /\ c # r /\ frame[a][c].pc = "off"
    /\ Others(a, {r, c}) /\ attempt' = attempt /\ timeouts' = timeouts

\* The worker takes the job.
Takes ==
    LET n == attempt + 1
        h == frame'[n][Root] IN
    /\ n \in Tries /\ attempt' = n /\ timeouts' = timeouts
    /\ attempt \in Tries => At(attempt, Root, "over")
    /\ h.pc = "loop" /\ h.at = 1 /\ h.item = 1 /\ ~h.failed /\ h.reuse = saved[Root]
    /\ h.budget = Root /\ h.depth = 0 /\ h.result = "none" /\ h.reached = {1}
    /\ Others(n, {Root})

Stays == frame' = frame /\ attempt' = attempt /\ timeouts' = timeouts

\* Where the runs below a node have begun.
BegunBy(a, r, i, k) ==
    LET f == frame[a][r]
        c == frame[a][Kid(r, i, k)] IN
    c.pc # "off" =>
        /\ f.pc # "off" /\ c.depth = f.depth + 1
        /\ c.budget = IF Plan[r][i].kind = "iterator" THEN f.budget ELSE Kid(r, i, k)
        /\ \/ i < f.at
           \/ i = f.at /\ k < f.item
           \/ i = f.at /\ k = f.item /\ f.pc \notin {"loop", "iterate"}
Begun == \A a \in Tries, r \in Runs : \A i \in NodesOf(r) : \A k \in Items(r, i) : BegunBy(a, r, i, k)

\* A frame and its parts.
LEMMA FrameIs ==
    ASSUME TypeOK, NEW a \in Tries, NEW r \in Runs
    PROVE  LET f == frame[a][r] IN
           /\ f \in Frame /\ f.pc \in {"off", "loop", "iterate", "wait", "record", "mark", "over"}
           /\ f.at \in Nat /\ f.item \in Nat /\ f.failed \in BOOLEAN /\ f.reuse \subseteq Nat
           /\ f.budget \in Runs /\ f.depth \in Nat /\ f.result \in Results /\ f.reached \subseteq Nat
  <1>1. frame[a][r] \in Frame
    BY DEF TypeOK
  <1> QED
    BY <1>1 DEF Frame

\* The child in hand of a run at an iterator or a subworkflow.
LEMMA ChildIs ==
    ASSUME TypeOK, NEW a \in Tries, NEW r \in Runs, frame[a][r].at \in NodesOf(r),
           frame[a][r].item \in Items(r, frame[a][r].at)
    PROVE  /\ Child(a, r) = Kid(r, frame[a][r].at, frame[a][r].item)
           /\ Child(a, r) \in Runs /\ Child(a, r) # Root
  <1>1. Child(a, r) = Kid(r, frame[a][r].at, frame[a][r].item)
    BY DEF Child, Here, Kid
  <1> QED
    BY <1>1, PlanTypes

\* A run that goes on to its next node moves.
LEMMA GoesOnMoves ==
    ASSUME TypeOK, Shape, NEW a \in Tries, NEW r \in Runs, NEW g,
           Onward(frame[a][r], g), Becomes(a, r, g),
           frame[a][r].pc \in {"loop", "iterate", "wait"}, frame[a][r].at \in NodesOf(r),
           attempt' = attempt, timeouts' = 0 => timeouts = 0,
           frame[a][r].pc = "wait" =>
              \/ At(a, Child(a, r), "over") /\ ~(Here(a, r).kind = "iterator"
                                               /\ frame[a][Child(a, r)].result = "ABORTED")
              \/ Here(a, r).kind = "subworkflow" /\ timeouts' # 0
    PROVE  Moves(a, r) /\ frame' \in Frames
  <1> DEFINE f == frame[a][r]
  <1>2. /\ g \in Frame /\ g.pc = "loop" /\ g.at = f.at + 1 /\ g.item = 1
        /\ g.reuse = f.reuse /\ g.budget = f.budget /\ g.depth = f.depth
        /\ g.result = f.result
        /\ f.reached \subseteq g.reached /\ \A j \in g.reached : j \in f.reached \/ j > f.at
    BY DEF Onward
  <1>3. f.result = "none"
    BY DEF Shape, Shaped
  <1>4. frame'[a][r] = g /\ Others(a, {r}) /\ frame' \in Frames
    BY <1>2, OneFrame DEF Others, Frames
  <1>5. GoesOn(r, f, g)
    BY <1>2, <1>3 DEF GoesOn
  <1>6. Active(a, r)
    BY DEF Active
  <1>7. f.pc = "wait" => \/ At(a, Child(a, r), "over")
                         \/ Here(a, r).kind = "subworkflow" /\ timeouts' # 0
    OBVIOUS
  <1>8. ~(f.pc = "wait" /\ Here(a, r).kind = "iterator" /\ frame[a][Child(a, r)].result = "ABORTED")
    OBVIOUS
  <1> QED
    BY <1>2, <1>4, <1>5, <1>6, <1>7, <1>8 DEF Moves

\* A run that ends moves.
LEMMA EndsMoves ==
    ASSUME TypeOK, Shape, NEW a \in Tries, NEW r \in Runs, NEW g \in Frame, Becomes(a, r, g),
           frame[a][r].pc \in {"loop", "iterate", "wait"},
           attempt' = attempt, timeouts' = 0 => timeouts = 0,
           g.at = frame[a][r].at, g.item = frame[a][r].item, g.failed = frame[a][r].failed,
           g.reuse = frame[a][r].reuse, g.budget = frame[a][r].budget, g.depth = frame[a][r].depth,
           Ends(r, frame[a][r], g),
           frame[a][r].pc = "wait" =>
              /\ At(a, Child(a, r), "over")
              /\ Here(a, r).kind = "iterator" /\ frame[a][Child(a, r)].result = "ABORTED" =>
                    g.result = IF frame[a][r].budget = r THEN "FATAL" ELSE "ABORTED"
    PROVE  Moves(a, r) /\ frame' \in Frames
  <1> DEFINE f == frame[a][r]
  <1>4. frame'[a][r] = g /\ Others(a, {r}) /\ frame' \in Frames
    BY OneFrame DEF Others, Frames
  <1>6. Active(a, r)
    BY DEF Active
  <1> QED
    BY <1>4, <1>6 DEF Moves

-----------------------------------------------------------------------------------
(* The actions, one by one                                                         *)

\* A blown budget ends the run.
LEMMA OverflowMoves ==
    ASSUME TypeOK, Shape, NEW a \in Tries, NEW r \in Runs, Overflow(a, r)
    PROVE  Moves(a, r) /\ frame' \in Frames
  <1> DEFINE g == Thrown(a, r, "ABORTED")
  <1>1. Becomes(a, r, g) /\ attempt' = attempt /\ timeouts' = timeouts /\ frame[a][r].pc = "loop"
    BY DEF Overflow, At
  <1>2. /\ g \in Frame /\ g.at = frame[a][r].at /\ g.item = frame[a][r].item
        /\ g.failed = frame[a][r].failed /\ g.reuse = frame[a][r].reuse
        /\ g.budget = frame[a][r].budget /\ g.depth = frame[a][r].depth
        /\ g.reached = frame[a][r].reached
        /\ OwnsBudget(a, r) => g.pc = "record" /\ g.result = "FATAL"
        /\ ~OwnsBudget(a, r) => g.pc = "over" /\ g.result = "ABORTED"
    BY ThrownIs
  <1> HIDE DEF g
  <1>3. Ends(r, frame[a][r], g)
    BY <1>1, <1>2 DEF Ends, OwnsBudget
  <1> QED
    BY <1>1, <1>2, <1>3, EndsMoves

\* So does a database call that throws.
LEMMA BlipMoves ==
    ASSUME TypeOK, Shape, NEW a \in Tries, NEW r \in Runs, Blip(a, r)
    PROVE  Moves(a, r) /\ frame' \in Frames
  <1> DEFINE g == Thrown(a, r, "CRASHED")
  <1>1. /\ Becomes(a, r, g) /\ attempt' = attempt /\ timeouts' = timeouts
        /\ frame[a][r].pc \in {"loop", "iterate", "wait"}
    BY DEF Blip, At, SubworkflowWaits
  <1>w. ASSUME frame[a][r].pc = "wait"
        PROVE  /\ At(a, Child(a, r), "over")
               /\ ~(Here(a, r).kind = "iterator" /\ frame[a][Child(a, r)].result = "ABORTED")
    BY <1>w DEF Blip, At, SubworkflowWaits, Unwinds
  <1>2. /\ g \in Frame /\ g.at = frame[a][r].at /\ g.item = frame[a][r].item
        /\ g.failed = frame[a][r].failed /\ g.reuse = frame[a][r].reuse
        /\ g.budget = frame[a][r].budget /\ g.depth = frame[a][r].depth
        /\ g.reached = frame[a][r].reached
        /\ OwnsBudget(a, r) => g.pc = "mark" /\ g.result = "CRASHED"
        /\ ~OwnsBudget(a, r) => g.pc = "over" /\ g.result = "CRASHED"
    BY ThrownIs
  <1> HIDE DEF g
  <1>3. Ends(r, frame[a][r], g)
    BY <1>1, <1>2 DEF Ends, OwnsBudget
  <1> QED
    BY <1>1, <1>2, <1>3, <1>w, EndsMoves

\* So does the end of its nodes, and only that with a success.
LEMMA FinishMoves ==
    ASSUME TypeOK, Shape, NEW a \in Tries, NEW r \in Runs, Finish(a, r)
    PROVE  Moves(a, r) /\ frame' \in Frames
  <1> DEFINE res == IF frame[a][r].failed THEN "FAILED" ELSE "SUCCESS"
             g == Ended(a, r, res)
  <1>1. /\ Becomes(a, r, g) /\ attempt' = attempt /\ timeouts' = timeouts
        /\ frame[a][r].pc = "loop" /\ frame[a][r].at \notin NodesOf(r)
    BY DEF Finish, At
  <1>2. /\ g \in Frame /\ g.at = frame[a][r].at /\ g.item = frame[a][r].item
        /\ g.failed = frame[a][r].failed /\ g.reuse = frame[a][r].reuse
        /\ g.budget = frame[a][r].budget /\ g.depth = frame[a][r].depth /\ g.result = res
        /\ g.reached = frame[a][r].reached
        /\ ~OwnsBudget(a, r) => g.pc = "over"
        /\ OwnsBudget(a, r) => g.pc \in {"record", "mark"}
        /\ g.pc = "record" => res # "CRASHED"
        /\ g.pc = "mark" => res \in {"CRASHED", "FAILED"}
    BY EndedIs DEF Results
  <1>3. res \in {"SUCCESS", "FAILED"} /\ (res = "SUCCESS" => ~frame[a][r].failed)
    OBVIOUS
  <1>4. frame[a][r].at > Len(Plan[r])
    BY <1>1, FrameIs, PlanTypes DEF NodesOf, Shape, Shaped
  <1> HIDE DEF g, res
  <1>5. Ends(r, frame[a][r], g)
    BY <1>1, <1>2, <1>3, <1>4 DEF Ends, OwnsBudget
  <1> QED
    BY <1>1, <1>2, <1>5, EndsMoves

\* An engine that is through records its run, or marks it, or fails to.
LEMMA RecordMoves ==
    ASSUME TypeOK, Shape, NEW a \in Tries, NEW r \in Runs,
           Record(a, r) \/ CloseThrows(a, r) \/ Mark(a, r) \/ MarkThrows(a, r)
    PROVE  Moves(a, r) /\ frame' \in Frames
  <1> DEFINE f == frame[a][r]
  <1>1. /\ attempt' = attempt /\ timeouts' = timeouts /\ f.pc \in {"record", "mark"}
        /\ \/ Becomes(a, r, [f EXCEPT !.pc = "over"])
           \/ f.pc = "record" /\ Becomes(a, r, [f EXCEPT !.pc = "mark", !.result = "UNSAVED"])
           \/ f.pc = "mark" /\ Becomes(a, r, [f EXCEPT !.pc = "over", !.result = "LOST"])
    BY DEF Record, CloseThrows, Mark, MarkThrows, At
  <1>2. ASSUME NEW g \in {[f EXCEPT !.pc = "over"], [f EXCEPT !.pc = "mark", !.result = "UNSAVED"],
                          [f EXCEPT !.pc = "over", !.result = "LOST"]}
        PROVE  /\ g \in Frame /\ g.at = f.at /\ g.item = f.item /\ g.failed = f.failed
               /\ g.reuse = f.reuse /\ g.reached = f.reached
               /\ g.budget = f.budget /\ g.depth = f.depth
               /\ \/ g = [f EXCEPT !.pc = "over"] /\ g.pc = "over" /\ g.result = f.result
                  \/ /\ g = [f EXCEPT !.pc = "mark", !.result = "UNSAVED"]
                     /\ g.pc = "mark" /\ g.result = "UNSAVED"
                  \/ /\ g = [f EXCEPT !.pc = "over", !.result = "LOST"]
                     /\ g.pc = "over" /\ g.result = "LOST"
    <2>1. f \in Frame
      BY FrameIs
    <2>2. CASE g = [f EXCEPT !.pc = "over"]
      BY <2>1, <2>2 DEF Frame
    <2>3. CASE g = [f EXCEPT !.pc = "mark", !.result = "UNSAVED"]
      BY <2>1, <2>3 DEF Frame, Results
    <2>4. CASE g = [f EXCEPT !.pc = "over", !.result = "LOST"]
      BY <2>1, <2>4 DEF Frame, Results
    <2> QED
      BY <1>2, <2>2, <2>3, <2>4
  <1>3. PICK g \in {[f EXCEPT !.pc = "over"], [f EXCEPT !.pc = "mark", !.result = "UNSAVED"],
                    [f EXCEPT !.pc = "over", !.result = "LOST"]} :
           /\ Becomes(a, r, g)
           /\ g.pc = "mark" => f.pc = "record"
           /\ g.result = "LOST" => f.pc = "mark" \/ f.result = "LOST"
           /\ IsRecorded(r, f, g)
    <2>1. CASE Becomes(a, r, [f EXCEPT !.pc = "over"])
      BY <1>1, <1>2, <2>1 DEF IsRecorded
    <2>2. CASE f.pc = "record" /\ Becomes(a, r, [f EXCEPT !.pc = "mark", !.result = "UNSAVED"])
      BY <1>1, <1>2, <2>2 DEF IsRecorded
    <2>3. CASE f.pc = "mark" /\ Becomes(a, r, [f EXCEPT !.pc = "over", !.result = "LOST"])
      BY <1>1, <1>2, <2>3 DEF IsRecorded
    <2> QED
      BY <1>1, <2>1, <2>2, <2>3
  <1>4. frame'[a][r] = g /\ Others(a, {r}) /\ frame' \in Frames
    BY <1>2, <1>3, OneFrame DEF Others, Frames
  <1>5. Active(a, r)
    BY <1>1 DEF Active
  <1>6. g.budget = f.budget /\ g.depth = f.depth /\ g.reuse = f.reuse
    BY <1>2
  <1> QED
    BY <1>1, <1>3, <1>4, <1>5, <1>6 DEF Moves

\* A node without a child of its own to start is behind.
LEMMA PassMoves ==
    ASSUME TypeOK, Shape, NEW a \in Tries, NEW r \in Runs,
           Pass(a, r) \/ Act(a, r) \/ NodeFails(a, r)
    PROVE  Moves(a, r) /\ frame' \in Frames
  <1> DEFINE f == frame[a][r]
  <1>1. f.pc = "loop" /\ f.at \in NodesOf(r) /\ attempt' = attempt /\ timeouts' = timeouts
    BY DEF Pass, Act, NodeFails, Consume, At
  <1>2. Becomes(a, r, NextNode(f)) \/ Succeeds(a, r) \/ Becomes(a, r, NodeFailed(r, f))
    BY DEF Pass, Act, NodeFails
  <1>3. \E g : Onward(f, g) /\ Becomes(a, r, g)
    BY <1>1, <1>2, FrameIs, OnwardIs, FailedIs, SucceedsIs
  <1> QED
    BY <1>1, <1>3, GoesOnMoves

\* An iterator without another item is behind.
LEMMA IteratorDoneMoves ==
    ASSUME TypeOK, Shape, NEW a \in Tries, NEW r \in Runs, IteratorDone(a, r)
    PROVE  Moves(a, r) /\ frame' \in Frames
  <1> DEFINE f == frame[a][r]
  <1>2. f.pc = "iterate" /\ attempt' = attempt /\ timeouts' = timeouts /\ Succeeds(a, r)
    BY DEF IteratorDone, At
  <1>3. f.at \in NodesOf(r)
    BY <1>2 DEF Shape, Shaped
  <1>4. PICK g : Onward(f, g) /\ Becomes(a, r, g)
    BY <1>2, <1>3, SucceedsIs
  <1> QED
    BY <1>2, <1>3, <1>4, GoesOnMoves

\* A subworkflow node that times out is behind, its child is not over.
LEMMA TimesOutMoves ==
    ASSUME TypeOK, Shape, NEW a \in Tries, NEW r \in Runs, SubworkflowTimesOut(a, r)
    PROVE  Moves(a, r) /\ frame' \in Frames
  <1> DEFINE f == frame[a][r]
  <1>2. /\ f.pc = "wait" /\ attempt' = attempt /\ timeouts' = timeouts + 1
        /\ Becomes(a, r, NodeFailed(r, f)) /\ Here(a, r).kind = "subworkflow"
    BY DEF SubworkflowTimesOut, SubworkflowWaits, At
  <1>3. f.at \in NodesOf(r)
    BY <1>2 DEF Shape, Shaped
  <1>4. timeouts' # 0
    BY <1>2, Bounds DEF TypeOK
  <1>5. Onward(f, NodeFailed(r, f))
    BY <1>3, FailedIs
  <1> QED
    BY <1>2, <1>3, <1>4, <1>5, GoesOnMoves

\* A subworkflow node whose child is over is behind.
LEMMA ReturnsMoves ==
    ASSUME TypeOK, Shape, NEW a \in Tries, NEW r \in Runs,
           SubworkflowReturns(a, r) \/ SubworkflowBreaks(a, r)
    PROVE  Moves(a, r) /\ frame' \in Frames
  <1> DEFINE f == frame[a][r]
  <1>1. /\ f.pc = "wait" /\ attempt' = attempt /\ timeouts' = timeouts
        /\ Here(a, r).kind = "subworkflow" /\ At(a, Child(a, r), "over")
        /\ Succeeds(a, r) \/ Becomes(a, r, NodeFailed(r, f))
    BY DEF SubworkflowReturns, SubworkflowBreaks, SubworkflowWaits, At
  <1>2. f.at \in NodesOf(r)
    BY <1>1 DEF Shape, Shaped
  <1>3. \E g : Onward(f, g) /\ Becomes(a, r, g)
    BY <1>1, <1>2, FailedIs, SucceedsIs
  <1>4. Here(a, r).kind # "iterator"
    BY <1>1
  <1> QED
    BY <1>1, <1>2, <1>3, <1>4, GoesOnMoves

\* A run enters an iterator.
LEMMA IteratorMoves ==
    ASSUME TypeOK, Shape, NEW a \in Tries, NEW r \in Runs, Iterator(a, r)
    PROVE  Moves(a, r) /\ frame' \in Frames
  <1> DEFINE f == frame[a][r]
             g == [f EXCEPT !.pc = "iterate"]
  <1>1. /\ f.pc = "loop" /\ f.at \in NodesOf(r) /\ attempt' = attempt /\ timeouts' = timeouts
        /\ Becomes(a, r, g) /\ ~f.failed /\ Plan[r][f.at].kind = "iterator" /\ f.at \in f.reached
    BY DEF Iterator, Consume, At, Here, Due
  <1>2. /\ g \in Frame /\ g.at = f.at /\ g.item = f.item /\ g.failed = f.failed /\ g.reuse = f.reuse
        /\ g.budget = f.budget /\ g.depth = f.depth /\ g.result = f.result /\ g.pc = "iterate"
        /\ g.reached = f.reached
    BY FrameIs DEF Frame
  <1>3. f.result = "none"
    BY <1>1 DEF Shape, Shaped
  <1>4. frame'[a][r] = g /\ Others(a, {r}) /\ frame' \in Frames
    BY <1>1, <1>2, OneFrame DEF Others, Frames
  <1>5. IteratesOn(r, f, g)
    BY <1>1, <1>2, <1>3 DEF IteratesOn
  <1>6. Active(a, r)
    BY <1>1 DEF Active
  <1> QED
    BY <1>1, <1>2, <1>4, <1>5, <1>6 DEF Moves

\* An iterator whose item is through goes on with the next one.
LEMMA IteratesMoves ==
    ASSUME TypeOK, Shape, NEW a \in Tries, NEW r \in Runs, NEW g \in Frame, Becomes(a, r, g),
           frame[a][r].pc \in {"iterate", "wait"}, Here(a, r).kind = "iterator",
           attempt' = attempt, timeouts' = timeouts,
           g.pc = "iterate", g.at = frame[a][r].at, g.item = frame[a][r].item + 1,
           g.failed = frame[a][r].failed, g.reached = frame[a][r].reached,
           g.reuse = frame[a][r].reuse, g.budget = frame[a][r].budget, g.depth = frame[a][r].depth,
           g.result = frame[a][r].result,
           frame[a][r].pc = "wait" => /\ At(a, Child(a, r), "over")
                                      /\ frame[a][Child(a, r)].result # "ABORTED"
    PROVE  Moves(a, r) /\ frame' \in Frames
  <1> DEFINE f == frame[a][r]
  <1>1. f.result = "none" /\ f.at \in NodesOf(r) /\ ~f.failed /\ f.at \in f.reached
    BY DEF Shape, Shaped
  <1>2. Plan[r][f.at].kind = "iterator"
    BY DEF Here
  <1>4. frame'[a][r] = g /\ Others(a, {r}) /\ frame' \in Frames
    BY OneFrame DEF Others, Frames
  <1>5. IteratesOn(r, f, g)
    BY <1>1, <1>2 DEF IteratesOn
  <1>6. Active(a, r)
    BY DEF Active
  <1> QED
    BY <1>1, <1>4, <1>5, <1>6 DEF Moves

\* The frame of an iterator that goes on.
LEMMA NextItemIs ==
    ASSUME NEW f \in Frame
    PROVE  LET g == [f EXCEPT !.pc = "iterate", !.item = @ + 1] IN
           /\ g \in Frame /\ g.pc = "iterate" /\ g.at = f.at /\ g.item = f.item + 1
           /\ g.failed = f.failed /\ g.reuse = f.reuse /\ g.budget = f.budget
           /\ g.depth = f.depth /\ g.result = f.result /\ g.reached = f.reached
  <1> DEFINE n == f.item + 1
             g == [f EXCEPT !.pc = "iterate", !.item = n]
  <1>1. n \in Nat
    BY DEF Frame
  <1>2. g = [f EXCEPT !.pc = "iterate", !.item = @ + 1]
    OBVIOUS
  <1> HIDE DEF n
  <1>3. /\ g \in Frame /\ g.pc = "iterate" /\ g.at = f.at /\ g.item = n
        /\ g.failed = f.failed /\ g.reuse = f.reuse /\ g.budget = f.budget
        /\ g.depth = f.depth /\ g.result = f.result /\ g.reached = f.reached
    BY <1>1 DEF Frame
  <1> QED
    BY <1>2, <1>3 DEF n

\* Where a child that is about to start has not begun.
LEMMA NotBegun ==
    ASSUME TypeOK, Begun, NEW a \in Tries, NEW r \in Runs,
           frame[a][r].at \in NodesOf(r), frame[a][r].item \in Items(r, frame[a][r].at),
           frame[a][r].pc \in {"loop", "iterate"}
    PROVE  Child(a, r) # r /\ frame[a][Child(a, r)].pc = "off"
  <1> DEFINE f == frame[a][r]
             c == Child(a, r)
  <1>1. c = Kid(r, f.at, f.item)
    BY ChildIs
  <1>2. BegunBy(a, r, f.at, f.item)
    BY DEF Begun
  <1>3. f.at \in Nat /\ f.item \in Nat
    BY FrameIs
  <1>4. ~(f.at < f.at) /\ ~(f.item < f.item)
    BY <1>3
  <1>5. frame[a][c].pc = "off"
    BY <1>1, <1>2, <1>4 DEF BegunBy
  <1> QED
    BY <1>5

\* The frame of a run that waits for its child.
LEMMA WaitIs ==
    ASSUME NEW f \in Frame
    PROVE  LET g == [f EXCEPT !.pc = "wait"] IN
           /\ g \in Frame /\ g.pc = "wait" /\ g.at = f.at /\ g.item = f.item
           /\ g.failed = f.failed /\ g.reuse = f.reuse /\ g.budget = f.budget
           /\ g.depth = f.depth /\ g.result = f.result /\ g.reached = f.reached
  BY DEF Frame

\* A node in hand that has a child.
LEMMA StartsIs ==
    ASSUME TypeOK, Shape, Begun, NEW a \in Tries, NEW r \in Runs, NEW c, c = Child(a, r),
           frame[a][r].at \in NodesOf(r), frame[a][r].item \in Items(r, frame[a][r].at),
           NEW g \in Frame, NEW h \in Frame, frame' = [frame EXCEPT ![a][r] = g, ![a][c] = h],
           g.pc = "wait", g.at = frame[a][r].at, g.item = frame[a][r].item,
           g.failed = frame[a][r].failed, g.reuse = frame[a][r].reuse, g.reached = frame[a][r].reached,
           g.budget = frame[a][r].budget, g.depth = frame[a][r].depth, g.result = frame[a][r].result,
           h.reached = {1}, h.at = 1, h.item = 1, ~h.failed, h.reuse = saved[c], h.depth = frame[a][r].depth + 1,
           (h.pc = "loop" /\ h.result = "none") \/ (h.pc = "over" /\ h.result = "FAILED"),
           ~frame[a][r].failed, frame[a][r].at \in frame[a][r].reached,
           attempt' = attempt, timeouts' = timeouts,
           \/ /\ frame[a][r].pc = "loop" /\ Here(a, r).kind = "subworkflow" /\ h.budget = c
              /\ h.pc = "loop"
           \/ frame[a][r].pc = "iterate" /\ Here(a, r).kind = "iterator" /\ h.budget = frame[a][r].budget
    PROVE  Starts(a, r, c) /\ frame' \in Frames
  <1> DEFINE f == frame[a][r]
  <1>1. c = Kid(r, f.at, f.item) /\ c \in Runs
    BY ChildIs
  <1>2. c # r /\ frame[a][c].pc = "off"
    BY NotBegun
  <1>3. f.result = "none"
    BY DEF Shape, Shaped
  <1>4. Plan[r][f.at].kind = Here(a, r).kind
    BY DEF Here
  <1>5. /\ frame'[a][r] = g /\ frame'[a][c] = h /\ frame' \in Frames
        /\ \A x \in Tries, q \in Runs : (x # a \/ q \notin {r, c}) => frame'[x][q] = frame[x][q]
    BY <1>1, <1>2 DEF TypeOK, Frames
  <1>6. Others(a, {r, c})
    BY <1>5 DEF Others
  <1> QED
    BY <1>1, <1>2, <1>3, <1>4, <1>5, <1>6 DEF Starts

\* An iterator skips an item that has succeeded, or starts it.
LEMMA IterateMoves ==
    ASSUME TypeOK, Shape, Begun, NEW a \in Tries, NEW r \in Runs, Iterate(a, r)
    PROVE  /\ frame' \in Frames
           /\ \/ Moves(a, r) /\ row[Child(a, r)] = "SUCCESS"
              \/ Starts(a, r, Child(a, r)) /\ row[Child(a, r)] # "SUCCESS"
  <1> DEFINE f == frame[a][r]
             c == Child(a, r)
  <1>1. /\ f.pc = "iterate" /\ f.item <= Len(Plan[r][f.at].children)
        /\ attempt' = attempt /\ timeouts' = timeouts
    BY DEF Iterate, At, Here
  <1>2. /\ f \in Frame /\ f.item \in Nat /\ f.item >= 1 /\ f.at \in NodesOf(r) /\ ~f.failed
        /\ Here(a, r).kind = "iterator" /\ f.at \in f.reached
    BY <1>1, FrameIs DEF Shape, Shaped
  <1>3. f.item \in Items(r, f.at)
    BY <1>1, <1>2, PlanTypes DEF Items
  <1>4. CASE row[c] = "SUCCESS"
    <2>1. Becomes(a, r, [f EXCEPT !.item = @ + 1])
      BY <1>4 DEF Iterate
    <2>2. [f EXCEPT !.item = @ + 1] = [f EXCEPT !.pc = "iterate", !.item = @ + 1]
      BY <1>1, <1>2 DEF Frame
    <2> DEFINE g == [f EXCEPT !.pc = "iterate", !.item = @ + 1]
    <2>3. /\ g \in Frame /\ g.pc = "iterate" /\ g.at = f.at /\ g.item = f.item + 1
          /\ g.failed = f.failed /\ g.reuse = f.reuse /\ g.budget = f.budget
          /\ g.depth = f.depth /\ g.result = f.result /\ g.reached = f.reached
      BY <1>2, NextItemIs
    <2>4. Becomes(a, r, g)
      BY <2>1, <2>2, Zenon
    <2> HIDE DEF g
    <2>5. Moves(a, r) /\ frame' \in Frames
      BY <1>1, <1>2, <2>3, <2>4, IteratesMoves
    <2> QED BY <1>4, <2>5
  <1>5. CASE row[c] # "SUCCESS"
    <2>1. frame' = [frame EXCEPT ![a][r] = [f EXCEPT !.pc = "wait"],
                                 ![a][c] = Started(c, f.budget, f.depth + 1)]
      BY <1>5 DEF Iterate
    <2>2. f.budget \in Runs
      BY FrameIs
    <2> DEFINE d == f.depth + 1
               g == [f EXCEPT !.pc = "wait"]
               h == Started(c, f.budget, d)
    <2>4. /\ g \in Frame /\ g.pc = "wait" /\ g.at = f.at /\ g.item = f.item
          /\ g.failed = f.failed /\ g.reuse = f.reuse /\ g.budget = f.budget
          /\ g.depth = f.depth /\ g.result = f.result /\ g.reached = f.reached
      BY <1>2, WaitIs
    <2>5. d \in Nat /\ (d > MaxDepth \/ d <= MaxDepth)
      BY FrameIs, Bounds
    <2>6. c \in Runs
      BY <1>2, <1>3, ChildIs
    <2>7. /\ h \in Frame /\ h.reached = {1} /\ h.at = 1 /\ h.item = 1 /\ ~h.failed /\ h.reuse = saved[c]
          /\ h.budget = f.budget /\ h.depth = d
          /\ d > MaxDepth => h.pc = "over" /\ h.result = "FAILED"
          /\ d <= MaxDepth => h.pc = "loop" /\ h.result = "none"
      BY <2>2, <2>5, <2>6, StartedIs
    <2>8. frame' = [frame EXCEPT ![a][r] = g, ![a][c] = h]
      BY <2>1, Zenon
    <2>9. h.depth = f.depth + 1 /\ ((h.pc = "loop" /\ h.result = "none") \/ (h.pc = "over" /\ h.result = "FAILED"))
      BY <2>5, <2>7
    <2> HIDE DEF g, h, d
    <2>10. c = Child(a, r)
      OBVIOUS
    <2> HIDE DEF c
    <2>3. Starts(a, r, c) /\ frame' \in Frames
      BY <1>1, <1>2, <1>3, <2>4, <2>7, <2>8, <2>9, <2>10, StartsIs
    <2> USE DEF c
    <2> QED BY <1>5, <2>3
  <1> QED
    BY <1>4, <1>5

\* An item that is over ends its iterator, or lets it go on.
LEMMA IterationMoves ==
    ASSUME TypeOK, Shape, NEW a \in Tries, NEW r \in Runs, IterationReturns(a, r)
    PROVE  Moves(a, r) /\ frame' \in Frames
  <1> DEFINE f == frame[a][r]
             c == Child(a, r)
             result == frame[a][c].result
  <1>1. /\ f.pc = "wait" /\ Here(a, r).kind = "iterator" /\ At(a, c, "over")
        /\ attempt' = attempt /\ timeouts' = timeouts
    BY DEF IterationReturns, At
  <1>2. f \in Frame /\ f.at \in NodesOf(r) /\ ~f.failed
    BY <1>1, FrameIs DEF Shape, Shaped
  <1>3. CASE Unwinds(a, r, result)
    <2>1. Becomes(a, r, Thrown(a, r, result))
      BY <1>3 DEF IterationReturns
    <2>2. result \in {"ABORTED", "CRASHED"}
      BY <1>3 DEF Unwinds
    <2>3. PICK reason \in {"ABORTED", "CRASHED"} : reason = result
      BY <2>2
    <2> DEFINE g == Thrown(a, r, reason)
    <2>4. Becomes(a, r, g)
      BY <2>1, <2>3
    <2>5. /\ g \in Frame /\ g.at = f.at /\ g.item = f.item /\ g.failed = f.failed
          /\ g.reuse = f.reuse /\ g.budget = f.budget /\ g.depth = f.depth
          /\ g.reached = f.reached
          /\ ~OwnsBudget(a, r) => g.pc = "over" /\ g.result = reason
          /\ OwnsBudget(a, r) /\ reason = "ABORTED" => g.pc = "record" /\ g.result = "FATAL"
          /\ OwnsBudget(a, r) /\ reason = "CRASHED" => g.pc = "mark" /\ g.result = "CRASHED"
      BY ThrownIs
    <2> HIDE DEF g
    <2>6. Ends(r, f, g)
      BY <1>1, <2>5 DEF Ends, OwnsBudget
    <2>7. result = "ABORTED" => g.result = IF f.budget = r THEN "FATAL" ELSE "ABORTED"
      BY <2>3, <2>5 DEF OwnsBudget
    <2> QED
      BY <1>1, <2>4, <2>5, <2>6, <2>7, EndsMoves
  <1>4. CASE ~Unwinds(a, r, result)
    <2>1. Becomes(a, r, IF Breaks(a, r, result) THEN NodeFailed(r, f)
                        ELSE [f EXCEPT !.pc = "iterate", !.item = @ + 1])
      BY <1>4 DEF IterationReturns
    <2>2. result # "ABORTED"
      BY <1>4 DEF Unwinds
    <2>3. CASE Breaks(a, r, result)
      <3>1. Becomes(a, r, NodeFailed(r, f))
        BY <2>1, <2>3
      <3>2. Onward(f, NodeFailed(r, f))
        BY <1>2, FailedIs
      <3> QED
        BY <1>1, <1>2, <2>2, <3>1, <3>2, GoesOnMoves
    <2>4. CASE ~Breaks(a, r, result)
      <3> DEFINE g == [f EXCEPT !.pc = "iterate", !.item = @ + 1]
      <3>1. Becomes(a, r, g)
        BY <2>1, <2>4
      <3>2. /\ g \in Frame /\ g.pc = "iterate" /\ g.at = f.at /\ g.item = f.item + 1
            /\ g.failed = f.failed /\ g.reuse = f.reuse /\ g.budget = f.budget
            /\ g.depth = f.depth /\ g.result = f.result /\ g.reached = f.reached
        BY <1>2, NextItemIs
      <3> HIDE DEF g
      <3> QED
        BY <1>1, <2>2, <3>1, <3>2, IteratesMoves
    <2> QED BY <2>3, <2>4
  <1> QED
    BY <1>3, <1>4

\* A subworkflow node is behind, or starts its child.
LEMMA SubworkflowMoves ==
    ASSUME TypeOK, Shape, Begun, NEW a \in Tries, NEW r \in Runs, Subworkflow(a, r)
    PROVE  /\ frame' \in Frames
           /\ \/ Moves(a, r)
              \/ Starts(a, r, Child(a, r)) /\ row[Child(a, r)] # "SUCCESS"
  <1> DEFINE f == frame[a][r]
             c == Child(a, r)
  <1>1. /\ f.pc = "loop" /\ f.at \in NodesOf(r) /\ Here(a, r).kind = "subworkflow" /\ ~f.failed
        /\ f.at \in f.reached /\ attempt' = attempt /\ timeouts' = timeouts
    BY DEF Subworkflow, Consume, At, Due
  <1>2. f.item = 1
    BY <1>1 DEF Shape, Shaped
  <1>3. f.item \in Items(r, f.at)
    <2>1. Len(Plan[r][f.at].children) = 1
      BY <1>1, PlanTypes DEF Here
    <2>2. 1 \in 1 .. 1
      OBVIOUS
    <2> QED
      BY <1>2, <2>1, <2>2 DEF Items
  <1>4. \/ Succeeds(a, r) \/ Becomes(a, r, NodeFailed(r, f))
        \/ /\ f.depth < MaxDepth /\ row[c] # "SUCCESS"
           /\ frame' = [frame EXCEPT ![a][r] = [f EXCEPT !.pc = "wait"],
                                     ![a][c] = Started(c, c, f.depth + 1)]
    BY DEF Subworkflow
  <1>5. CASE Succeeds(a, r) \/ Becomes(a, r, NodeFailed(r, f))
    <2>1. \E g : Onward(f, g) /\ Becomes(a, r, g)
      BY <1>1, <1>5, FailedIs, SucceedsIs
    <2> QED BY <1>1, <2>1, GoesOnMoves
  <1>6. CASE /\ f.depth < MaxDepth /\ row[c] # "SUCCESS"
             /\ frame' = [frame EXCEPT ![a][r] = [f EXCEPT !.pc = "wait"],
                                       ![a][c] = Started(c, c, f.depth + 1)]
    <2>1. c \in Runs
      BY <1>1, <1>3, ChildIs
    <2> DEFINE d == f.depth + 1
               g == [f EXCEPT !.pc = "wait"]
               h == Started(c, c, d)
    <2>3. f \in Frame /\ d \in Nat /\ d <= MaxDepth
      BY <1>6, FrameIs, Bounds
    <2>4. /\ g \in Frame /\ g.pc = "wait" /\ g.at = f.at /\ g.item = f.item
          /\ g.failed = f.failed /\ g.reuse = f.reuse /\ g.budget = f.budget
          /\ g.depth = f.depth /\ g.result = f.result /\ g.reached = f.reached
      BY <2>3, WaitIs
    <2>7. /\ h \in Frame /\ h.reached = {1} /\ h.at = 1 /\ h.item = 1 /\ ~h.failed /\ h.reuse = saved[c]
          /\ h.budget = c /\ h.depth = d
          /\ d <= MaxDepth => h.pc = "loop" /\ h.result = "none"
      BY <2>1, <2>3, StartedIs
    <2>8. frame' = [frame EXCEPT ![a][r] = g, ![a][c] = h]
      BY <1>6, Zenon
    <2>9. h.depth = f.depth + 1 /\ h.pc = "loop" /\ h.result = "none"
      BY <2>3, <2>7
    <2> HIDE DEF g, h, d
    <2>10. c = Child(a, r) /\ row[c] # "SUCCESS"
      BY <1>6
    <2> HIDE DEF c
    <2>2. Starts(a, r, c) /\ frame' \in Frames
      BY <1>1, <1>3, <2>4, <2>7, <2>8, <2>9, <2>10, StartsIs
    <2> USE DEF c
    <2> QED BY <2>2, <2>10
  <1> QED
    BY <1>4, <1>5, <1>6

\* The worker takes the job.
LEMMA TakeJobTakes ==
    ASSUME TypeOK, Shape, TakeJob
    PROVE  Takes /\ frame' \in Frames
  <1> DEFINE n == attempt + 1
             h == Started(Root, Root, 0)
  <1>1. /\ attempt < Attempts /\ attempt' = n /\ timeouts' = timeouts
        /\ attempt > 0 => At(attempt, Root, "over")
        /\ Becomes(n, Root, h)
    BY DEF TakeJob
  <1>2. attempt \in Nat /\ n \in Tries /\ (attempt \in Tries => attempt > 0)
    BY <1>1, Bounds DEF TypeOK, Tries
  <1>3. Root \in Runs /\ 0 <= MaxDepth /\ 0 \in Nat
    BY PlanTypes, Bounds
  <1>4. /\ h \in Frame /\ h.at = 1 /\ h.item = 1 /\ ~h.failed /\ h.reuse = saved[Root]
        /\ h.budget = Root /\ h.depth = 0 /\ h.reached = {1}
        /\ 0 <= MaxDepth => h.pc = "loop" /\ h.result = "none"
    BY <1>3, StartedIs
  <1> HIDE DEF h, n
  <1>5. frame'[n][Root] = h /\ Others(n, {Root}) /\ frame' \in Frames
    BY <1>1, <1>2, <1>3, <1>4, OneFrame DEF Others, Frames
  <1> QED
    BY <1>1, <1>2, <1>3, <1>4, <1>5 DEF Takes, n

\* Every step is one of these.
LEMMA StepForms ==
    ASSUME TypeOK, Shape, Begun, [Next]_vars
    PROVE  /\ frame' \in Frames
           /\ \/ Stays
              \/ Takes
              \/ \E a \in Tries, r \in Runs : Moves(a, r)
              \/ \E a \in Tries, r \in Runs : \E c \in Runs : Starts(a, r, c)
  <1>1. CASE TakeJob
    BY <1>1, TakeJobTakes
  <1>2. CASE UNCHANGED vars
    BY <1>2 DEF vars, Stays, TypeOK, Frames
  <1>3. ASSUME NEW a \in Tries, NEW r \in Runs, Work(a, r) \/ Adversity(a, r)
        PROVE  /\ frame' \in Frames
               /\ Moves(a, r) \/ \E c \in Runs : Starts(a, r, c)
    <2>1. CASE Overflow(a, r) \/ Blip(a, r) \/ Finish(a, r)
      BY <2>1, OverflowMoves, BlipMoves, FinishMoves
    <2>6. CASE Record(a, r) \/ CloseThrows(a, r) \/ Mark(a, r) \/ MarkThrows(a, r)
      BY <2>6, RecordMoves
    <2>2. CASE Pass(a, r) \/ Act(a, r) \/ NodeFails(a, r) \/ Iterator(a, r) \/ IteratorDone(a, r)
      BY <2>2, PassMoves, IteratorMoves, IteratorDoneMoves
    <2>3. CASE IterationReturns(a, r) \/ SubworkflowReturns(a, r) \/ SubworkflowBreaks(a, r)
               \/ SubworkflowTimesOut(a, r)
      BY <2>3, IterationMoves, ReturnsMoves, TimesOutMoves
    <2>4. Starts(a, r, Child(a, r)) => Child(a, r) \in Runs
      BY PlanTypes DEF Starts
    <2>5. CASE Iterate(a, r) \/ Subworkflow(a, r)
      BY <2>4, <2>5, IterateMoves, SubworkflowMoves
    <2> QED
      BY <1>3, <2>1, <2>2, <2>3, <2>5, <2>6 DEF Work, Adversity
  <1> QED
    BY <1>1, <1>2, <1>3 DEF Next, Idle

Statuses == {"none", "PENDING", "RUNNING", "SUCCESS", "FAILED"}

\* The types of what a step leaves behind.
RowsTyped == row' \in [Runs -> Statuses]
StepsTyped == \A r \in Runs : saved'[r] \subseteq NodesOf(r) /\ effects'[r] \in [NodesOf(r) -> Nat]
ChargedTyped == charged' \in [Tries -> [Runs -> 0 .. MaxSteps]]
CountsTyped == attempt' \in 0 .. Attempts /\ faults' \in 0 .. MaxFaults /\ timeouts' \in 0 .. MaxTimeouts

\* A row that is written keeps its type.
LEMMA OneRow ==
    ASSUME TypeOK, NEW c, NEW v \in Statuses, row' = [row EXCEPT ![c] = v]
    PROVE  RowsTyped
  BY DEF TypeOK, RowsTyped, Statuses

\* A node charged to a budget that is not used up leaves it within the cap.
LEMMA Consumed ==
    ASSUME TypeOK, NEW a \in Tries, NEW r \in Runs, Consume(a, r)
    PROVE  ChargedTyped
  <1> DEFINE b == frame[a][r].budget
             n == charged[a][b] + 1
  <1>1. charged \in [Tries -> [Runs -> 0 .. MaxSteps]]
    BY DEF TypeOK
  <1>2. charged[a][b] < MaxSteps /\ charged' = [charged EXCEPT ![a][b] = @ + 1]
    BY DEF Consume
  <1>3. b \in Runs
    BY FrameIs
  <1>4. n \in 0 .. MaxSteps
    BY <1>1, <1>2, <1>3, Bounds
  <1>5. charged' = [charged EXCEPT ![a][b] = n]
    BY <1>1, <1>2, <1>3
  <1> HIDE DEF n, b
  <1> QED
    BY <1>1, <1>4, <1>5 DEF ChargedTyped

\* An action is saved as one of its run's.
LEMMA ActTyped ==
    ASSUME TypeOK, NEW a \in Tries, NEW r \in Runs, Act(a, r)
    PROVE  StepsTyped
  <1> DEFINE i == frame[a][r].at
             n == effects[r][i] + 1
  <1>1. i \in NodesOf(r)
    BY DEF Act, Consume
  <1>2. \A q \in Runs : saved[q] \subseteq NodesOf(q) /\ effects[q] \in [NodesOf(q) -> Nat]
    BY DEF TypeOK
  <1>3. CASE i \in frame[a][r].reuse
    BY <1>2, <1>3 DEF Act, StepsTyped
  <1>4. CASE i \notin frame[a][r].reuse
    <2>1. saved' = [saved EXCEPT ![r] = @ \union {i}] /\ effects' = [effects EXCEPT ![r][i] = @ + 1]
      BY <1>4 DEF Act
    <2> HIDE DEF i
    <2> SUFFICES ASSUME NEW q \in Runs
                 PROVE  saved'[q] \subseteq NodesOf(q) /\ effects'[q] \in [NodesOf(q) -> Nat]
      BY DEF StepsTyped
    <2>2. CASE q = r
      <3>1. saved'[q] \subseteq saved[q] \union {i}
        BY <2>1, <2>2
      <3>2. effects'[q] = effects[q] \/ effects'[q] = [effects[q] EXCEPT ![i] = @ + 1]
        BY <2>1, <2>2
      <3>3. effects[q][i] \in Nat /\ effects[q][i] + 1 \in Nat
        BY <1>1, <1>2, <2>2
      <3>4. effects'[q] \in [NodesOf(q) -> Nat]
        BY <1>2, <3>2, <3>3
      <3> QED
        BY <1>1, <1>2, <2>2, <3>1, <3>4
    <2>3. CASE q # r
      <3>1. saved'[q] = saved[q] /\ effects'[q] = effects[q]
        BY <2>1, <2>3
      <3> QED BY <1>2, <3>1
    <2> QED BY <2>2, <2>3
  <1> QED
    BY <1>3, <1>4

\* A fault leaves the counts within their bounds.
LEMMA ThrowsTyped ==
    ASSUME TypeOK, Throws, UNCHANGED <<attempt, timeouts>>
    PROVE  CountsTyped
  <1>1. faults \in 0 .. MaxFaults /\ timeouts \in 0 .. MaxTimeouts /\ attempt \in 0 .. Attempts
    BY DEF TypeOK
  <1>2. faults + timeouts < MaxFaults /\ faults' = faults + 1
    BY DEF Throws
  <1>3. faults' \in 0 .. MaxFaults
    BY <1>1, <1>2, Bounds
  <1> QED
    BY <1>1, <1>3 DEF CountsTyped

\* The types are kept.
LEMMA TypedStep ==
    ASSUME TypeOK, Shape, Begun, [Next]_vars
    PROVE  TypeOK'
  <1>1. frame' \in Frames
    BY StepForms
  <1>2. CASE UNCHANGED vars
    BY <1>2 DEF vars, TypeOK
  <1> DEFINE Kept == RowsTyped /\ StepsTyped /\ ChargedTyped /\ CountsTyped
  <1>3. (UNCHANGED row => RowsTyped) /\ (UNCHANGED <<saved, effects>> => StepsTyped)
        /\ (UNCHANGED charged => ChargedTyped)
    BY DEF TypeOK, RowsTyped, Statuses, StepsTyped, ChargedTyped
  <1>4. UNCHANGED <<attempt, faults, timeouts>> => CountsTyped
    BY DEF TypeOK, CountsTyped
  <1>5. ASSUME TakeJob PROVE Kept
    <2>1. attempt' \in 0 .. Attempts /\ UNCHANGED <<row, saved, effects, charged, faults, timeouts>>
      BY <1>5, Bounds DEF TakeJob, TypeOK
    <2>2. CountsTyped
      BY <2>1 DEF CountsTyped, TypeOK
    <2> QED
      BY <1>3, <2>1, <2>2
  <1>6. ASSUME NEW a \in Tries, NEW r \in Runs, Work(a, r) \/ Adversity(a, r)
        PROVE  Kept
    <2>1. CASE Overflow(a, r) \/ Finish(a, r) \/ IteratorDone(a, r) \/ SubworkflowReturns(a, r)
      <3>1. UNCHANGED <<row, saved, effects, charged, attempt, faults, timeouts>>
        BY <2>1 DEF Overflow, Finish, IteratorDone, SubworkflowReturns
      <3> QED BY <1>3, <1>4, <3>1
    <2>2. CASE Pass(a, r) \/ Iterator(a, r)
      <3>1. Consume(a, r) /\ UNCHANGED <<row, saved, effects, attempt, faults, timeouts>>
        BY <2>2 DEF Pass, Iterator
      <3> QED BY <1>3, <1>4, <3>1, Consumed
    <2>3. CASE Act(a, r)
      <3>1. Consume(a, r) /\ UNCHANGED <<row, attempt, faults, timeouts>>
        BY <2>3 DEF Act
      <3> QED BY <1>3, <1>4, <2>3, <3>1, Consumed, ActTyped
    <2>4. CASE CloseThrows(a, r) \/ MarkThrows(a, r) \/ SubworkflowBreaks(a, r)
      <3>1. UNCHANGED <<row, saved, effects, charged, attempt, timeouts>> /\ Throws
        BY <2>4 DEF CloseThrows, MarkThrows, SubworkflowBreaks
      <3> QED BY <1>3, <3>1, ThrowsTyped
    <2>10. CASE NodeFails(a, r)
      <3> DEFINE c == Child(a, r)
      <3>1. /\ Consume(a, r) /\ Throws /\ UNCHANGED <<saved, effects, attempt, timeouts>>
            /\ UNCHANGED row \/ row' = [row EXCEPT ![c] = "PENDING"]
        BY <2>10 DEF NodeFails
      <3> HIDE DEF c
      <3>2. "PENDING" \in Statuses
        BY DEF Statuses
      <3>3. RowsTyped
        BY <1>3, <3>1, <3>2, OneRow
      <3> QED BY <1>3, <3>1, <3>3, Consumed, ThrowsTyped
    <2>11. CASE Blip(a, r)
      <3> DEFINE c == Child(a, r)
                 v == IF frame[a][c].result = "SUCCESS" THEN "SUCCESS" ELSE "FAILED"
      <3>1. /\ Throws /\ UNCHANGED <<saved, effects, charged, attempt, timeouts>>
            /\ UNCHANGED row \/ row' = [row EXCEPT ![c] = v]
        BY <2>11 DEF Blip, Settled
      <3>2. v \in Statuses
        BY DEF Statuses
      <3> HIDE DEF c, v
      <3>3. RowsTyped
        BY <1>3, <3>1, <3>2, OneRow
      <3> QED BY <1>3, <3>1, <3>3, ThrowsTyped
    <2>5. CASE SubworkflowTimesOut(a, r)
      <3>1. /\ UNCHANGED <<row, saved, effects, charged, attempt, faults>>
            /\ timeouts < MaxTimeouts /\ timeouts' = timeouts + 1
        BY <2>5 DEF SubworkflowTimesOut
      <3>3. timeouts' \in 0 .. MaxTimeouts
        BY <3>1, Bounds DEF TypeOK
      <3>4. CountsTyped
        BY <3>1, <3>3 DEF CountsTyped, TypeOK
      <3> QED BY <1>3, <3>1, <3>4
    <2>6. CASE Record(a, r) \/ Mark(a, r)
      <3>1. /\ UNCHANGED <<saved, effects, charged, attempt, faults, timeouts>>
            /\ \/ UNCHANGED row
               \/ row' = [row EXCEPT ![r] = Closing(a, r)]
               \/ row' = [row EXCEPT ![r] = "FAILED"]
        BY <2>6 DEF Record, Mark
      <3>2. Closing(a, r) \in Statuses /\ "FAILED" \in Statuses
        BY DEF Closing, Statuses
      <3>3. RowsTyped
        BY <1>3, <3>1, <3>2, OneRow
      <3> QED BY <1>3, <1>4, <3>1, <3>3
    <2>7. CASE Iterate(a, r)
      <3> DEFINE c == Child(a, r)
                 v == IF row[c] = "none" THEN "RUNNING" ELSE row[c]
      <3>1. UNCHANGED <<saved, effects, charged, attempt, faults, timeouts>>
            /\ (UNCHANGED row \/ row' = [row EXCEPT ![c] = IF @ = "none" THEN "RUNNING" ELSE @])
        BY <2>7 DEF Iterate
      <3>2. RowsTyped
        <4>1. CASE UNCHANGED row
          BY <1>3, <4>1
        <4>2. CASE row' = [row EXCEPT ![c] = IF @ = "none" THEN "RUNNING" ELSE @]
          <5> HIDE DEF c
          <5> QED BY <4>2 DEF TypeOK, RowsTyped, Statuses
        <4> QED BY <3>1, <4>1, <4>2
      <3> QED BY <1>3, <1>4, <3>1, <3>2
    <2>8. CASE IterationReturns(a, r)
      <3> DEFINE c == Child(a, r)
                 v == IF frame[a][c].result = "SUCCESS" THEN "SUCCESS" ELSE "FAILED"
      <3>1. UNCHANGED <<saved, effects, charged, attempt, faults, timeouts>>
            /\ (UNCHANGED row \/ row' = [row EXCEPT ![c] = v])
        BY <2>8 DEF IterationReturns, Settled
      <3>2. v \in Statuses
        BY DEF Statuses
      <3> HIDE DEF c, v
      <3>3. RowsTyped
        BY <1>3, <3>1, <3>2, OneRow
      <3> QED BY <1>3, <1>4, <3>1, <3>3
    <2>9. CASE Subworkflow(a, r)
      <3> DEFINE c == Child(a, r)
      <3>1. Consume(a, r) /\ UNCHANGED <<saved, effects, attempt, faults, timeouts>>
            /\ (UNCHANGED row \/ row' = [row EXCEPT ![c] = "RUNNING"])
        BY <2>9 DEF Subworkflow
      <3> HIDE DEF c
      <3>2. "RUNNING" \in Statuses
        BY DEF Statuses
      <3>3. RowsTyped
        BY <1>3, <3>1, <3>2, OneRow
      <3> QED BY <1>3, <1>4, <3>1, <3>3, Consumed
    <2> QED
      BY <1>6, <2>1, <2>2, <2>3, <2>4, <2>5, <2>6, <2>7, <2>8, <2>9, <2>10, <2>11
      DEF Work, Adversity
  <1>7. Kept \/ UNCHANGED vars
    BY <1>5, <1>6 DEF Next, Idle
  <1> HIDE DEF Kept
  <1>8. CASE Kept
    BY <1>1, <1>8 DEF Kept, RowsTyped, StepsTyped, ChargedTyped, CountsTyped, TypeOK, Frames, Statuses
  <1> QED
    BY <1>2, <1>7, <1>8

\* The types hold at the start.
LEMMA TypedInit ==
    ASSUME Init
    PROVE  TypeOK
  <1>1. Root \in Runs /\ Off \in Frame
    BY PlanTypes, OffType
  <1>2. 0 \in 0 .. MaxSteps /\ 0 \in 0 .. Attempts /\ 0 \in 0 .. MaxFaults /\ 0 \in 0 .. MaxTimeouts
    BY Bounds
  <1>3. row \in [Runs -> Statuses]
    BY DEF Init, Statuses
  <1>4. \A r \in Runs : saved[r] \subseteq NodesOf(r) /\ effects[r] \in [NodesOf(r) -> Nat]
    BY DEF Init
  <1>5. frame \in [Tries -> [Runs -> Frame]] /\ charged \in [Tries -> [Runs -> 0 .. MaxSteps]]
    BY <1>1, <1>2 DEF Init
  <1> QED
    BY <1>2, <1>3, <1>4, <1>5 DEF Init, TypeOK, Statuses

-----------------------------------------------------------------------------------
(* The tree of the runs that are on their way                                      *)

\* The run that minted the budget of a run that has begun.
Owned(a, r) ==
    LET f == frame[a][r]
        b == frame[a][f.budget] IN
    f.pc # "off" =>
        /\ b.pc # "off" /\ b.budget = f.budget /\ b.depth <= f.depth
        /\ r = Root <=> f.depth = 0
        /\ r = Root => f.budget = Root
        /\ Active(a, r) => b.pc # "over"

\* An active run is one its parent waits for, unless it is one a node left behind.
AwaitedBy(a, p, c) == At(a, p, "wait") /\ Child(a, p) = c
Awaited(a, c) ==
    Active(a, c) /\ c # Root /\ (frame[a][c].budget # c \/ timeouts = 0) =>
        \E p \in Runs : AwaitedBy(a, p, c)

\* The active runs of one budget, and all of them where nothing was left behind, are one
\* chain of runs that wait for the next.
Together(a, r, q) == frame[a][r].budget = frame[a][q].budget \/ timeouts = 0
Stacked(a, r, q) ==
    Active(a, r) /\ Active(a, q) /\ Together(a, r, q) =>
        /\ frame[a][r].depth = frame[a][q].depth => r = q
        /\ frame[a][r].depth < frame[a][q].depth =>
              /\ At(a, r, "wait") /\ Active(a, Child(a, r))
              /\ frame[a][r].budget = frame[a][q].budget =>
                    frame[a][Child(a, r)].budget = frame[a][r].budget

\* Where nothing was left behind only the last attempt is under way, from its root down.
Rooted(a, r) == timeouts = 0 /\ Active(a, r) => Active(a, Root) /\ a = attempt

Tree ==
    /\ Shape /\ Begun
    /\ \A a \in Tries, r \in Runs : Owned(a, r) /\ Awaited(a, r) /\ Rooted(a, r)
    /\ \A a \in Tries, r \in Runs, q \in Runs : Stacked(a, r, q)

\* Where a run waits.
LEMMA WaitsFor ==
    ASSUME TypeOK, Tree, NEW a \in Tries, NEW r \in Runs, At(a, r, "wait")
    PROVE  LET f == frame[a][r]
               c == Child(a, r) IN
           /\ f.at \in NodesOf(r) /\ f.item \in Items(r, f.at) /\ c = Kid(r, f.at, f.item)
           /\ c \in Runs /\ c # Root /\ frame[a][c].pc # "off" /\ frame[a][c].depth = f.depth + 1
           /\ Plan[r][f.at].kind \in {"iterator", "subworkflow"} /\ ~f.failed /\ f.result = "none"
           /\ frame[a][c].budget = IF Plan[r][f.at].kind = "iterator" THEN f.budget ELSE c
           /\ frame[a][c].budget = c => Plan[r][f.at].kind = "subworkflow"
  <1> DEFINE f == frame[a][r]
             c == Child(a, r)
  <1>1. /\ f.at \in NodesOf(r) /\ f.item \in Items(r, f.at) /\ frame[a][c].pc # "off"
        /\ Here(a, r).kind \in {"iterator", "subworkflow"} /\ ~f.failed /\ f.result = "none"
    BY DEF Tree, Shape, Shaped, At
  <1>2. c = Kid(r, f.at, f.item) /\ c \in Runs /\ c # Root
    BY <1>1, ChildIs
  <1>3. BegunBy(a, r, f.at, f.item)
    BY <1>1 DEF Tree, Begun
  <1>4. /\ frame[a][c].depth = f.depth + 1
        /\ frame[a][c].budget = IF Plan[r][f.at].kind = "iterator" THEN f.budget ELSE c
    BY <1>1, <1>2, <1>3 DEF BegunBy
  <1>5. f.budget = c => FALSE
    <2>1. Owned(a, r) /\ f.pc # "off"
      BY DEF Tree, At
    <2>2. frame[a][f.budget].depth <= f.depth
      BY <2>1 DEF Owned
    <2>3. f.depth \in Nat
      BY FrameIs
    <2> QED
      BY <1>4, <2>2, <2>3
  <1> QED
    BY <1>1, <1>2, <1>4, <1>5 DEF Here

\* The one that a run waits for has no other parent.
LEMMA OneWaits ==
    ASSUME TypeOK, Tree, NEW a \in Tries, NEW r \in Runs, NEW q \in Runs,
           At(a, r, "wait"), At(a, q, "wait"), Child(a, r) = Child(a, q)
    PROVE  r = q
  BY WaitsFor, OneParent

\* A run that moves does not wait for an active one, but for the one its node leaves behind.
LEMMA Unmoved ==
    ASSUME TypeOK, Tree, NEW a \in Tries, NEW m \in Runs, Moves(a, m), At(a, m, "wait"),
           Active(a, Child(a, m))
    PROVE  timeouts' # 0 /\ frame[a][Child(a, m)].budget = Child(a, m)
           /\ frame[a][m].budget # Child(a, m) /\ frame[a][m].pc # "record"
  <1>1. Here(a, m).kind = "subworkflow" /\ timeouts' # 0
    BY DEF Moves, At, Active
  <1>2. Plan[m][frame[a][m].at].kind # "iterator"
    BY <1>1 DEF Here
  <1>3. frame[a][Child(a, m)].budget = Child(a, m)
    BY <1>2, WaitsFor
  <1>4. frame[a][m].budget # Child(a, m)
    <2>1. Owned(a, m) /\ frame[a][m].pc # "off"
      BY DEF Tree, At
    <2>2. frame[a][frame[a][m].budget].depth <= frame[a][m].depth
      BY <2>1 DEF Owned
    <2>3. frame[a][m].depth \in Nat /\ frame[a][Child(a, m)].depth = frame[a][m].depth + 1
      BY FrameIs, WaitsFor
    <2> QED
      BY <2>2, <2>3
  <1> QED
    BY <1>1, <1>3, <1>4 DEF At

\* What a move leaves as it was.
LEMMA MovesIs ==
    ASSUME TypeOK, Tree, NEW a \in Tries, NEW m \in Runs, Moves(a, m)
    PROVE  /\ attempt' = attempt /\ (timeouts' = 0 => timeouts = 0)
           /\ Active(a, m) /\ frame[a][m].pc # "off" /\ frame[a][m].pc # "over" /\ frame'[a][m].pc # "off"
           /\ \A b \in Tries, q \in Runs : (b # a \/ q # m) => frame'[b][q] = frame[b][q]
           /\ \A b \in Tries, q \in Runs : /\ frame'[b][q].budget = frame[b][q].budget
                                           /\ frame'[b][q].depth = frame[b][q].depth
                                           /\ frame'[b][q].pc = "off" <=> frame[b][q].pc = "off"
                                           /\ Active(b, q)' => Active(b, q)
  <1>1. /\ attempt' = attempt /\ (timeouts' = 0 => timeouts = 0)
        /\ Active(a, m) /\ frame'[a][m].pc # "off" /\ Others(a, {m})
        /\ frame'[a][m].budget = frame[a][m].budget /\ frame'[a][m].depth = frame[a][m].depth
    BY DEF Moves, GoesOn, IteratesOn, Ends, IsRecorded
  <1>2. \A b \in Tries, q \in Runs : (b # a \/ q # m) => frame'[b][q] = frame[b][q]
    BY <1>1 DEF Others
  <1>3. frame[a][m].pc # "off" /\ frame[a][m].pc # "over"
    BY <1>1 DEF Active
  <1>4. ASSUME NEW b \in Tries, NEW q \in Runs
        PROVE  /\ frame'[b][q].budget = frame[b][q].budget
               /\ frame'[b][q].depth = frame[b][q].depth
               /\ frame'[b][q].pc = "off" <=> frame[b][q].pc = "off"
               /\ Active(b, q)' => Active(b, q)
    <2>1. CASE b = a /\ q = m
      BY <1>1, <1>3, <2>1
    <2>2. CASE b # a \/ q # m
      BY <1>2, <2>2 DEF Active
    <2> QED BY <2>1, <2>2
  <1> QED
    BY <1>1, <1>2, <1>3, <1>4

-----------------------------------------------------------------------------------
(* A move keeps the tree                                                           *)

\* A move keeps every frame in shape.
LEMMA MovesShaped ==
    ASSUME TypeOK, Tree, NEW a \in Tries, NEW m \in Runs, Moves(a, m), TypeOK'
    PROVE  Shape'
  <1>1. SUFFICES ASSUME NEW b \in Tries, NEW r \in Runs
                 PROVE  Shaped(b, r)'
    BY DEF Shape
  <1>2. Shaped(b, r) /\ Shaped(a, m)
    BY DEF Tree, Shape
  <1>3. CASE b # a \/ r # m
    <2>1. frame'[b][r] = frame[b][r] /\ attempt' = attempt
      BY <1>3, MovesIs
    <2>2. Here(b, r)' = Here(b, r) /\ Child(b, r)' = Child(b, r)
      BY <2>1 DEF Child, Here
    <2>3. At(b, r, "wait") => frame'[b][Child(b, r)].pc # "off"
      BY MovesIs, WaitsFor
    <2> QED
      BY <1>2, <2>1, <2>2, <2>3 DEF Shaped, At
  <1>4. CASE b = a /\ r = m
    <2> DEFINE f == frame[a][m]
               g == frame'[a][m]
    <2>1. /\ f.at \in Nat /\ f.item \in Nat /\ f.at >= 1 /\ f.item >= 1 /\ f.budget \in Runs
      BY <1>2, FrameIs DEF Shaped
    <2>2. g.budget = f.budget /\ attempt' = attempt /\ Active(a, m) /\ ~(a > attempt)
      BY <1>2 DEF Moves, Shaped, Active
    <2>3. CASE GoesOn(m, f, g)
      BY <1>4, <2>1, <2>2, <2>3 DEF GoesOn, Shaped
    <2>4. CASE IteratesOn(m, f, g)
      BY <1>4, <2>1, <2>2, <2>4 DEF IteratesOn, Shaped, Here
    <2>5. CASE Ends(m, f, g)
      BY <1>4, <2>1, <2>2, <2>5 DEF Ends, Shaped
    <2>6. CASE IsRecorded(m, f, g)
      BY <1>2, <1>4, <2>1, <2>2, <2>6 DEF IsRecorded, Shaped
    <2> QED
      BY <2>3, <2>4, <2>5, <2>6 DEF Moves
  <1> QED
    BY <1>3, <1>4

\* It leaves nothing begun ahead of a run's position.
LEMMA MovesBegun ==
    ASSUME TypeOK, Tree, NEW a \in Tries, NEW m \in Runs, Moves(a, m), TypeOK'
    PROVE  Begun'
  <1>1. SUFFICES ASSUME NEW b \in Tries, NEW r \in Runs, NEW i \in NodesOf(r), NEW k \in Items(r, i)
                 PROVE  BegunBy(b, r, i, k)'
    BY DEF Begun
  <1> DEFINE c == Kid(r, i, k)
             f == frame[b][r]
             g == frame'[b][r]
  <1>2. BegunBy(b, r, i, k)
    BY DEF Tree, Begun
  <1>3. c \in Runs /\ i \in Nat /\ k \in Nat
    BY PlanTypes DEF Items
  <1>4. /\ frame'[b][c].pc = "off" <=> frame[b][c].pc = "off"
        /\ g.pc = "off" <=> f.pc = "off"
        /\ g.budget = f.budget /\ g.depth = f.depth
        /\ frame'[b][c].budget = frame[b][c].budget /\ frame'[b][c].depth = frame[b][c].depth
    BY <1>3, MovesIs
  <1>5. SUFFICES ASSUME frame[b][c].pc # "off",
                        \/ i < f.at
                        \/ i = f.at /\ k < f.item
                        \/ i = f.at /\ k = f.item /\ f.pc \notin {"loop", "iterate"}
                 PROVE  \/ i < g.at
                        \/ i = g.at /\ k < g.item
                        \/ i = g.at /\ k = g.item /\ g.pc \notin {"loop", "iterate"}
    BY <1>2, <1>4 DEF BegunBy
  <1>6. CASE b # a \/ r # m
    <2>1. g = f
      BY <1>6, MovesIs
    <2> QED BY <1>5, <2>1
  <1>7. CASE b = a /\ r = m
    <2>1. f.at \in Nat /\ f.item \in Nat /\ (f.pc = "loop" => f.item = 1)
      BY FrameIs DEF Tree, Shape, Shaped
    <2>3. CASE GoesOn(m, f, g)
      BY <1>3, <1>5, <1>7, <2>1, <2>3 DEF GoesOn
    <2>4. CASE IteratesOn(m, f, g)
      BY <1>3, <1>5, <1>7, <2>1, <2>4 DEF IteratesOn
    <2>5. CASE Ends(m, f, g)
      BY <1>3, <1>5, <1>7, <2>1, <2>5 DEF Ends
    <2>6. CASE IsRecorded(m, f, g)
      BY <1>3, <1>5, <1>7, <2>1, <2>6 DEF IsRecorded
    <2> QED
      BY <1>7, <2>3, <2>4, <2>5, <2>6 DEF Moves
  <1> QED
    BY <1>6, <1>7

\* Of two runs of one chain the upper one does not move.
LEMMA UpperStays ==
    ASSUME TypeOK, Tree, NEW a \in Tries, NEW m \in Runs, Moves(a, m), NEW q \in Runs,
           Active(a, q), Together(a, m, q)', frame[a][m].depth < frame[a][q].depth
    PROVE  FALSE
  <1>1. Together(a, m, q) /\ Stacked(a, m, q) /\ Active(a, m)
    BY MovesIs DEF Tree, Together
  <1>2. /\ At(a, m, "wait") /\ Active(a, Child(a, m))
        /\ frame[a][m].budget = frame[a][q].budget =>
              frame[a][Child(a, m)].budget = frame[a][m].budget
    BY <1>1 DEF Stacked
  <1>3. timeouts' # 0 /\ frame[a][Child(a, m)].budget = Child(a, m) /\ frame[a][m].budget # Child(a, m)
    BY <1>2, Unmoved
  <1>4. frame[a][m].budget = frame[a][q].budget
    BY <1>3, MovesIs DEF Together
  <1> QED
    BY <1>2, <1>3, <1>4

\* It leaves no active run without the one that minted its budget.
LEMMA MovesOwned ==
    ASSUME TypeOK, Tree, NEW a \in Tries, NEW m \in Runs, Moves(a, m), TypeOK',
           NEW b \in Tries, NEW r \in Runs
    PROVE  Owned(b, r)'
  <1> DEFINE f == frame[b][r]
             o == f.budget
  <1>1. Owned(b, r)
    BY DEF Tree
  <1>2. o \in Runs
    BY FrameIs
  <1>3. /\ frame'[b][r].pc = "off" <=> f.pc = "off"
        /\ frame'[b][r].budget = o /\ frame'[b][r].depth = f.depth
        /\ frame'[b][o].pc = "off" <=> frame[b][o].pc = "off"
        /\ frame'[b][o].budget = frame[b][o].budget /\ frame'[b][o].depth = frame[b][o].depth
        /\ Active(b, r)' => Active(b, r)
    BY <1>2, MovesIs
  <1>4. ASSUME Active(b, r)'
        PROVE  frame'[b][o].pc # "over"
    <2>1. Active(b, r) /\ frame[b][o].pc # "over" /\ f.pc # "off"
      BY <1>1, <1>3, <1>4 DEF Owned, Active
    <2>2. CASE b # a \/ o # m
      BY <1>2, <2>1, <2>2, MovesIs
    <2>3. CASE b = a /\ o = m /\ r = m
      BY <1>4, <2>3 DEF Active
    <2>4. CASE b = a /\ o = m /\ r # m
      <3>1. Active(a, m) /\ frame[a][m].budget = m /\ frame[a][m].depth <= f.depth
        BY <1>1, <2>1, <2>4, MovesIs DEF Owned
      <3>2. Stacked(a, m, r) /\ Together(a, m, r) /\ f.depth \in Nat /\ frame[a][m].depth \in Nat
        BY <2>4, <3>1, FrameIs DEF Tree, Together
      <3>3. frame[a][m].depth < f.depth
        BY <2>1, <2>4, <3>1, <3>2 DEF Stacked
      <3>4. Together(a, m, r)'
        BY <2>4, <3>1, <1>3, MovesIs DEF Together
      <3> QED
        BY <2>1, <2>4, <3>3, <3>4, UpperStays
    <2> QED BY <2>2, <2>3, <2>4
  <1> QED
    BY <1>1, <1>3, <1>4 DEF Owned

\* It leaves no active iteration without a parent that waits for it.
LEMMA MovesAwaited ==
    ASSUME TypeOK, Tree, NEW a \in Tries, NEW m \in Runs, Moves(a, m), TypeOK',
           NEW b \in Tries, NEW c \in Runs
    PROVE  Awaited(b, c)'
  <1>1. SUFFICES ASSUME Active(b, c)', c # Root, frame'[b][c].budget # c \/ timeouts' = 0
                 PROVE  \E p \in Runs : AwaitedBy(b, p, c)'
    BY DEF Awaited
  <1>2. Active(b, c) /\ frame[b][c].budget = frame'[b][c].budget /\ (timeouts' = 0 => timeouts = 0)
    BY <1>1, MovesIs
  <1>3. PICK p \in Runs : At(b, p, "wait") /\ Child(b, p) = c
    BY <1>1, <1>2 DEF Tree, Awaited, AwaitedBy
  <1>4. b # a \/ p # m
    <2> SUFFICES ASSUME b = a, p = m PROVE FALSE
      OBVIOUS
    <2>1. timeouts' # 0 /\ frame[a][c].budget = c
      BY <1>2, <1>3, Unmoved
    <2> QED
      BY <1>1, <1>2, <2>1
  <1>5. frame'[b][p] = frame[b][p]
    BY <1>4, MovesIs
  <1>6. AwaitedBy(b, p, c)'
    BY <1>3, <1>5 DEF AwaitedBy, At, Child, Here
  <1> QED
    BY <1>6

\* It leaves the active runs of a budget one chain.
LEMMA MovesStacked ==
    ASSUME TypeOK, Tree, NEW a \in Tries, NEW m \in Runs, Moves(a, m), TypeOK',
           NEW b \in Tries, NEW r \in Runs, NEW q \in Runs
    PROVE  Stacked(b, r, q)'
  <1>1. SUFFICES ASSUME Active(b, r)', Active(b, q)', Together(b, r, q)'
                 PROVE  /\ frame'[b][r].depth = frame'[b][q].depth => r = q
                        /\ frame'[b][r].depth < frame'[b][q].depth =>
                              /\ At(b, r, "wait")' /\ Active(b, Child(b, r))'
                              /\ frame'[b][r].budget = frame'[b][q].budget =>
                                    frame'[b][Child(b, r)'].budget = frame'[b][r].budget
    BY DEF Stacked
  <1>2. /\ Active(b, r) /\ Active(b, q) /\ Together(b, r, q)
        /\ frame'[b][r].depth = frame[b][r].depth /\ frame'[b][q].depth = frame[b][q].depth
        /\ frame'[b][r].budget = frame[b][r].budget /\ frame'[b][q].budget = frame[b][q].budget
    BY <1>1, MovesIs DEF Together
  <1>3. Stacked(b, r, q)
    BY DEF Tree
  <1>4. SUFFICES ASSUME frame[b][r].depth < frame[b][q].depth
                 PROVE  /\ At(b, r, "wait")' /\ Active(b, Child(b, r))'
                        /\ frame'[b][r].budget = frame'[b][q].budget =>
                              frame'[b][Child(b, r)'].budget = frame'[b][r].budget
    BY <1>2, <1>3 DEF Stacked
  <1>0. At(b, r, "wait") /\ Child(b, r) \in Runs
    BY <1>2, <1>3, <1>4, WaitsFor DEF Stacked
  <1>c. PICK c \in Runs : c = Child(b, r)
    BY <1>0
  <1>5. /\ At(b, r, "wait") /\ Active(b, c)
        /\ frame[b][r].budget = frame[b][q].budget => frame[b][c].budget = frame[b][r].budget
    BY <1>2, <1>3, <1>4, <1>c DEF Stacked
  <1>6. b # a \/ r # m
    BY <1>1, <1>2, <1>4, UpperStays
  <1>7. frame'[b][r] = frame[b][r]
    BY <1>6, MovesIs
  <1>8. At(b, r, "wait")' /\ Child(b, r)' = c
    BY <1>5, <1>7, <1>c DEF At, Child, Here
  <1>9. c \in Runs /\ frame[b][c].depth = frame[b][r].depth + 1
    BY <1>5, <1>c, WaitsFor
  <1>10. frame'[b][c].budget = frame[b][c].budget
    BY <1>9, MovesIs
  <1>11. Active(b, c)'
    <2>1. CASE b # a \/ c # m
      <3>1. frame'[b][c] = frame[b][c]
        BY <1>9, <2>1, MovesIs
      <3> QED BY <1>5, <3>1 DEF Active
    <2>2. CASE b = a /\ c = m
      <3>1. frame[b][r].depth \in Nat /\ frame[b][q].depth \in Nat /\ frame[b][c].depth \in Nat
        BY <1>9, FrameIs
      <3>2. frame[b][c].depth <= frame[b][q].depth
        BY <1>4, <1>9, <3>1
      <3>3. Together(b, c, q)' /\ Together(b, c, q)
        BY <1>1, <1>2, <1>5, <1>10 DEF Together
      <3>4. c = q
        <4>1. CASE frame[b][c].depth = frame[b][q].depth
          <5>1. Stacked(b, c, q)
            BY <1>9 DEF Tree
          <5> QED BY <1>2, <1>5, <3>3, <4>1, <5>1 DEF Stacked
        <4>2. CASE frame[b][c].depth < frame[b][q].depth
          BY <1>2, <2>2, <3>3, <4>2, UpperStays
        <4> QED BY <3>1, <3>2, <4>1, <4>2
      <3> QED BY <1>1, <3>4
    <2> QED BY <2>1, <2>2
  <1>12. Active(b, Child(b, r))'
    <2>1. frame'[b][c].pc \notin {"off", "over"}
      BY <1>11 DEF Active
    <2>2. frame'[b][Child(b, r)'].pc \notin {"off", "over"}
      BY <1>8, <2>1
    <2> QED BY <2>2 DEF Active
  <1> QED
    BY <1>2, <1>5, <1>8, <1>10, <1>12

\* Without a timeout it leaves no active run beside the last attempt's root.
LEMMA MovesRooted ==
    ASSUME TypeOK, Tree, NEW a \in Tries, NEW m \in Runs, Moves(a, m), TypeOK',
           NEW b \in Tries, NEW r \in Runs
    PROVE  Rooted(b, r)'
  <1>1. SUFFICES ASSUME timeouts' = 0, Active(b, r)'
                 PROVE  Active(b, Root)' /\ b = attempt'
    BY DEF Rooted
  <1>2. Root \in Runs /\ timeouts = 0 /\ Active(b, r) /\ attempt' = attempt
    BY <1>1, MovesIs, PlanTypes
  <1>3. Active(b, Root) /\ b = attempt
    BY <1>2 DEF Tree, Rooted
  <1>4. CASE b # a \/ Root # m
    <2>1. frame'[b][Root] = frame[b][Root]
      BY <1>2, <1>4, MovesIs
    <2> QED BY <1>2, <1>3, <2>1 DEF Active
  <1>5. CASE b = a /\ Root = m /\ r = Root
    BY <1>1, <1>2, <1>3, <1>5
  <1>6. CASE b = a /\ Root = m /\ r # Root
    <2>1. Owned(b, r) /\ Owned(b, Root) /\ frame[b][r].pc # "off" /\ frame[b][Root].pc # "off"
      BY <1>2, <1>3 DEF Tree, Active
    <2>2. frame[b][Root].depth = 0 /\ frame[b][r].depth # 0
      BY <1>6, <2>1 DEF Owned
    <2>3. frame[b][Root].depth < frame[b][r].depth
      BY <2>2, FrameIs
    <2>4. Together(a, m, r)'
      BY <1>1 DEF Together
    <2> QED BY <1>2, <1>6, <2>3, <2>4, UpperStays
  <1> QED BY <1>4, <1>5, <1>6

\* A move keeps the tree.
LEMMA MovesTree ==
    ASSUME TypeOK, Tree, NEW a \in Tries, NEW m \in Runs, Moves(a, m), TypeOK'
    PROVE  Tree'
  BY MovesShaped, MovesBegun, MovesOwned, MovesAwaited, MovesStacked, MovesRooted DEF Tree

-----------------------------------------------------------------------------------
(* A start keeps the tree                                                          *)

\* What a start leaves as it was.
LEMMA StartLeaves ==
    ASSUME TypeOK, Tree, NEW a \in Tries, NEW m \in Runs, NEW c \in Runs, Starts(a, m, c)
    PROVE  /\ attempt' = attempt /\ timeouts' = timeouts /\ a <= attempt
           /\ Active(a, m) /\ Active(a, m)' /\ At(a, m, "wait")' /\ Child(a, m)' = c
           /\ c # m /\ c # Root /\ frame[a][c].pc = "off" /\ frame'[a][c].pc # "off" /\ ~Active(a, c)
           /\ frame'[a][c].depth = frame[a][m].depth + 1
           /\ frame[a][m].pc \in {"loop", "iterate"}
           /\ \A b \in Tries, q \in Runs : (b # a \/ q \notin {m, c}) => frame'[b][q] = frame[b][q]
           /\ \A b \in Tries, q \in Runs : (b # a \/ q # c) =>
                 /\ frame'[b][q].budget = frame[b][q].budget
                 /\ frame'[b][q].depth = frame[b][q].depth
                 /\ frame'[b][q].pc = "off" <=> frame[b][q].pc = "off"
                 /\ frame'[b][q].pc = "over" <=> frame[b][q].pc = "over"
                 /\ At(b, q, "wait") => frame'[b][q] = frame[b][q]
                 /\ Active(b, q)' <=> Active(b, q)
  <1> DEFINE f == frame[a][m]
  <1>1. /\ attempt' = attempt /\ timeouts' = timeouts
        /\ f.at \in NodesOf(m) /\ f.item \in Items(m, f.at) /\ c = Kid(m, f.at, f.item)
        /\ f.pc \in {"loop", "iterate"}
        /\ frame'[a][m].pc = "wait" /\ frame'[a][m].at = f.at /\ frame'[a][m].item = f.item
        /\ frame'[a][m].budget = f.budget /\ frame'[a][m].depth = f.depth
        /\ c # m /\ frame[a][c].pc = "off" /\ frame'[a][c].pc # "off"
        /\ frame'[a][c].depth = f.depth + 1
        /\ Others(a, {m, c})
    BY DEF Starts
  <1>2. \A b \in Tries, q \in Runs : (b # a \/ q \notin {m, c}) => frame'[b][q] = frame[b][q]
    BY <1>1 DEF Others
  <1>3. a <= attempt
    <2>1. ~(a > attempt) /\ a \in Nat
      BY <1>1 DEF Tree, Shape, Shaped, Tries
    <2> QED BY <2>1 DEF TypeOK
  <1>4. Active(a, m) /\ Active(a, m)' /\ At(a, m, "wait")' /\ ~Active(a, c)
    BY <1>1 DEF Active, At
  <1>5. Child(a, m)' = c /\ c # Root
    BY <1>1, PlanTypes DEF Child, Here, Kid
  <1>6. ASSUME NEW b \in Tries, NEW q \in Runs, b # a \/ q # c
        PROVE  /\ frame'[b][q].budget = frame[b][q].budget
               /\ frame'[b][q].depth = frame[b][q].depth
               /\ frame'[b][q].pc = "off" <=> frame[b][q].pc = "off"
               /\ frame'[b][q].pc = "over" <=> frame[b][q].pc = "over"
               /\ At(b, q, "wait") => frame'[b][q] = frame[b][q]
               /\ Active(b, q)' <=> Active(b, q)
    <2>1. CASE b = a /\ q = m
      BY <1>1, <1>4, <2>1 DEF At
    <2>2. CASE b # a \/ q # m
      <3>1. frame'[b][q] = frame[b][q]
        BY <1>2, <1>6, <2>2
      <3> QED BY <3>1 DEF Active
    <2> QED BY <2>1, <2>2
  <1> QED
    BY <1>1, <1>2, <1>3, <1>4, <1>5, <1>6

\* A start keeps every frame in shape.
LEMMA StartsShaped ==
    ASSUME TypeOK, Tree, NEW a \in Tries, NEW m \in Runs, NEW c \in Runs, Starts(a, m, c), TypeOK'
    PROVE  Shape'
  <1>1. SUFFICES ASSUME NEW b \in Tries, NEW r \in Runs
                 PROVE  Shaped(b, r)'
    BY DEF Shape
  <1>2. Shaped(b, r) /\ Shaped(a, m)
    BY DEF Tree, Shape
  <1>3. CASE b # a \/ r \notin {m, c}
    <2>1. frame'[b][r] = frame[b][r] /\ attempt' = attempt
      BY <1>3, StartLeaves
    <2>2. Here(b, r)' = Here(b, r) /\ Child(b, r)' = Child(b, r)
      BY <2>1 DEF Child, Here
    <2>3. ASSUME At(b, r, "wait") PROVE frame'[b][Child(b, r)].pc # "off"
      <3>1. Child(b, r) \in Runs /\ frame[b][Child(b, r)].pc # "off"
        BY <2>3, WaitsFor
      <3> QED BY <3>1, StartLeaves
    <2> QED
      BY <1>2, <2>1, <2>2, <2>3 DEF Shaped, At
  <1>4. CASE b = a /\ r = m
    <2>1. /\ frame'[a][m].at >= 1 /\ frame'[a][m].item >= 1 /\ frame'[a][m].pc = "wait"
          /\ frame'[a][m].at \in NodesOf(m) /\ ~frame'[a][m].failed /\ frame'[a][m].result = "none"
          /\ frame'[a][m].item \in Items(m, frame'[a][m].at)
          /\ Plan[m][frame'[a][m].at].kind \in {"iterator", "subworkflow"}
          /\ frame'[a][m].at \in frame'[a][m].reached
      BY <1>2 DEF Shaped, Starts
    <2>2. frame'[a][c].pc # "off" /\ Child(a, m)' = c /\ attempt' = attempt
      BY StartLeaves
    <2>3. frame'[a][Child(a, m)'].pc # "off"
      BY <2>2
    <2>4. a > attempt' => frame'[a][m].pc = "off"
      BY <2>2, StartLeaves, FrameIs DEF Tries, TypeOK
    <2> QED
      BY <1>4, <2>1, <2>3, <2>4 DEF Shaped, Here
  <1>5. CASE b = a /\ r = c
    <2>1. /\ frame'[a][c].at = 1 /\ frame'[a][c].item = 1
          /\ (frame'[a][c].pc = "loop" /\ frame'[a][c].result = "none")
             \/ (frame'[a][c].pc = "over" /\ frame'[a][c].result = "FAILED")
      BY DEF Starts
    <2>2. a > attempt' => frame'[a][c].pc = "off"
      BY StartLeaves, FrameIs DEF Tries, TypeOK
    <2> QED
      BY <1>5, <2>1, <2>2 DEF Shaped
  <1> QED
    BY <1>3, <1>4, <1>5

\* What it begins is the child in hand.
LEMMA StartsBegun ==
    ASSUME TypeOK, Tree, NEW a \in Tries, NEW m \in Runs, NEW c \in Runs, Starts(a, m, c), TypeOK'
    PROVE  Begun'
  <1>1. SUFFICES ASSUME NEW b \in Tries, NEW r \in Runs, NEW i \in NodesOf(r), NEW k \in Items(r, i)
                 PROVE  BegunBy(b, r, i, k)'
    BY DEF Begun
  <1> DEFINE d == Kid(r, i, k)
  <1>2. BegunBy(b, r, i, k) /\ d \in Runs
    BY PlanTypes DEF Tree, Begun
  <1>3. CASE b = a /\ d = c
    <2>1. /\ frame[a][m].at \in NodesOf(m) /\ frame[a][m].item \in Items(m, frame[a][m].at)
          /\ d = Kid(m, frame[a][m].at, frame[a][m].item)
      BY <1>3 DEF Starts
    <2>2. r = m /\ i = frame[a][m].at /\ k = frame[a][m].item
      BY <2>1, OneParent
    <2>3. /\ frame'[a][m].at = i /\ frame'[a][m].item = k /\ frame'[a][m].pc = "wait"
          /\ frame'[a][c].depth = frame'[a][m].depth + 1
          /\ frame'[a][c].budget = IF Plan[r][i].kind = "iterator" THEN frame'[a][m].budget ELSE c
      BY <2>2 DEF Starts
    <2> QED
      BY <1>3, <2>2, <2>3 DEF BegunBy
  <1>4. CASE b # a \/ d # c
    <2>1. SUFFICES ASSUME frame[b][d].pc # "off"
                   PROVE  BegunBy(b, r, i, k)'
      BY <1>2, <1>4, StartLeaves DEF BegunBy
    <2>2. frame[b][r].pc # "off" /\ (b # a \/ r # c)
      BY <1>2, <2>1, StartLeaves DEF BegunBy
    <2>3. /\ frame'[b][r].budget = frame[b][r].budget /\ frame'[b][r].depth = frame[b][r].depth
          /\ frame'[b][r].pc # "off"
          /\ frame'[b][d].budget = frame[b][d].budget /\ frame'[b][d].depth = frame[b][d].depth
      BY <1>2, <1>4, <2>2, StartLeaves
    <2>4. /\ frame'[b][r].at = frame[b][r].at /\ frame'[b][r].item = frame[b][r].item
          /\ frame'[b][r].pc = frame[b][r].pc \/ frame'[b][r].pc = "wait"
      <3>1. CASE b = a /\ r = m
        BY <3>1 DEF Starts
      <3>2. CASE b # a \/ r # m
        BY <2>2, <3>2, StartLeaves
      <3> QED BY <3>1, <3>2
    <2> QED
      BY <1>2, <2>1, <2>3, <2>4 DEF BegunBy
  <1> QED
    BY <1>3, <1>4

\* The budget of a child that starts, and what stands below the run that starts it.
LEMMA StartsBelow ==
    ASSUME TypeOK, Tree, NEW a \in Tries, NEW m \in Runs, NEW c \in Runs, Starts(a, m, c), TypeOK',
           NEW r \in Runs, Active(a, r), Together(a, r, c)'
    PROVE  /\ frame[a][r].depth <= frame[a][m].depth
           /\ Together(a, r, m)
           /\ frame[a][r].budget = frame'[a][c].budget => frame[a][r].budget = frame[a][m].budget
  <1>1. /\ r # c /\ frame'[a][r].budget = frame[a][r].budget /\ timeouts' = timeouts /\ Active(a, m)
        /\ frame[a][m].pc \in {"loop", "iterate"}
    BY StartLeaves
  <1>2. frame'[a][c].budget \in {c, frame[a][m].budget}
    BY DEF Starts
  <1>3. frame[a][r].budget # c
    <2>1. Owned(a, r) /\ frame[a][r].pc # "off" /\ frame[a][c].pc = "off"
      BY StartLeaves DEF Tree, Active
    <2> QED BY <2>1 DEF Owned
  <1>4. frame[a][r].budget = frame'[a][c].budget => frame[a][r].budget = frame[a][m].budget
    BY <1>2, <1>3
  <1>5. Together(a, r, m) /\ Together(a, m, r)
    BY <1>1, <1>4 DEF Together
  <1>6. Stacked(a, m, r) /\ frame[a][m].depth \in Nat /\ frame[a][r].depth \in Nat
    BY FrameIs DEF Tree
  <1>7. ~(frame[a][m].depth < frame[a][r].depth)
    BY <1>1, <1>5, <1>6 DEF Stacked, At
  <1> QED
    BY <1>4, <1>5, <1>6, <1>7

\* The child charges the budget of the run that starts it, or its own.
LEMMA StartsOwned ==
    ASSUME TypeOK, Tree, NEW a \in Tries, NEW m \in Runs, NEW c \in Runs, Starts(a, m, c), TypeOK',
           NEW b \in Tries, NEW r \in Runs
    PROVE  Owned(b, r)'
  <1>1. Owned(b, r) /\ Owned(a, m)
    BY DEF Tree
  <1>2. CASE b # a \/ r # c
    <2> DEFINE o == frame[b][r].budget
    <2>1. o \in Runs
      BY FrameIs
    <2>2. /\ frame'[b][r].budget = o /\ frame'[b][r].depth = frame[b][r].depth
          /\ frame'[b][r].pc = "off" <=> frame[b][r].pc = "off"
          /\ Active(b, r)' <=> Active(b, r)
      BY <1>2, StartLeaves
    <2>3. SUFFICES ASSUME frame[b][r].pc # "off" PROVE Owned(b, r)'
      BY <2>2 DEF Owned
    <2>4. b # a \/ o # c
      BY <1>1, <2>3, StartLeaves DEF Owned
    <2>5. /\ frame'[b][o].budget = frame[b][o].budget /\ frame'[b][o].depth = frame[b][o].depth
          /\ frame'[b][o].pc = "off" <=> frame[b][o].pc = "off"
          /\ frame'[b][o].pc = "over" <=> frame[b][o].pc = "over"
      BY <2>1, <2>4, StartLeaves
    <2> QED
      BY <1>1, <2>2, <2>3, <2>5 DEF Owned
  <1>3. CASE b = a /\ r = c
    <2> DEFINE o == frame[a][m].budget
    <2>1. /\ o \in Runs /\ frame[a][m].depth \in Nat /\ frame'[a][c].depth = frame[a][m].depth + 1
          /\ c # Root /\ frame[a][m].pc # "off" /\ Active(a, m) /\ frame[a][c].pc = "off"
          /\ frame'[a][c].pc # "off"
      BY FrameIs, StartLeaves DEF Active
    <2>2. frame'[a][c].depth # 0
      BY <2>1
    <2>3. CASE frame'[a][c].budget = c
      <3>1. Active(a, c)' => frame'[a][c].pc # "over"
        BY DEF Active
      <3>2. frame'[a][c].depth \in Nat
        BY <2>1
      <3> QED
        BY <1>3, <2>1, <2>2, <2>3, <3>1, <3>2 DEF Owned
    <2>4. CASE frame'[a][c].budget = o
      <3>1. /\ frame[a][o].pc # "off" /\ frame[a][o].budget = o /\ frame[a][o].pc # "over"
            /\ frame[a][o].depth <= frame[a][m].depth /\ frame[a][o].depth \in Nat
        BY <1>1, <2>1, FrameIs DEF Owned
      <3>2. o # c
        BY <2>1, <3>1
      <3>3. /\ frame'[a][o].budget = frame[a][o].budget /\ frame'[a][o].depth = frame[a][o].depth
            /\ frame'[a][o].pc # "off" /\ frame'[a][o].pc # "over"
        BY <2>1, <3>1, <3>2, StartLeaves
      <3>4. frame'[a][o].depth <= frame'[a][c].depth
        BY <2>1, <3>1, <3>3
      <3> QED
        BY <1>3, <2>1, <2>2, <2>4, <3>1, <3>3, <3>4 DEF Owned
    <2> QED
      BY <2>3, <2>4 DEF Starts
  <1> QED
    BY <1>2, <1>3

\* The run that starts it waits for it.
LEMMA StartsAwaited ==
    ASSUME TypeOK, Tree, NEW a \in Tries, NEW m \in Runs, NEW c \in Runs, Starts(a, m, c), TypeOK',
           NEW b \in Tries, NEW d \in Runs
    PROVE  Awaited(b, d)'
  <1>1. SUFFICES ASSUME Active(b, d)', d # Root, frame'[b][d].budget # d \/ timeouts' = 0
                 PROVE  \E p \in Runs : AwaitedBy(b, p, d)'
    BY DEF Awaited
  <1>2. CASE b = a /\ d = c
    BY <1>2, StartLeaves DEF AwaitedBy
  <1>3. CASE b # a \/ d # c
    <2>1. Active(b, d) /\ frame[b][d].budget = frame'[b][d].budget /\ timeouts' = timeouts
      BY <1>1, <1>3, StartLeaves
    <2>2. PICK p \in Runs : At(b, p, "wait") /\ Child(b, p) = d
      BY <1>1, <2>1 DEF Tree, Awaited, AwaitedBy
    <2>3. b # a \/ p # c
      BY <2>2, StartLeaves DEF At
    <2>4. frame'[b][p] = frame[b][p]
      BY <2>2, <2>3, StartLeaves
    <2>5. AwaitedBy(b, p, d)'
      BY <2>2, <2>4 DEF AwaitedBy, At, Child, Here
    <2> QED BY <2>5
  <1> QED BY <1>2, <1>3

\* The child is the lowest of its chain.
LEMMA StartsStacked ==
    ASSUME TypeOK, Tree, NEW a \in Tries, NEW m \in Runs, NEW c \in Runs, Starts(a, m, c), TypeOK',
           NEW b \in Tries, NEW r \in Runs, NEW q \in Runs
    PROVE  Stacked(b, r, q)'
  <1>1. SUFFICES ASSUME Active(b, r)', Active(b, q)', Together(b, r, q)'
                 PROVE  /\ frame'[b][r].depth = frame'[b][q].depth => r = q
                        /\ frame'[b][r].depth < frame'[b][q].depth =>
                              /\ At(b, r, "wait")' /\ Active(b, Child(b, r))'
                              /\ frame'[b][r].budget = frame'[b][q].budget =>
                                    frame'[b][Child(b, r)'].budget = frame'[b][r].budget
    BY DEF Stacked
  \* A run that waits before, and what it waits for.
  <1>2. ASSUME NEW z \in Runs, NEW w \in Runs, b # a \/ z # c, Active(b, z), Active(b, w), Together(b, z, w),
               frame[b][z].depth < frame[b][w].depth
        PROVE  /\ At(b, z, "wait")' /\ Active(b, Child(b, z))'
               /\ frame'[b][z].budget = frame[b][w].budget =>
                     frame'[b][Child(b, z)'].budget = frame'[b][z].budget
    <2>1. /\ At(b, z, "wait") /\ Active(b, Child(b, z))
          /\ frame[b][z].budget = frame[b][w].budget =>
                frame[b][Child(b, z)].budget = frame[b][z].budget
      BY <1>2 DEF Tree, Stacked
    <2>2. PICK x \in Runs : x = Child(b, z)
      BY <2>1, WaitsFor
    <2>3. frame'[b][z] = frame[b][z]
      BY <1>2, <2>1, StartLeaves
    <2>4. At(b, z, "wait")' /\ Child(b, z)' = x
      BY <2>1, <2>2, <2>3 DEF At, Child, Here
    <2>5. b # a \/ x # c
      BY <2>1, <2>2, StartLeaves
    <2>6. frame'[b][x].budget = frame[b][x].budget /\ Active(b, x)'
      BY <2>1, <2>2, <2>5, StartLeaves
    <2>7. Active(b, Child(b, z))'
      <3>1. frame'[b][x].pc \notin {"off", "over"}
        BY <2>6 DEF Active
      <3>2. frame'[b][Child(b, z)'].pc \notin {"off", "over"}
        BY <2>4, <3>1
      <3> QED BY <3>2 DEF Active
    <2> QED
      BY <2>1, <2>2, <2>3, <2>4, <2>6, <2>7
  <1>3. CASE b # a \/ (r # c /\ q # c)
    <2>1. /\ Active(b, r) /\ Active(b, q) /\ Together(b, r, q)
          /\ frame'[b][r].depth = frame[b][r].depth /\ frame'[b][q].depth = frame[b][q].depth
          /\ frame'[b][q].budget = frame[b][q].budget /\ (b # a \/ r # c)
      BY <1>1, <1>3, StartLeaves DEF Together
    <2>2. frame[b][r].depth = frame[b][q].depth => r = q
      BY <2>1 DEF Tree, Stacked
    <2>3. ASSUME frame[b][r].depth < frame[b][q].depth
          PROVE  /\ At(b, r, "wait")' /\ Active(b, Child(b, r))'
                 /\ frame'[b][r].budget = frame'[b][q].budget =>
                       frame'[b][Child(b, r)'].budget = frame'[b][r].budget
      BY <1>2, <2>1, <2>3
    <2> QED
      BY <2>1, <2>2, <2>3
  <1>4. CASE b = a /\ r = c /\ q = c
    <2>1. frame'[a][c].depth \in Nat
      BY FrameIs, StartLeaves
    <2> QED
      BY <1>4, <2>1
  <1>5. CASE b = a /\ r = c /\ q # c
    <2>1. Active(a, q) /\ Together(a, q, c)' /\ frame'[a][q].depth = frame[a][q].depth
      BY <1>1, <1>5, StartLeaves DEF Together
    <2>2. frame[a][q].depth <= frame[a][m].depth /\ frame[a][q].depth \in Nat /\ frame[a][m].depth \in Nat
      BY <2>1, StartsBelow, FrameIs
    <2>3. frame'[a][c].depth = frame[a][m].depth + 1
      BY StartLeaves
    <2>4. ~(frame'[a][c].depth = frame'[a][q].depth) /\ ~(frame'[a][c].depth < frame'[a][q].depth)
      BY <2>1, <2>2, <2>3
    <2> QED
      BY <1>5, <2>4
  <1>6. CASE b = a /\ r # c /\ q = c
    <2>1. Active(a, r) /\ Together(a, r, c)' /\ frame'[a][r].depth = frame[a][r].depth
          /\ frame'[a][r].budget = frame[a][r].budget /\ Active(a, m)
      BY <1>1, <1>6, StartLeaves
    <2>2. /\ frame[a][r].depth <= frame[a][m].depth /\ Together(a, r, m)
          /\ frame[a][r].budget = frame'[a][c].budget => frame[a][r].budget = frame[a][m].budget
          /\ frame[a][r].depth \in Nat /\ frame[a][m].depth \in Nat
      BY <2>1, StartsBelow, FrameIs
    <2>3. frame'[a][c].depth = frame[a][m].depth + 1
      BY StartLeaves
    <2>4. ~(frame'[a][r].depth = frame'[a][c].depth)
      BY <2>1, <2>2, <2>3
    <2>5. CASE r = m
      <3>1. At(a, m, "wait")' /\ Child(a, m)' = c /\ frame'[a][m].budget = frame[a][m].budget
        BY StartLeaves
      <3>2. frame'[a][Child(a, m)'].pc \notin {"off", "over"}
        BY <1>1, <1>6, <3>1 DEF Active
      <3>3. Active(a, Child(a, m))'
        BY <3>2 DEF Active
      <3> QED
        BY <1>6, <2>4, <2>5, <3>1, <3>3
    <2>6. CASE r # m
      <3>1. Stacked(a, r, m)
        BY DEF Tree
      <3>2. frame[a][r].depth < frame[a][m].depth
        BY <2>1, <2>2, <2>6, <3>1 DEF Stacked
      <3>3. /\ At(a, r, "wait")' /\ Active(a, Child(a, r))'
            /\ frame'[a][r].budget = frame[a][m].budget =>
                  frame'[a][Child(a, r)'].budget = frame'[a][r].budget
        BY <1>2, <1>6, <2>1, <2>2, <3>2
      <3> QED
        BY <1>6, <2>1, <2>2, <2>4, <3>3
    <2> QED BY <2>5, <2>6
  <1> QED
    BY <1>3, <1>4, <1>5, <1>6

\* It starts under the root of the last attempt.
LEMMA StartsRooted ==
    ASSUME TypeOK, Tree, NEW a \in Tries, NEW m \in Runs, NEW c \in Runs, Starts(a, m, c), TypeOK',
           NEW b \in Tries, NEW r \in Runs
    PROVE  Rooted(b, r)'
  <1>1. SUFFICES ASSUME timeouts' = 0, Active(b, r)'
                 PROVE  Active(b, Root)' /\ b = attempt'
    BY DEF Rooted
  <1>2. Root \in Runs /\ timeouts = 0 /\ attempt' = attempt /\ c # Root /\ Active(a, m)
    BY <1>1, StartLeaves, PlanTypes
  <1>3. Active(b, Root) /\ b = attempt
    <2>1. CASE b = a /\ r = c
      BY <1>2, <2>1 DEF Tree, Rooted
    <2>2. CASE b # a \/ r # c
      <3>1. Active(b, r)
        BY <1>1, <2>2, StartLeaves
      <3> QED BY <1>2, <3>1 DEF Tree, Rooted
    <2> QED BY <2>1, <2>2
  <1> QED
    BY <1>2, <1>3, StartLeaves

\* A start keeps the tree.
LEMMA StartsTree ==
    ASSUME TypeOK, Tree, NEW a \in Tries, NEW m \in Runs, NEW c \in Runs, Starts(a, m, c), TypeOK'
    PROVE  Tree'
  BY StartsShaped, StartsBegun, StartsOwned, StartsAwaited, StartsStacked, StartsRooted DEF Tree

-----------------------------------------------------------------------------------
(* A new attempt, and the start                                                    *)

\* A new attempt is a tree of its root alone, beside those of the earlier ones.
LEMMA TakesTree ==
    ASSUME TypeOK, Tree, Takes, TypeOK'
    PROVE  Tree'
  <1>0. PICK n \in Tries : n = attempt + 1
    BY DEF Takes
  <1>1. /\ n \in Tries /\ attempt' = n /\ timeouts' = timeouts /\ attempt \in Nat
        /\ attempt \in Tries => At(attempt, Root, "over")
    BY <1>0 DEF Takes, TypeOK
  <1>2. /\ frame'[n][Root].pc = "loop" /\ frame'[n][Root].at = 1 /\ frame'[n][Root].item = 1
        /\ frame'[n][Root].budget = Root /\ frame'[n][Root].depth = 0 /\ frame'[n][Root].result = "none"
    BY <1>0 DEF Takes
  <1>3. \A b \in Tries, q \in Runs : (b # n \/ q # Root) => frame'[b][q] = frame[b][q]
    BY <1>0 DEF Takes, Others
  <1>4. \A q \in Runs : frame[n][q].pc = "off"
    BY <1>0, <1>1 DEF Tree, Shape, Shaped
  <1>5. Root \in Runs
    BY PlanTypes
  <1>6. ASSUME NEW b \in Tries, NEW q \in Runs, b # n
        PROVE  frame'[b][q] = frame[b][q]
    BY <1>3, <1>6
  <1>7. \A q \in Runs : q # Root => frame'[n][q] = frame[n][q] /\ frame'[n][q].pc = "off"
    BY <1>1, <1>3, <1>4
  <1>8. \A q \in Runs : Active(n, q)' => q = Root
    BY <1>7 DEF Active
  <1>9. Shape'
    <2>1. SUFFICES ASSUME NEW b \in Tries, NEW r \in Runs PROVE Shaped(b, r)'
      BY DEF Shape
    <2>2. Shaped(b, r)
      BY DEF Tree, Shape
    <2>3. CASE b # n
      <3>1. frame'[b][r] = frame[b][r]
        BY <1>6, <2>3
      <3>2. Here(b, r)' = Here(b, r) /\ Child(b, r)' = Child(b, r)
        BY <3>1 DEF Child, Here
      <3>3. ASSUME At(b, r, "wait") PROVE frame'[b][Child(b, r)].pc # "off"
        <4>1. Child(b, r) \in Runs /\ frame[b][Child(b, r)].pc # "off"
          BY <3>3, WaitsFor
        <4> QED BY <1>6, <2>3, <4>1
      <3>4. b > attempt' => frame'[b][r].pc = "off"
        <4>1. b > attempt' => b > attempt
          BY <1>0, <1>1 DEF Tries
        <4> QED BY <2>2, <3>1, <4>1 DEF Shaped
      <3> QED
        BY <2>2, <3>1, <3>2, <3>3, <3>4 DEF Shaped, At
    <2>4. CASE b = n /\ r = Root
      <3>1. ~(n > attempt')
        BY <1>1 DEF Tries
      <3> QED
        BY <1>2, <2>4, <3>1 DEF Shaped
    <2>5. CASE b = n /\ r # Root
      <3>1. frame'[n][r] = frame[n][r] /\ frame[n][r].pc = "off"
        BY <1>4, <1>7, <2>5
      <3> QED
        BY <2>2, <2>5, <3>1 DEF Shaped
    <2> QED BY <2>3, <2>4, <2>5
  <1>10. Begun'
    <2>1. SUFFICES ASSUME NEW b \in Tries, NEW r \in Runs, NEW i \in NodesOf(r), NEW k \in Items(r, i)
                   PROVE  BegunBy(b, r, i, k)'
      BY DEF Begun
    <2>2. BegunBy(b, r, i, k) /\ Kid(r, i, k) \in Runs /\ Kid(r, i, k) # Root
      BY PlanTypes DEF Tree, Begun
    <2>3. CASE b # n
      <3>1. frame'[b][r] = frame[b][r] /\ frame'[b][Kid(r, i, k)] = frame[b][Kid(r, i, k)]
        BY <1>6, <2>2, <2>3
      <3> QED BY <2>2, <3>1 DEF BegunBy
    <2>4. CASE b = n
      BY <1>7, <2>2, <2>4 DEF BegunBy
    <2> QED BY <2>3, <2>4
  <1>11. ASSUME NEW b \in Tries, NEW r \in Runs
         PROVE  Owned(b, r)'
    <2>1. CASE b # n
      <3>1. Owned(b, r) /\ frame[b][r].budget \in Runs
        BY FrameIs DEF Tree
      <3>2. frame'[b][r] = frame[b][r] /\ frame'[b][frame[b][r].budget] = frame[b][frame[b][r].budget]
        BY <1>6, <2>1, <3>1
      <3> QED BY <3>1, <3>2 DEF Owned, Active
    <2>2. CASE b = n /\ r = Root
      <3>1. /\ frame'[b][r].pc = "loop" /\ frame'[b][r].budget = Root /\ frame'[b][r].depth = 0
        BY <1>2, <2>2
      <3> QED BY <1>2, <2>2, <3>1 DEF Owned
    <2>3. CASE b = n /\ r # Root
      BY <1>7, <2>3 DEF Owned
    <2> QED BY <2>1, <2>2, <2>3
  <1>12. ASSUME NEW b \in Tries, NEW c \in Runs
         PROVE  Awaited(b, c)'
    <2>1. SUFFICES ASSUME Active(b, c)', c # Root, frame'[b][c].budget # c \/ timeouts' = 0
                   PROVE  \E p \in Runs : AwaitedBy(b, p, c)'
      BY DEF Awaited
    <2>2. b # n
      BY <1>8, <2>1
    <2>3. frame'[b][c] = frame[b][c]
      BY <1>6, <2>2
    <2>4. PICK p \in Runs : At(b, p, "wait") /\ Child(b, p) = c
      BY <1>1, <2>1, <2>3 DEF Tree, Awaited, AwaitedBy, Active
    <2>5. frame'[b][p] = frame[b][p]
      BY <1>6, <2>2
    <2>6. AwaitedBy(b, p, c)'
      BY <2>4, <2>5 DEF AwaitedBy, At, Child, Here
    <2> QED BY <2>6
  <1>13. ASSUME NEW b \in Tries, NEW r \in Runs, NEW q \in Runs
         PROVE  Stacked(b, r, q)'
    <2>1. CASE b = n
      <3>1. Active(n, r)' /\ Active(n, q)' => r = Root /\ q = Root
        BY <1>8
      <3> QED BY <1>2, <2>1, <3>1 DEF Stacked
    <2>2. CASE b # n
      <3>1. frame'[b][r] = frame[b][r] /\ frame'[b][q] = frame[b][q]
        BY <1>6, <2>2
      <3>2. SUFFICES ASSUME Active(b, r)', Active(b, q)', Together(b, r, q)'
                     PROVE  /\ frame'[b][r].depth = frame'[b][q].depth => r = q
                            /\ frame'[b][r].depth < frame'[b][q].depth =>
                                  /\ At(b, r, "wait")' /\ Active(b, Child(b, r))'
                                  /\ frame'[b][r].budget = frame'[b][q].budget =>
                                        frame'[b][Child(b, r)'].budget = frame'[b][r].budget
        BY DEF Stacked
      <3>3. Stacked(b, r, q) /\ Active(b, r) /\ Active(b, q) /\ Together(b, r, q)
        BY <1>1, <3>1, <3>2 DEF Tree, Active, Together
      <3>4. Child(b, r)' = Child(b, r) /\ At(b, r, "wait")' = At(b, r, "wait")
        BY <3>1 DEF Child, Here, At
      <3>5. At(b, r, "wait") => frame'[b][Child(b, r)] = frame[b][Child(b, r)]
        BY <1>6, <2>2, WaitsFor
      <3>6. At(b, r, "wait") /\ Active(b, Child(b, r)) => Active(b, Child(b, r))'
        BY <3>4, <3>5 DEF Active
      <3> QED
        BY <3>1, <3>3, <3>4, <3>5, <3>6 DEF Stacked
    <2> QED BY <2>1, <2>2
  <1>14. ASSUME NEW b \in Tries, NEW r \in Runs
         PROVE  Rooted(b, r)'
    <2>1. SUFFICES ASSUME timeouts' = 0, Active(b, r)'
                   PROVE  Active(b, Root)' /\ b = attempt'
      BY DEF Rooted
    <2>2. CASE b = n
      BY <1>1, <1>2, <2>2 DEF Active
    <2>3. CASE b # n
      <3>1. Active(b, r) /\ timeouts = 0
        BY <1>1, <1>6, <2>1, <2>3 DEF Active
      <3>2. Active(b, Root) /\ b = attempt
        BY <3>1 DEF Tree, Rooted
      <3> QED
        BY <1>1, <3>2 DEF Active, At
    <2> QED BY <2>2, <2>3
  <1> QED
    BY <1>9, <1>10, <1>11, <1>12, <1>13, <1>14 DEF Tree

\* The tree is one of frames, attempt and timeouts only.
LEMMA StaysTree ==
    ASSUME TypeOK, Tree, Stays
    PROVE  Tree'
  <1>1. frame' = frame /\ attempt' = attempt /\ timeouts' = timeouts
    BY DEF Stays
  <1>2. Shape' /\ Begun'
    <2>1. ASSUME NEW a \in Tries, NEW r \in Runs
          PROVE  Shaped(a, r)'
      <3>1. Shaped(a, r)
        BY DEF Tree, Shape
      <3> QED
        BY <1>1, <3>1 DEF Shaped, Here, Child
    <2>2. ASSUME NEW a \in Tries, NEW r \in Runs, NEW i \in NodesOf(r), NEW k \in Items(r, i)
          PROVE  BegunBy(a, r, i, k)'
      <3>1. BegunBy(a, r, i, k)
        BY DEF Tree, Begun
      <3> QED
        BY <1>1, <3>1 DEF BegunBy
    <2> QED
      BY <2>1, <2>2 DEF Shape, Begun
  <1>3. \A a \in Tries, r \in Runs : Owned(a, r)' /\ Awaited(a, r)' /\ Rooted(a, r)'
    <2> SUFFICES ASSUME NEW a \in Tries, NEW r \in Runs
                 PROVE  Owned(a, r)' /\ Awaited(a, r)' /\ Rooted(a, r)'
      OBVIOUS
    <2>1. Owned(a, r) /\ Awaited(a, r) /\ Rooted(a, r)
      BY DEF Tree
    <2> QED
      BY <1>1, <2>1 DEF Owned, Awaited, AwaitedBy, Rooted, Active, At, Child, Here
  <1>4. \A a \in Tries, r \in Runs, q \in Runs : Stacked(a, r, q)'
    <2> SUFFICES ASSUME NEW a \in Tries, NEW r \in Runs, NEW q \in Runs
                 PROVE  Stacked(a, r, q)'
      OBVIOUS
    <2>1. Stacked(a, r, q)
      BY DEF Tree
    <2> QED
      BY <1>1, <2>1 DEF Stacked, Together, Active, At, Child, Here
  <1> QED
    BY <1>2, <1>3, <1>4 DEF Tree

\* At the start nothing has begun.
LEMMA InitTree ==
    ASSUME Init
    PROVE  Tree
  <1>1. \A a \in Tries, r \in Runs : /\ frame[a][r].pc = "off" /\ frame[a][r].at = 1
                                     /\ frame[a][r].item = 1 /\ frame[a][r].result = "none"
    BY DEF Init, Off
  <1>2. Shape
    BY <1>1 DEF Shape, Shaped
  <1>3. Begun
    <2> SUFFICES ASSUME NEW a \in Tries, NEW r \in Runs, NEW i \in NodesOf(r), NEW k \in Items(r, i)
                 PROVE  BegunBy(a, r, i, k)
      BY DEF Begun
    <2>1. Kid(r, i, k) \in Runs
      BY PlanTypes
    <2> QED BY <1>1, <2>1 DEF BegunBy
  <1>4. \A a \in Tries, r \in Runs : ~Active(a, r)
    BY <1>1 DEF Active
  <1> QED
    BY <1>1, <1>2, <1>3, <1>4 DEF Tree, Owned, Awaited, Rooted, Stacked

\* The tree stands in every state.
LEMMA TreeStep ==
    ASSUME TypeOK, Tree, [Next]_vars
    PROVE  TypeOK' /\ Tree'
  <1>1. TypeOK'
    BY TypedStep DEF Tree
  <1>2. \/ Stays
        \/ Takes
        \/ \E a \in Tries, r \in Runs : Moves(a, r)
        \/ \E a \in Tries, r \in Runs : \E c \in Runs : Starts(a, r, c)
    BY StepForms DEF Tree
  <1> QED
    BY <1>1, <1>2, StaysTree, TakesTree, MovesTree, StartsTree

\* The tree of the runs stands in every state, whatever fails, throws, times out or is
\* retried: one chain of waiting runs per budget, over iterations that began in order.
THEOREM TreeStands == Spec => [](TypeOK /\ Tree)
  <1>1. Init => TypeOK /\ Tree
    BY TypedInit, InitTree
  <1>2. (TypeOK /\ Tree) /\ [Next]_vars => (TypeOK /\ Tree)'
    BY TreeStep
  <1> QED
    BY <1>1, <1>2, PTL DEF Spec

\* The state has its types: no node is charged beyond MAX_EXECUTION_STEPS, and every run
\* is at a node of its plan.
THEOREM TypeCorrect == Spec => []TypeOK
  BY TreeStands, PTL

-----------------------------------------------------------------------------------
(* A blown budget                                                                  *)

\* What an overflow comes to at the owner of the budget.
Blown == {"FATAL", "UNSAVED", "LOST"}

\* An overflow on its way up the iterators of one budget.
BlownAt(a, b, t) ==
    /\ frame[a][t].budget = b /\ At(a, t, "wait") /\ Here(a, t).kind = "iterator"
    /\ frame[a][Child(a, t)].result = "ABORTED"
Aborting(a, r) ==
    frame[a][r].result = "ABORTED" =>
        \/ frame[a][frame[a][r].budget].result \in Blown
        \/ /\ frame[a][frame[a][r].budget].result = "none"
           /\ \E t \in Runs : BlownAt(a, frame[a][r].budget, t)

\* What the two ways for an overflow to be on record come to where a step leaves them alone.
LEMMA StillAborting ==
    ASSUME TypeOK, Tree, NEW a \in Tries, NEW r \in Runs, Aborting(a, r),
           frame[a][r].result = "ABORTED", frame'[a][r].budget = frame[a][r].budget,
           frame'[a][frame[a][r].budget].result = frame[a][frame[a][r].budget].result,
           \A t \in Runs : At(a, t, "wait") /\ frame[a][Child(a, t)].result = "ABORTED"
                              => /\ frame'[a][t] = frame[a][t]
                                 /\ frame'[a][Child(a, t)] = frame[a][Child(a, t)]
    PROVE  Aborting(a, r)'
  <1> DEFINE b == frame[a][r].budget
  <1>1. CASE frame[a][b].result \in Blown
    BY <1>1 DEF Aborting
  <1>2. CASE frame[a][b].result = "none" /\ \E t \in Runs : BlownAt(a, b, t)
    <2>1. PICK t \in Runs : BlownAt(a, b, t)
      BY <1>2
    <2>2. frame'[a][t] = frame[a][t] /\ frame'[a][Child(a, t)] = frame[a][Child(a, t)]
      BY <2>1 DEF BlownAt
    <2>3. Here(a, t)' = Here(a, t) /\ Child(a, t)' = Child(a, t)
      BY <2>2 DEF Here, Child
    <2>4. BlownAt(a, frame[a][r].budget, t)'
      BY <2>1, <2>2, <2>3 DEF BlownAt, At
    <2>5. \E x \in Runs : BlownAt(a, frame[a][r].budget, x)'
      BY <2>4
    <2> QED
      BY <1>2, <2>5 DEF Aborting
  <1> QED
    BY <1>1, <1>2 DEF Aborting

\* A run of an iterator that has ended by throwing is over.
LEMMA AbortedIsOver ==
    ASSUME TypeOK, Tree, NEW a \in Tries, NEW r \in Runs, frame[a][r].result = "ABORTED"
    PROVE  frame[a][r].pc = "over" /\ ~Active(a, r) /\ frame[a][r].budget # r
  <1>1. Shaped(a, r) /\ frame[a][r].pc \in {"off", "loop", "iterate", "wait", "record", "mark", "over"}
    BY FrameIs DEF Tree, Shape
  <1> QED
    BY <1>1 DEF Shaped, Active

\* The parent of an active iteration.
LEMMA IterationsParent ==
    ASSUME TypeOK, Tree, NEW a \in Tries, NEW r \in Runs, Active(a, r), frame[a][r].budget # r
    PROVE  \E p \in Runs : /\ At(a, p, "wait") /\ Child(a, p) = r /\ p # r
                           /\ Here(a, p).kind = "iterator" /\ frame[a][p].budget = frame[a][r].budget
  <1>1. r # Root
    <2>1. Owned(a, r) /\ frame[a][r].pc # "off"
      BY DEF Tree, Active
    <2> QED BY <2>1 DEF Owned
  <1>2. PICK p \in Runs : At(a, p, "wait") /\ Child(a, p) = r
    BY <1>1 DEF Tree, Awaited, AwaitedBy
  <1>3. /\ frame[a][r].budget = IF Plan[p][frame[a][p].at].kind = "iterator" THEN frame[a][p].budget ELSE r
        /\ frame[a][r].depth = frame[a][p].depth + 1 /\ frame[a][p].depth \in Nat
    BY <1>2, WaitsFor, FrameIs
  <1>4. p # r
    BY <1>3
  <1> QED
    BY <1>2, <1>3, <1>4 DEF Here

\* The owner of a budget waits while a run below it is on its way.
LEMMA OwnerWaits ==
    ASSUME TypeOK, Tree, NEW a \in Tries, NEW r \in Runs, Active(a, r), frame[a][r].budget # r
    PROVE  LET b == frame[a][r].budget IN
           b \in Runs /\ At(a, b, "wait") /\ frame[a][b].result = "none" /\ frame[a][b].depth < frame[a][r].depth
           /\ frame[a][b].budget = b /\ Active(a, b)
  <1> DEFINE b == frame[a][r].budget
  <1>1. b \in Runs /\ frame[a][b].depth \in Nat /\ frame[a][r].depth \in Nat
    BY FrameIs
  <1>2. /\ frame[a][b].pc # "off" /\ frame[a][b].pc # "over" /\ frame[a][b].budget = b
        /\ frame[a][b].depth <= frame[a][r].depth
    BY DEF Tree, Owned, Active
  <1>3. Active(a, b) /\ Together(a, b, r) /\ Stacked(a, b, r)
    BY <1>1, <1>2 DEF Tree, Active, Together
  <1>4. frame[a][b].depth < frame[a][r].depth
    BY <1>1, <1>2, <1>3 DEF Stacked
  <1>5. At(a, b, "wait")
    BY <1>3, <1>4 DEF Stacked
  <1>6. frame[a][b].result = "none"
    BY <1>1, <1>5, WaitsFor
  <1> QED
    BY <1>1, <1>2, <1>3, <1>4, <1>5, <1>6

\* An overflow climbs by moves: the run that waits for the one it ended is the only one of
\* the budget that can move.
LEMMA MovesAborting ==
    ASSUME TypeOK, Tree, \A x \in Tries, y \in Runs : Aborting(x, y),
           NEW a \in Tries, NEW m \in Runs, Moves(a, m), NEW x \in Tries, NEW r \in Runs
    PROVE  Aborting(x, r)'
  <1> DEFINE b == frame[x][r].budget
  <1>1. /\ b \in Runs /\ frame'[x][r].budget = b /\ Active(a, m)
        /\ \A q \in Tries, y \in Runs : (q # a \/ y # m) => frame'[q][y] = frame[q][y]
    BY FrameIs, MovesIs
  <1>2. ASSUME NEW t \in Runs, At(x, t, "wait"), frame[x][Child(x, t)].result = "ABORTED",
               x # a \/ t # m
        PROVE  frame'[x][t] = frame[x][t] /\ frame'[x][Child(x, t)] = frame[x][Child(x, t)]
    <2>1. Child(x, t) \in Runs /\ ~Active(x, Child(x, t))
      BY <1>2, WaitsFor, AbortedIsOver
    <2>2. x # a \/ Child(x, t) # m
      BY <1>1, <2>1
    <2> QED
      BY <1>1, <1>2, <2>1, <2>2
  <1>3. CASE x # a
    <2>1. frame'[x][r] = frame[x][r] /\ frame'[x][b] = frame[x][b]
      BY <1>1, <1>3
    <2> SUFFICES ASSUME frame[x][r].result = "ABORTED" PROVE Aborting(x, r)'
      BY <2>1 DEF Aborting
    <2> QED
      BY <1>1, <1>2, <1>3, <2>1, StillAborting
  <1>4. ASSUME frame'[a][m].result = "ABORTED"
        PROVE  Aborting(a, m)'
    <2>0. frame[a][m].budget \in Runs /\ frame'[a][m].budget = frame[a][m].budget
      BY FrameIs, MovesIs
    <2>1. frame[a][m].result # "ABORTED"
      BY <1>1, AbortedIsOver
    <2>2. frame[a][m].budget # m
      BY <1>4, <2>1 DEF Moves, GoesOn, IteratesOn, Ends, IsRecorded
    <2>3. PICK p \in Runs : /\ At(a, p, "wait") /\ Child(a, p) = m /\ p # m
                            /\ Here(a, p).kind = "iterator" /\ frame[a][p].budget = frame[a][m].budget
      BY <1>1, <2>2, IterationsParent
    <2>4. frame'[a][p] = frame[a][p]
      BY <1>1, <2>3
    <2>5. Here(a, p)' = Here(a, p) /\ Child(a, p)' = m
      BY <2>3, <2>4 DEF Here, Child
    <2>6. BlownAt(a, frame[a][m].budget, p)'
      <3>1. frame'[a][Child(a, p)'].result = "ABORTED"
        BY <1>4, <2>5
      <3>2. frame'[a][p].budget = frame'[a][m].budget
        BY <2>0, <2>3, <2>4
      <3> QED
        BY <2>3, <2>4, <2>5, <3>1, <3>2 DEF BlownAt, At
    <2>7. frame[a][frame[a][m].budget].result = "none"
      BY <1>1, <2>2, OwnerWaits
    <2>8. frame'[a][frame'[a][m].budget].result = "none"
      BY <1>1, <2>0, <2>2, <2>7
    <2> QED
      BY <2>6, <2>8 DEF Aborting
  <1>5. ASSUME x = a, r # m, frame[a][r].result = "ABORTED"
        PROVE  Aborting(a, r)'
    <2>1. Aborting(a, r) /\ frame'[a][r] = frame[a][r]
      BY <1>1, <1>5
    <2>2. CASE At(a, m, "wait") /\ Here(a, m).kind = "iterator" /\ frame[a][Child(a, m)].result = "ABORTED"
                 /\ frame[a][m].budget = b
      <3>1. frame'[a][m].result = IF b = m THEN "FATAL" ELSE "ABORTED"
        BY <2>2 DEF Moves, At
      <3>2. CASE b = m
        BY <1>1, <1>5, <2>1, <3>1, <3>2 DEF Aborting, Blown
      <3>3. CASE b # m
        <4>1. Aborting(a, m)'
          BY <1>4, <1>5, <3>1, <3>3
        <4>2. frame'[a][m].budget = b /\ frame'[a][r].budget = b
          BY <1>1, <1>5, <2>1, <2>2, MovesIs
        <4> QED
          BY <3>1, <3>3, <4>1, <4>2 DEF Aborting
      <3> QED BY <3>2, <3>3
    <2>3. CASE ~(At(a, m, "wait") /\ Here(a, m).kind = "iterator" /\ frame[a][Child(a, m)].result = "ABORTED"
                 /\ frame[a][m].budget = b)
      <3>1. CASE frame[a][b].result \in Blown
        <4>1. frame'[a][b].result \in Blown
          <5>1. CASE b # m
            BY <1>1, <1>5, <3>1, <5>1
          <5>2. CASE b = m
            <6>1. Shaped(a, m)
              BY DEF Tree, Shape
            <6>2. frame[a][m].pc \notin {"loop", "iterate", "wait"}
              BY <1>5, <3>1, <5>2, <6>1 DEF Shaped, Blown
            <6>3. IsRecorded(m, frame[a][m], frame'[a][m])
              BY <6>2 DEF Moves, GoesOn, IteratesOn, Ends
            <6> QED
              BY <1>5, <3>1, <5>2, <6>3 DEF IsRecorded, Blown
          <5> QED BY <5>1, <5>2
        <4> QED
          BY <1>5, <2>1, <4>1 DEF Aborting
      <3>2. CASE frame[a][b].result = "none" /\ \E t \in Runs : BlownAt(a, b, t)
        <4>1. PICK t \in Runs : BlownAt(a, b, t)
          BY <3>2
        <4>2. t # m /\ At(a, t, "wait") /\ frame[a][t].budget = b /\ frame[a][Child(a, t)].result = "ABORTED"
          BY <2>3, <4>1 DEF BlownAt
        <4>3. b # m
          <5> SUFFICES ASSUME b = m PROVE FALSE
            OBVIOUS
          <5>1. Active(a, t) /\ frame[a][t].budget # t
            BY <4>2 DEF Active, At
          <5>2. frame[a][m].depth < frame[a][t].depth /\ frame[a][m].budget = m
            BY <1>5, <4>2, <5>1, OwnerWaits
          <5>3. Together(a, m, t)'
            <6>1. frame'[a][m].budget = frame'[a][t].budget
              BY <4>2, <5>2, MovesIs
            <6> QED BY <6>1 DEF Together
          <5> QED BY <5>1, <5>2, <5>3, UpperStays
        <4>4. frame'[a][b] = frame[a][b]
          BY <1>1, <1>5, <4>3
        <4>5. frame'[a][t] = frame[a][t] /\ frame'[a][Child(a, t)] = frame[a][Child(a, t)]
          BY <1>2, <1>5, <4>2
        <4>6. Here(a, t)' = Here(a, t) /\ Child(a, t)' = Child(a, t)
          BY <4>5 DEF Here, Child
        <4>7. BlownAt(a, frame[a][r].budget, t)'
          BY <1>5, <2>1, <4>1, <4>5, <4>6 DEF BlownAt, At
        <4>8. \E y \in Runs : BlownAt(a, frame[a][r].budget, y)'
          BY <4>7
        <4> QED
          BY <1>5, <2>1, <3>2, <4>4, <4>8 DEF Aborting
      <3> QED BY <1>5, <2>1, <3>1, <3>2 DEF Aborting
    <2> QED BY <2>2, <2>3
  <1>6. x = a /\ r # m => frame'[a][r] = frame[a][r]
    BY <1>1
  <1>7. (x = a /\ frame'[a][r].result # "ABORTED") => Aborting(x, r)'
    BY DEF Aborting
  <1> QED
    BY <1>3, <1>4, <1>5, <1>6, <1>7

\* No run of a blown budget starts another.
LEMMA StartsAborting ==
    ASSUME TypeOK, Tree, \A x \in Tries, y \in Runs : Aborting(x, y),
           NEW a \in Tries, NEW m \in Runs, NEW c \in Runs, Starts(a, m, c), NEW x \in Tries, NEW r \in Runs
    PROVE  Aborting(x, r)'
  <1> DEFINE b == frame[x][r].budget
  <1>1. \A q \in Tries, y \in Runs : (q # a \/ y \notin {m, c}) => frame'[q][y] = frame[q][y]
    BY StartLeaves
  <1>2. /\ frame[a][m].result = "none" /\ frame'[a][m].result = "none" /\ frame[a][c].pc = "off"
        /\ frame'[a][c].result \in {"none", "FAILED"} /\ frame[a][m].pc \in {"loop", "iterate"}
        /\ frame[a][c].result = "none"
    BY DEF Starts, Tree, Shape, Shaped
  <1>3. SUFFICES ASSUME frame'[x][r].result = "ABORTED" PROVE Aborting(x, r)'
    BY DEF Aborting
  <1>4. x # a \/ r \notin {m, c}
    BY <1>2, <1>3
  <1>5. frame'[x][r] = frame[x][r]
    BY <1>1, <1>4
  <1>6. b \in Runs /\ frame[x][r].pc # "off" /\ frame[x][b].pc # "off"
    <2>1. frame[x][r].pc = "over" /\ b \in Runs
      BY <1>3, <1>5, AbortedIsOver, FrameIs
    <2>2. Owned(x, r)
      BY DEF Tree
    <2> QED BY <2>1, <2>2 DEF Owned
  <1>7. frame'[x][b].result = frame[x][b].result
    BY <1>1, <1>2, <1>6
  <1>8. ASSUME NEW t \in Runs, At(x, t, "wait"), frame[x][Child(x, t)].result = "ABORTED"
        PROVE  frame'[x][t] = frame[x][t] /\ frame'[x][Child(x, t)] = frame[x][Child(x, t)]
    <2>1. Child(x, t) \in Runs
      BY <1>8, WaitsFor
    <2>2. x # a \/ t \notin {m, c}
      BY <1>2, <1>8 DEF At
    <2>3. x # a \/ Child(x, t) \notin {m, c}
      BY <1>2, <1>8
    <2> QED
      BY <1>1, <2>1, <2>2, <2>3
  <1> QED
    BY <1>3, <1>5, <1>7, <1>8, StillAborting

\* A new attempt has no overflow on record.
LEMMA TakesAborting ==
    ASSUME TypeOK, Tree, \A x \in Tries, y \in Runs : Aborting(x, y), Takes, NEW x \in Tries, NEW r \in Runs
    PROVE  Aborting(x, r)'
  <1>0. PICK n \in Tries : n = attempt + 1
    BY DEF Takes
  <1>1. \A b \in Tries, q \in Runs : (b # n \/ q # Root) => frame'[b][q] = frame[b][q]
    BY <1>0 DEF Takes, Others
  <1>2. frame'[n][Root].result = "none" /\ Root \in Runs
    BY <1>0, PlanTypes DEF Takes
  <1>3. \A q \in Runs : frame[n][q].result = "none"
    <2> SUFFICES ASSUME NEW q \in Runs PROVE frame[n][q].result = "none"
      OBVIOUS
    <2>1. Shaped(n, q) /\ n > attempt
      BY <1>0 DEF Tree, Shape, TypeOK
    <2> QED BY <2>1 DEF Shaped
  <1>4. CASE x = n
    <2>1. frame'[n][r].result = "none"
      BY <1>1, <1>2, <1>3
    <2> QED BY <1>4, <2>1 DEF Aborting
  <1>5. CASE x # n
    <2>1. frame'[x][r] = frame[x][r] /\ frame[x][r].budget \in Runs
      BY <1>1, <1>5, FrameIs
    <2>2. frame'[x][frame[x][r].budget] = frame[x][frame[x][r].budget]
      BY <1>1, <1>5, <2>1
    <2>3. ASSUME NEW t \in Runs, At(x, t, "wait")
          PROVE  frame'[x][t] = frame[x][t] /\ frame'[x][Child(x, t)] = frame[x][Child(x, t)]
      <3>1. Child(x, t) \in Runs
        BY <2>3, WaitsFor
      <3> QED BY <1>1, <1>5, <3>1
    <2>4. SUFFICES ASSUME frame[x][r].result = "ABORTED" PROVE Aborting(x, r)'
      BY <2>1 DEF Aborting
    <2> QED
      BY <2>1, <2>2, <2>3, <2>4, StillAborting
  <1> QED BY <1>4, <1>5

AllAborting == \A a \in Tries, r \in Runs : Aborting(a, r)

\* Every overflow is on its way to the owner of the budget, or has been recorded as fatal.
LEMMA AbortingStep ==
    ASSUME TypeOK, Tree, AllAborting, [Next]_vars
    PROVE  AllAborting'
  <1>1. \/ Stays
        \/ Takes
        \/ \E a \in Tries, r \in Runs : Moves(a, r)
        \/ \E a \in Tries, r \in Runs : \E c \in Runs : Starts(a, r, c)
    BY StepForms DEF Tree
  <1>2. CASE Stays
    <2> SUFFICES ASSUME NEW a \in Tries, NEW r \in Runs PROVE Aborting(a, r)'
      BY DEF AllAborting
    <2>1. frame' = frame /\ Aborting(a, r)
      BY <1>2 DEF Stays, AllAborting
    <2> QED
      BY <2>1 DEF Aborting, BlownAt, At, Here, Child
  <1> QED
    BY <1>1, <1>2, TakesAborting, MovesAborting, StartsAborting DEF AllAborting

-----------------------------------------------------------------------------------
(* Rows, results and effects                                                       *)

\* A child whose outcome lets its parent's node pass, or its parent go on by error edges.
Good(r, i, k) ==
    \/ row[Kid(r, i, k)] = "SUCCESS"
    \/ /\ Plan[r][i].kind = "iterator" /\ Plan[r][i].continueOnError
       /\ row[Kid(r, i, k)] = "FAILED"
Resolved(a, r, i, k) ==
    Good(r, i, k) \/ (Handled(Plan[r][i]) /\ Plan[r][i].handler \subseteq frame[a][r].reached)

\* What a move does to the rows: nothing, the run's own outcome, its item's, or a new one.
Threw == {"ABORTED", "CRASHED"}
Quiet(a, m) ==
    /\ row' = row
    /\ frame[a][m].pc \in {"record", "mark"}
          => \/ frame'[a][m].pc = "mark" \/ frame'[a][m].result = "LOST"
             \/ m = Root /\ frame[a][m].pc = "mark" /\ a < Attempts
    /\ At(a, m, "wait") /\ Here(a, m).kind = "iterator"
          => frame[a][Child(a, m)].result \in Threw \/ frame'[a][m].result \in Threw
Verdict(a, m) == IF At(a, m, "record") THEN Closing(a, m) ELSE "FAILED"
Recorded(a, m) ==
    /\ frame[a][m].pc \in {"record", "mark"} /\ row' = [row EXCEPT ![m] = Verdict(a, m)]
    /\ frame'[a][m].pc = "over" /\ frame'[a][m].result = frame[a][m].result
Outcome(result) == IF result = "SUCCESS" THEN "SUCCESS" ELSE "FAILED"
Returned(a, m) ==
    /\ At(a, m, "wait") /\ Here(a, m).kind = "iterator"
    /\ row' = [row EXCEPT ![Child(a, m)] = Outcome(frame[a][Child(a, m)].result)]
Noted(a, m) ==
    /\ At(a, m, "loop") /\ ~frame[a][m].failed
    /\ frame[a][m].at \in NodesOf(m) /\ Here(a, m).kind = "subworkflow"
    /\ row[Child(a, m)] = "none" /\ row' = [row EXCEPT ![Child(a, m)] = "PENDING"]

\* What it does to the steps.
Acted(a, m) ==
    LET i == frame[a][m].at IN
    /\ frame[a][m].pc = "loop" /\ i \in NodesOf(m) /\ i \notin frame[a][m].reuse
    /\ frame'[a][m].at = i + 1
    /\ saved' = [saved EXCEPT ![m] = @ \union {i}]
    /\ effects' = [effects EXCEPT ![m][i] = @ + 1]

\* A node that was reached is behind a run that has not failed only where all below it is
\* resolved.
Accounts(a, m) ==
    LET f == frame[a][m]
        g == frame'[a][m] IN
    /\ f.failed => g.failed
    /\ \A i \in NodesOf(m) : \A k \in Items(m, i) : i = f.at /\ i \in f.reached =>
          /\ g.pc = "loop" /\ ~g.failed => (f.pc = "iterate" /\ k < f.item) \/ Resolved(a, m, i, k)'
          /\ g.pc = "iterate" /\ f.pc # "loop" /\ k = f.item => Good(m, i, k)'

Details(a, m) ==
    /\ Quiet(a, m) \/ Recorded(a, m) \/ Returned(a, m) \/ Noted(a, m)
    /\ UNCHANGED <<saved, effects>> \/ Acted(a, m)
    /\ Accounts(a, m)

\* What a start does to them.
Begins(c) ==
    /\ row[c] # "SUCCESS" /\ row'[c] \in {"PENDING", "RUNNING", "FAILED"}
    /\ \A q \in Runs : q # c => row'[q] = row[q]
    /\ UNCHANGED <<saved, effects>>

Same == UNCHANGED <<row, saved, effects>>

\* The frame of a run that has thrown.
LEMMA ThrownFrame ==
    ASSUME TypeOK, NEW a \in Tries, NEW m \in Runs, NEW reason \in Threw,
           Becomes(a, m, Thrown(a, m, reason))
    PROVE  /\ frame'[a][m].pc \in {"record", "mark", "over"}
           /\ frame'[a][m].failed = frame[a][m].failed
           /\ reason = "CRASHED" => frame'[a][m].result = "CRASHED"
  <1>1. frame'[a][m] = Thrown(a, m, reason) /\ reason \in {"ABORTED", "CRASHED"}
    BY OneFrame DEF Threw
  <1> QED
    BY <1>1, ThrownIs

\* A run that ends.
LEMMA EndsDetails ==
    ASSUME TypeOK, Tree, NEW a \in Tries, NEW m \in Runs, Overflow(a, m) \/ Finish(a, m)
    PROVE  Details(a, m)
  <1> DEFINE f == frame[a][m]
  <1>1. UNCHANGED <<row, saved, effects>> /\ f.pc = "loop"
    BY DEF Overflow, Finish, At
  <1>2. Becomes(a, m, Ended(a, m, "SUCCESS")) \/ Becomes(a, m, Ended(a, m, "FAILED"))
        \/ Becomes(a, m, Thrown(a, m, "ABORTED"))
    BY DEF Overflow, Finish
  <1>4. frame'[a][m].pc \in {"record", "mark", "over"} /\ frame'[a][m].failed = f.failed
    <2>1. ASSUME NEW res \in {"SUCCESS", "FAILED"}, Becomes(a, m, Ended(a, m, res))
          PROVE  frame'[a][m].pc \in {"record", "mark", "over"} /\ frame'[a][m].failed = f.failed
      <3>1. frame'[a][m] = Ended(a, m, res) /\ res \in Results
        BY <2>1, OneFrame DEF Results
      <3> QED BY <3>1, EndedIs
    <2>2. CASE Becomes(a, m, Thrown(a, m, "ABORTED"))
      BY <2>2, ThrownFrame DEF Threw
    <2> QED BY <1>2, <2>1, <2>2
  <1>5. Accounts(a, m)
    BY <1>4 DEF Accounts
  <1>6. Quiet(a, m)
    BY <1>1 DEF Quiet, At
  <1> QED
    BY <1>1, <1>5, <1>6 DEF Details

\* A run that ends by a database call, be it before or after its item's row is written.
LEMMA BlipDetails ==
    ASSUME TypeOK, Tree, NEW a \in Tries, NEW m \in Runs, Blip(a, m)
    PROVE  Details(a, m)
  <1>1. UNCHANGED <<saved, effects>> /\ Becomes(a, m, Thrown(a, m, "CRASHED"))
    BY DEF Blip
  <1>2. /\ frame'[a][m].pc \in {"record", "mark", "over"} /\ frame'[a][m].result = "CRASHED"
        /\ frame'[a][m].failed = frame[a][m].failed
    BY <1>1, ThrownFrame DEF Threw
  <1>3. Accounts(a, m)
    BY <1>2 DEF Accounts
  <1>4. frame[a][m].pc \in {"loop", "iterate", "wait"}
    BY DEF Blip, SubworkflowWaits, At
  <1>5. row' = row \/ Returned(a, m)
    BY DEF Blip, Settled, Returned, Outcome
  <1>6. row' = row => Quiet(a, m)
    BY <1>2, <1>4 DEF Quiet, Threw
  <1> QED
    BY <1>1, <1>3, <1>5, <1>6 DEF Details

\* Where a run goes on to the next node.
LEMMA GoesOnFrame ==
    ASSUME TypeOK, NEW a \in Tries, NEW m \in Runs, frame[a][m].at \in NodesOf(m)
    PROVE  LET f == frame[a][m]
               g == frame'[a][m]
               n == Plan[m][frame[a][m].at] IN
           /\ Becomes(a, m, NextNode(f)) \/ Succeeds(a, m) =>
                 g.pc = "loop" /\ g.failed = f.failed /\ g.at = f.at + 1
           /\ Becomes(a, m, NodeFailed(m, f)) =>
                 /\ g.pc = "loop" /\ g.at = f.at + 1
                 /\ g.failed \/ (Handled(n) /\ n.handler \subseteq g.reached)
  <1> DEFINE f == frame[a][m]
             h == frame'[a][m]
             n == Plan[m][frame[a][m].at]
  <1>1. f \in Frame
    BY FrameIs
  <1>2. ASSUME NEW g, Becomes(a, m, g)
        PROVE  h = g
    BY <1>2, OneFrame
  <1>3. ASSUME Becomes(a, m, NextNode(f))
        PROVE  h.pc = "loop" /\ h.failed = f.failed /\ h.at = f.at + 1
    <2>1. h = NextNode(f)
      BY <1>2, <1>3
    <2>2. Onward(f, NextNode(f)) /\ NextNode(f).failed = f.failed
      BY <1>1, OnwardIs
    <2> QED BY <2>1, <2>2 DEF Onward
  <1>4. ASSUME Succeeds(a, m)
        PROVE  h.pc = "loop" /\ h.failed = f.failed /\ h.at = f.at + 1
    <2>1. PICK g : Onward(f, g) /\ g.failed = f.failed /\ Becomes(a, m, g)
      BY <1>4, SucceedsIs
    <2>2. h = g
      BY <1>2, <2>1
    <2> QED BY <2>1, <2>2 DEF Onward
  <1>5. ASSUME Becomes(a, m, NodeFailed(m, f))
        PROVE  /\ h.pc = "loop" /\ h.at = f.at + 1
               /\ h.failed \/ (Handled(n) /\ n.handler \subseteq h.reached)
    <2>1. h = NodeFailed(m, f)
      BY <1>2, <1>5
    <2>2. /\ Onward(f, h)
          /\ h.failed \/ (Handled(n) /\ n.handler \subseteq h.reached)
      BY <2>1, FailedIs
    <2> QED BY <2>2 DEF Onward
  <1> QED
    BY <1>3, <1>4, <1>5

\* A failed node accounts for what is below it.
LEMMA FailedAccounts ==
    ASSUME TypeOK, NEW a \in Tries, NEW m \in Runs, frame[a][m].at \in NodesOf(m),
           ~frame[a][m].failed, Becomes(a, m, NodeFailed(m, frame[a][m]))
    PROVE  Accounts(a, m)
  <1> DEFINE n == Plan[m][frame[a][m].at]
             g == frame'[a][m]
  <1>1. g.pc = "loop" /\ (g.failed \/ (Handled(n) /\ n.handler \subseteq g.reached))
    BY GoesOnFrame
  <1>2. ASSUME NEW i \in NodesOf(m), NEW k \in Items(m, i), i = frame[a][m].at, ~g.failed
        PROVE  Resolved(a, m, i, k)'
    BY <1>1, <1>2 DEF Resolved, Handled
  <1> QED
    BY <1>1, <1>2 DEF Accounts

\* A node without children that is passed, or has its effect.
LEMMA LeafDetails ==
    ASSUME TypeOK, Tree, NEW a \in Tries, NEW m \in Runs, Pass(a, m) \/ Act(a, m)
    PROVE  Details(a, m)
  <1> DEFINE f == frame[a][m]
             g == frame'[a][m]
  <1>1. row' = row /\ f.pc = "loop" /\ f.at \in NodesOf(m)
    BY DEF Pass, Act, Consume, At
  <1>2. g.pc = "loop" /\ g.failed = f.failed /\ g.at = f.at + 1
    BY <1>1, GoesOnFrame DEF Pass, Act
  <1>3. f.failed \/ f.at \notin f.reached \/ Plan[m][f.at].kind \in {"logic", "action"}
    BY DEF Pass, Act, Due, Here
  <1>4. Plan[m][f.at].kind \in {"logic", "action"} => Items(m, f.at) = {}
    <2> SUFFICES ASSUME Plan[m][f.at].kind \in {"logic", "action"} PROVE Items(m, f.at) = {}
      OBVIOUS
    <2>1. Len(Plan[m][f.at].children) = 0
      BY <1>1, PlanTypes
    <2>2. 1 .. 0 = {}
      OBVIOUS
    <2> QED BY <2>1, <2>2 DEF Items
  <1>5. Accounts(a, m)
    BY <1>2, <1>3, <1>4 DEF Accounts
  <1>6. Quiet(a, m)
    BY <1>1 DEF Quiet, At
  <1>7. UNCHANGED <<saved, effects>> \/ Acted(a, m)
    <2>1. CASE Pass(a, m)
      BY <2>1 DEF Pass
    <2>2. CASE Act(a, m)
      <3>1. CASE f.at \in f.reuse
        BY <2>2, <3>1 DEF Act
      <3>2. CASE f.at \notin f.reuse
        BY <1>1, <1>2, <2>2, <3>2 DEF Act, Acted
      <3> QED BY <3>1, <3>2
    <2> QED BY <2>1, <2>2
  <1> QED
    BY <1>5, <1>6, <1>7 DEF Details

\* A node that fails, and may leave the row of a subworkflow that has not begun.
LEMMA FailsDetails ==
    ASSUME TypeOK, Tree, NEW a \in Tries, NEW m \in Runs, NodeFails(a, m)
    PROVE  Details(a, m)
  <1> DEFINE f == frame[a][m]
  <1>1. /\ f.pc = "loop" /\ f.at \in NodesOf(m) /\ ~f.failed /\ UNCHANGED <<saved, effects>>
        /\ Becomes(a, m, NodeFailed(m, f))
        /\ row' = row \/ Noted(a, m)
    BY DEF NodeFails, Consume, At, Due, Noted
  <1>2. Accounts(a, m)
    BY <1>1, FailedAccounts
  <1>3. row' = row => Quiet(a, m)
    BY <1>1 DEF Quiet, At
  <1> QED
    BY <1>1, <1>2, <1>3 DEF Details

\* A run that is recorded, or marked, or neither.
LEMMA RecordDetails ==
    ASSUME TypeOK, Tree, NEW a \in Tries, NEW m \in Runs,
           Record(a, m) \/ CloseThrows(a, m) \/ Mark(a, m) \/ MarkThrows(a, m)
    PROVE  Details(a, m)
  <1> DEFINE f == frame[a][m]
             g == frame'[a][m]
  <1>1. UNCHANGED <<saved, effects>> /\ f.pc \in {"record", "mark"} /\ f \in Frame
    BY FrameIs DEF Record, CloseThrows, Mark, MarkThrows, At
  <1>2. ASSUME NEW h, Becomes(a, m, h)
        PROVE  g = h
    BY <1>2, OneFrame
  <1>3. CASE Record(a, m) \/ Mark(a, m)
    <2>1. g = [f EXCEPT !.pc = "over"]
      BY <1>2, <1>3 DEF Record, Mark
    <2>2. g.pc = "over" /\ g.failed = f.failed /\ g.result = f.result
      BY <1>1, <2>1 DEF Frame
    <2>3. Accounts(a, m)
      BY <2>2 DEF Accounts
    <2>4. \/ row' = [row EXCEPT ![m] = Verdict(a, m)]
          \/ row' = row /\ m = Root /\ f.pc = "mark" /\ a < Attempts
      BY <1>3 DEF Record, Mark, Verdict, Retried, At
    <2>5. Quiet(a, m) \/ Recorded(a, m)
      BY <1>1, <2>2, <2>4 DEF Quiet, Recorded, At
    <2> QED
      BY <1>1, <2>3, <2>5 DEF Details
  <1>4. CASE CloseThrows(a, m)
    <2>1. g = [f EXCEPT !.pc = "mark", !.result = "UNSAVED"] /\ row' = row
      BY <1>2, <1>4 DEF CloseThrows
    <2>2. g.pc = "mark" /\ g.failed = f.failed
      BY <1>1, <2>1 DEF Frame
    <2>3. Accounts(a, m) /\ Quiet(a, m)
      BY <1>1, <2>1, <2>2 DEF Accounts, Quiet, At
    <2> QED
      BY <1>1, <2>3 DEF Details
  <1>5. CASE MarkThrows(a, m)
    <2>1. g = [f EXCEPT !.pc = "over", !.result = "LOST"] /\ row' = row
      BY <1>2, <1>5 DEF MarkThrows
    <2>2. g.pc = "over" /\ g.failed = f.failed /\ g.result = "LOST"
      BY <1>1, <2>1 DEF Frame
    <2>3. Accounts(a, m) /\ Quiet(a, m)
      BY <1>1, <2>1, <2>2 DEF Accounts, Quiet, At
    <2> QED
      BY <1>1, <2>3 DEF Details
  <1> QED
    BY <1>3, <1>4, <1>5

\* An iterator that is entered, or through with its items.
LEMMA IteratorDetails ==
    ASSUME TypeOK, Tree, NEW a \in Tries, NEW m \in Runs, Iterator(a, m) \/ IteratorDone(a, m)
    PROVE  Details(a, m)
  <1> DEFINE f == frame[a][m]
             g == frame'[a][m]
  <1>1. UNCHANGED <<row, saved, effects>> /\ f.pc \in {"loop", "iterate"}
    BY DEF Iterator, IteratorDone, Consume, At
  <1>2. Quiet(a, m)
    BY <1>1 DEF Quiet, At
  <1>3. CASE Iterator(a, m)
    <2>1. f.pc = "loop" /\ frame'[a][m] = [f EXCEPT !.pc = "iterate"]
      BY <1>3, OneFrame DEF Iterator, Consume, At
    <2>2. g.pc = "iterate" /\ g.failed = f.failed
      BY <2>1, FrameIs DEF Frame
    <2>3. Accounts(a, m)
      BY <2>1, <2>2 DEF Accounts
    <2> QED BY <1>1, <1>2, <2>3 DEF Details
  <1>4. CASE IteratorDone(a, m)
    <2>1. f.pc = "iterate" /\ f.item > Len(Plan[m][f.at].children) /\ Succeeds(a, m)
      BY <1>4 DEF IteratorDone, At, Here
    <2>3. f.at \in NodesOf(m)
      BY <2>1 DEF Tree, Shape, Shaped
    <2>2. g.pc = "loop" /\ g.failed = f.failed
      BY <2>1, <2>3, GoesOnFrame
    <2>4. \A k \in Items(m, f.at) : k < f.item
      BY <2>1, <2>3, PlanTypes, FrameIs DEF Items
    <2>5. Accounts(a, m)
      BY <2>1, <2>2, <2>4 DEF Accounts
    <2> QED BY <1>1, <1>2, <2>5 DEF Details
  <1> QED
    BY <1>3, <1>4

\* An item that is skipped for its row, or started.
LEMMA IterateDetails ==
    ASSUME TypeOK, Tree, NEW a \in Tries, NEW m \in Runs, Iterate(a, m)
    PROVE  \/ Moves(a, m) /\ Details(a, m)
           \/ Starts(a, m, Child(a, m)) /\ Begins(Child(a, m))
  <1> DEFINE f == frame[a][m]
             c == Child(a, m)
  <1>1. /\ f.pc = "iterate" /\ f.item <= Len(Plan[m][f.at].children) /\ UNCHANGED <<saved, effects>>
    BY DEF Iterate, At, Here
  <1>2. f \in Frame /\ f.item \in Nat /\ f.item >= 1 /\ f.at \in NodesOf(m) /\ ~f.failed
    BY <1>1, FrameIs DEF Tree, Shape, Shaped
  <1>3. f.item \in Items(m, f.at)
    BY <1>1, <1>2, PlanTypes DEF Items
  <1>4. c = Kid(m, f.at, f.item) /\ c \in Runs
    BY <1>2, <1>3, ChildIs
  <1>5. CASE row[c] = "SUCCESS"
    <2>1. Becomes(a, m, [f EXCEPT !.item = @ + 1]) /\ row' = row
      BY <1>5 DEF Iterate
    <2>2. frame'[a][m] = [f EXCEPT !.item = @ + 1]
      BY <2>1, OneFrame
    <2>3. frame'[a][m].failed = f.failed /\ frame'[a][m].pc = "iterate"
      BY <1>1, <1>2, <2>2 DEF Frame
    <2>4. ASSUME NEW i \in NodesOf(m), NEW k \in Items(m, i), i = f.at, k = f.item
          PROVE  Good(m, i, k)'
      <3>1. row'[Kid(m, i, k)] = "SUCCESS"
        BY <1>4, <1>5, <2>1, <2>4
      <3> QED BY <3>1 DEF Good, Kid
    <2>5. Accounts(a, m)
      BY <2>3, <2>4 DEF Accounts
    <2>6. Quiet(a, m)
      BY <1>1, <2>1 DEF Quiet, At
    <2>7. ~Starts(a, m, c)
      BY <2>3 DEF Starts
    <2> QED
      BY <1>1, <2>5, <2>6, <2>7, IterateMoves DEF Details, Tree
  <1>6. CASE row[c] # "SUCCESS"
    <2>1. row' = [row EXCEPT ![c] = IF @ = "none" THEN "RUNNING" ELSE @]
      BY <1>6 DEF Iterate
    <2>2. row \in [Runs -> Statuses]
      BY DEF TypeOK, Statuses
    <2>3. Starts(a, m, c)
      BY <1>6, IterateMoves DEF Tree
    <2> HIDE DEF c
    <2>4. Begins(c)
      BY <1>1, <1>4, <1>6, <2>1, <2>2 DEF Begins, Statuses
    <2> QED BY <2>3, <2>4 DEF c
  <1> QED BY <1>5, <1>6

\* An item that is over: its row is written unless it threw.
LEMMA ReturnDetails ==
    ASSUME TypeOK, Tree, NEW a \in Tries, NEW m \in Runs, IterationReturns(a, m)
    PROVE  Details(a, m)
  <1> DEFINE f == frame[a][m]
             c == Child(a, m)
             result == frame[a][c].result
             g == frame'[a][m]
  <1>1. f.pc = "wait" /\ Here(a, m).kind = "iterator" /\ UNCHANGED <<saved, effects>>
    BY DEF IterationReturns, At
  <1>2. /\ f \in Frame /\ c = Kid(m, f.at, f.item) /\ c \in Runs
        /\ f.at \in NodesOf(m) /\ ~f.failed
    BY <1>1, FrameIs, WaitsFor DEF At
  <1>3. CASE Unwinds(a, m, result)
    <2>1. Becomes(a, m, Thrown(a, m, result)) /\ row' = row
      BY <1>3 DEF IterationReturns
    <2>2. result \in Threw
      BY <1>3 DEF Unwinds, Threw
    <2>5. g.pc \in {"record", "mark", "over"} /\ g.failed = f.failed
      BY <2>1, <2>2, ThrownFrame
    <2>6. Accounts(a, m)
      BY <2>5 DEF Accounts
    <2>7. Quiet(a, m)
      BY <1>1, <2>1, <2>2 DEF Quiet
    <2> QED BY <1>1, <2>6, <2>7 DEF Details
  <1>4. CASE ~Unwinds(a, m, result)
    <2>1. /\ row' = [row EXCEPT ![c] = IF result = "SUCCESS" THEN "SUCCESS" ELSE "FAILED"]
          /\ Becomes(a, m, IF Breaks(a, m, result) THEN NodeFailed(m, f)
                           ELSE [f EXCEPT !.pc = "iterate", !.item = @ + 1])
      BY <1>4 DEF IterationReturns, Settled
    <2>2. Returned(a, m)
      BY <1>1, <2>1 DEF Returned, Outcome, At
    <2>3. Accounts(a, m)
      <3>1. CASE Breaks(a, m, result)
        BY <1>2, <2>1, <3>1, FailedAccounts
      <3>2. CASE ~Breaks(a, m, result)
        <4>1. frame'[a][m] = [f EXCEPT !.pc = "iterate", !.item = @ + 1]
          BY <2>1, <3>2, OneFrame
        <4>2. g.pc = "iterate" /\ g.failed = f.failed
          BY <1>2, <4>1 DEF Frame
        <4>3. row'[c] = IF result = "SUCCESS" THEN "SUCCESS" ELSE "FAILED"
          BY <1>2, <2>1 DEF TypeOK
        <4>4. result = "SUCCESS" \/ Plan[m][f.at].continueOnError
          BY <3>2 DEF Breaks, Here
        <4>5. Plan[m][f.at].kind = "iterator"
          BY <1>1 DEF Here
        <4>6. row'[Kid(m, f.at, f.item)] = IF result = "SUCCESS" THEN "SUCCESS" ELSE "FAILED"
          BY <1>2, <4>3
        <4>7. ASSUME NEW i \in NodesOf(m), NEW k \in Items(m, i), i = f.at, k = f.item
              PROVE  Good(m, i, k)'
          <5>1. row'[Kid(m, i, k)] = IF result = "SUCCESS" THEN "SUCCESS" ELSE "FAILED"
            BY <4>6, <4>7
          <5>2. Plan[m][i].kind = "iterator" /\ (result = "SUCCESS" \/ Plan[m][i].continueOnError)
            BY <4>4, <4>5, <4>7
          <5> QED BY <5>1, <5>2 DEF Good, Kid
        <4> QED BY <4>2, <4>7 DEF Accounts
      <3> QED BY <3>1, <3>2
    <2> QED BY <1>1, <2>2, <2>3 DEF Details
  <1> QED BY <1>3, <1>4

\* A subworkflow node that fails for its depth, reuses its child's row, or starts it.
LEMMA SubworkflowDetails ==
    ASSUME TypeOK, Tree, NEW a \in Tries, NEW m \in Runs, Subworkflow(a, m)
    PROVE  \/ Moves(a, m) /\ Details(a, m)
           \/ Starts(a, m, Child(a, m)) /\ Begins(Child(a, m))
  <1> DEFINE f == frame[a][m]
             c == Child(a, m)
             g == frame'[a][m]
  <1>1. /\ f.pc = "loop" /\ f.at \in NodesOf(m) /\ Plan[m][f.at].kind = "subworkflow" /\ ~f.failed
        /\ UNCHANGED <<saved, effects>>
    BY DEF Subworkflow, Consume, At, Here, Due
  <1>2. f.item = 1
    BY <1>1 DEF Tree, Shape, Shaped
  <1>3. Items(m, f.at) = {1}
    <2>1. Len(Plan[m][f.at].children) = 1
      BY <1>1, PlanTypes
    <2>2. 1 .. 1 = {1}
      OBVIOUS
    <2> QED BY <2>1, <2>2 DEF Items
  <1>4. c = Kid(m, f.at, 1) /\ c \in Runs
    BY <1>1, <1>2, <1>3, ChildIs
  <1>5. \/ Becomes(a, m, NodeFailed(m, f)) /\ row' = row
        \/ row[c] = "SUCCESS" /\ Succeeds(a, m) /\ row' = row
        \/ row[c] # "SUCCESS" /\ row' = [row EXCEPT ![c] = "RUNNING"] /\ f.depth < MaxDepth
           /\ frame' = [frame EXCEPT ![a][m] = [f EXCEPT !.pc = "wait"],
                                     ![a][c] = Started(c, c, f.depth + 1)]
    BY DEF Subworkflow
  <1>6. CASE \/ Becomes(a, m, NodeFailed(m, f)) /\ row' = row
             \/ row[c] = "SUCCESS" /\ Succeeds(a, m) /\ row' = row
    <2>1. Quiet(a, m)
      BY <1>1, <1>6 DEF Quiet, At
    <2>2. g.pc = "loop"
      BY <1>1, <1>6, GoesOnFrame
    <2>4. Accounts(a, m)
      <3>1. CASE Becomes(a, m, NodeFailed(m, f))
        BY <1>1, <3>1, FailedAccounts
      <3>2. CASE row[c] = "SUCCESS" /\ Succeeds(a, m) /\ row' = row
        <4>1. \A k \in Items(m, f.at) : row'[Kid(m, f.at, k)] = "SUCCESS"
          BY <1>3, <1>4, <3>2
        <4>2. ASSUME NEW i \in NodesOf(m), NEW k \in Items(m, i), i = f.at
              PROVE  Resolved(a, m, i, k)'
          <5>1. row'[Kid(m, i, k)] = "SUCCESS"
            BY <4>1, <4>2
          <5> QED BY <5>1 DEF Resolved, Good, Kid
        <4> QED
          BY <1>1, <2>2, <4>2 DEF Accounts
      <3> QED
        BY <1>6, <3>1, <3>2
    <2>5. ~Starts(a, m, c)
      BY <2>2 DEF Starts
    <2> QED
      BY <1>1, <2>1, <2>4, <2>5, SubworkflowMoves DEF Details, Tree
  <1>7. CASE row[c] # "SUCCESS" /\ row' = [row EXCEPT ![c] = "RUNNING"] /\ f.depth < MaxDepth
             /\ frame' = [frame EXCEPT ![a][m] = [f EXCEPT !.pc = "wait"],
                                       ![a][c] = Started(c, c, f.depth + 1)]
    <2>1. Moves(a, m) => FALSE
      <3>1. c # m
        BY <1>1, <1>2, <1>3, NotBegun DEF Tree
      <3>2. frame'[a][m] = [f EXCEPT !.pc = "wait"]
        BY <1>4, <1>7, <3>1 DEF TypeOK
      <3>3. frame'[a][m].pc = "wait"
        BY <3>2, FrameIs DEF Frame
      <3> QED
        BY <3>3 DEF Moves, GoesOn, IteratesOn, Ends, IsRecorded
    <2>2. Starts(a, m, c)
      BY <2>1, SubworkflowMoves DEF Tree
    <2>3. row \in [Runs -> Statuses]
      BY DEF TypeOK, Statuses
    <2> HIDE DEF c
    <2>4. Begins(c)
      BY <1>1, <1>4, <1>7, <2>3 DEF Begins
    <2> QED BY <2>2, <2>4 DEF c
  <1> QED BY <1>5, <1>6, <1>7

\* A subworkflow node whose child is over, or that has timed out.
LEMMA ChildDetails ==
    ASSUME TypeOK, Tree, NEW a \in Tries, NEW m \in Runs,
           SubworkflowReturns(a, m) \/ SubworkflowBreaks(a, m) \/ SubworkflowTimesOut(a, m)
    PROVE  Details(a, m)
  <1> DEFINE f == frame[a][m]
             c == Child(a, m)
             g == frame'[a][m]
  <1>1. /\ f.pc = "wait" /\ Here(a, m).kind = "subworkflow" /\ UNCHANGED <<row, saved, effects>>
        /\ \/ Becomes(a, m, NodeFailed(m, f))
           \/ row[c] = "SUCCESS" /\ Succeeds(a, m)
    BY DEF SubworkflowReturns, SubworkflowBreaks, SubworkflowTimesOut, SubworkflowWaits, At
  <1>2. /\ f.at \in NodesOf(m) /\ f.item \in Items(m, f.at) /\ c = Kid(m, f.at, f.item) /\ ~f.failed
        /\ Plan[m][f.at].kind = "subworkflow"
    BY <1>1, WaitsFor DEF At, Here
  <1>3. Items(m, f.at) = {1}
    <2>1. Len(Plan[m][f.at].children) = 1
      BY <1>2, PlanTypes
    <2>2. 1 .. 1 = {1}
      OBVIOUS
    <2> QED BY <2>1, <2>2 DEF Items
  <1>4. Quiet(a, m)
    BY <1>1 DEF Quiet, At
  <1>5. CASE Becomes(a, m, NodeFailed(m, f))
    BY <1>1, <1>2, <1>4, <1>5, FailedAccounts DEF Details
  <1>6. CASE row[c] = "SUCCESS" /\ Succeeds(a, m)
    <2>1. \A k \in Items(m, f.at) : row'[Kid(m, f.at, k)] = "SUCCESS"
      BY <1>1, <1>2, <1>3, <1>6
    <2>2. g.pc = "loop"
      BY <1>2, <1>6, GoesOnFrame
    <2>3. ASSUME NEW i \in NodesOf(m), NEW k \in Items(m, i), i = f.at
          PROVE  Resolved(a, m, i, k)'
      <3>1. row'[Kid(m, i, k)] = "SUCCESS"
        BY <2>1, <2>3
      <3> QED BY <3>1 DEF Resolved, Good, Kid
    <2>4. Accounts(a, m)
      BY <1>2, <2>2, <2>3 DEF Accounts
    <2> QED
      BY <1>1, <1>4, <2>4 DEF Details
  <1> QED
    BY <1>1, <1>5, <1>6

\* Every step, with what it does to the rows.
LEMMA DetailedForms ==
    ASSUME TypeOK, Tree, [Next]_vars
    PROVE  \/ Stays /\ Same
           \/ Takes /\ Same /\ row[Root] = "RUNNING"
           \/ \E a \in Tries, m \in Runs : Moves(a, m) /\ Details(a, m)
           \/ \E a \in Tries, m \in Runs : \E c \in Runs : Starts(a, m, c) /\ Begins(c)
  <1>1. CASE TakeJob
    BY <1>1, TakeJobTakes DEF Tree, TakeJob, Same
  <1>2. CASE UNCHANGED vars
    BY <1>2 DEF vars, Stays, Same
  <1>3. ASSUME NEW a \in Tries, NEW m \in Runs, Work(a, m) \/ Adversity(a, m)
        PROVE  \/ Moves(a, m) /\ Details(a, m)
               \/ \E c \in Runs : Starts(a, m, c) /\ Begins(c)
    <2>1. CASE Overflow(a, m) \/ Blip(a, m) \/ Finish(a, m)
      BY <2>1, OverflowMoves, BlipMoves, FinishMoves, EndsDetails, BlipDetails DEF Tree
    <2>6. CASE Record(a, m) \/ CloseThrows(a, m) \/ Mark(a, m) \/ MarkThrows(a, m)
      BY <2>6, RecordMoves, RecordDetails DEF Tree
    <2>2. CASE Pass(a, m) \/ Act(a, m) \/ NodeFails(a, m) \/ Iterator(a, m) \/ IteratorDone(a, m)
      BY <2>2, PassMoves, IteratorMoves, IteratorDoneMoves, LeafDetails, FailsDetails, IteratorDetails
         DEF Tree
    <2>3. CASE IterationReturns(a, m) \/ SubworkflowReturns(a, m) \/ SubworkflowBreaks(a, m)
               \/ SubworkflowTimesOut(a, m)
      BY <2>3, IterationMoves, ReturnsMoves, TimesOutMoves, ReturnDetails, ChildDetails DEF Tree
    <2>4. Starts(a, m, Child(a, m)) => Child(a, m) \in Runs
      BY PlanTypes DEF Starts
    <2>5. CASE Iterate(a, m) \/ Subworkflow(a, m)
      BY <2>4, <2>5, IterateDetails, SubworkflowDetails
    <2> QED
      BY <1>3, <2>1, <2>2, <2>3, <2>5, <2>6 DEF Work, Adversity
  <1> QED
    BY <1>1, <1>2, <1>3 DEF Next, Idle

\* The row of a subworkflow's child that a failed node leaves.
LEMMA NotedChild ==
    ASSUME TypeOK, Tree, NEW a \in Tries, NEW m \in Runs, Noted(a, m)
    PROVE  /\ frame[a][m].pc = "loop" /\ frame[a][m].item \in Items(m, frame[a][m].at)
           /\ Child(a, m) = Kid(m, frame[a][m].at, frame[a][m].item)
           /\ Child(a, m) \in Runs /\ Child(a, m) # Root
  <1> DEFINE f == frame[a][m]
  <1>1. f.pc = "loop" /\ f.at \in NodesOf(m) /\ Plan[m][f.at].kind = "subworkflow" /\ f.item = 1
    BY DEF Noted, At, Here, Tree, Shape, Shaped
  <1>2. Len(Plan[m][f.at].children) = 1
    BY <1>1, PlanTypes
  <1>3. f.item \in Items(m, f.at)
    <2>1. 1 \in 1 .. 1
      OBVIOUS
    <2> QED BY <1>1, <1>2, <2>1 DEF Items
  <1> QED
    BY <1>1, <1>3, ChildIs

-----------------------------------------------------------------------------------
(* The root after an overflow                                                      *)

\* Only the last attempt's root is under way, and where it ended as FATAL its row says so.
Doomed ==
    /\ \A a \in Tries : a < attempt => At(a, Root, "over")
    /\ \A a \in Tries : frame[a][Root].result = "FATAL" =>
          a = attempt /\ (At(a, Root, "over") => row[Root] = "FAILED")

\* The step of another run leaves the root's row alone.
LEMMA RootsRow ==
    ASSUME TypeOK, Tree, NEW a \in Tries, NEW m \in Runs, Details(a, m), m # Root
    PROVE  row'[Root] = row[Root]
  <1>0. row \in [Runs -> Statuses] /\ Root \in Runs
    BY PlanTypes DEF TypeOK, Statuses
  <1>1. CASE Quiet(a, m)
    BY <1>1 DEF Quiet
  <1>2. CASE Recorded(a, m)
    BY <1>0, <1>2 DEF Recorded
  <1>3. CASE Returned(a, m)
    <2>1. Child(a, m) # Root
      BY <1>3, WaitsFor DEF Returned
    <2> QED BY <1>0, <1>3, <2>1 DEF Returned
  <1>4. CASE Noted(a, m)
    <2>1. Child(a, m) # Root
      BY <1>4, NotedChild
    <2> QED BY <1>0, <1>4, <2>1 DEF Noted
  <1> QED
    BY <1>1, <1>2, <1>3, <1>4 DEF Details

\* The root's own move.
LEMMA RootMoves ==
    ASSUME TypeOK, Tree, Doomed, NEW a \in Tries, Moves(a, Root), Details(a, Root)
    PROVE  Doomed'
  <1> DEFINE f == frame[a][Root]
             g == frame'[a][Root]
  <1>0. Root \in Runs /\ attempt \in Nat /\ a \in Nat
    BY PlanTypes DEF TypeOK, Tries
  <1>1. /\ Active(a, Root) /\ attempt' = attempt /\ Shaped(a, Root)
        /\ \A x \in Tries : x # a => frame'[x][Root] = frame[x][Root]
    BY <1>0, MovesIs DEF Tree, Shape
  <1>2. a = attempt
    <2>1. ~(a < attempt)
      BY <1>1 DEF Doomed, Active, At
    <2>2. ~(a > attempt)
      BY <1>1 DEF Shaped, Active
    <2> QED BY <1>0, <2>1, <2>2
  <1>3. f.budget = Root
    BY <1>0, <1>1 DEF Tree, Owned, Active
  <1>4. ASSUME g.result = "FATAL", g.pc = "over"
        PROVE  row'[Root] = "FAILED"
    <2>1. IsRecorded(Root, f, g)
      BY <1>3, <1>4 DEF Moves, GoesOn, IteratesOn, Ends
    <2>2. f.pc = "record" /\ f.result = "FATAL"
      BY <1>1, <1>4, <2>1 DEF IsRecorded, Shaped
    <2>3. Recorded(a, Root)
      BY <1>4, <2>2 DEF Details, Quiet, Returned, Noted, At
    <2>4. row'[Root] = Verdict(a, Root)
      BY <1>0, <2>3 DEF Recorded, TypeOK
    <2> QED
      BY <2>2, <2>4 DEF Verdict, At, Closing
  <1>5. ASSUME NEW x \in Tries, x < attempt'
        PROVE  At(x, Root, "over")'
    <2>1. x < attempt /\ x # a
      BY <1>0, <1>1, <1>2, <1>5
    <2>2. At(x, Root, "over")
      BY <2>1 DEF Doomed
    <2> QED BY <1>1, <2>1, <2>2 DEF At
  <1>6. ASSUME NEW x \in Tries, frame'[x][Root].result = "FATAL"
        PROVE  x = attempt' /\ (At(x, Root, "over")' => row'[Root] = "FAILED")
    <2>1. CASE x = a
      BY <1>1, <1>2, <1>4, <1>6, <2>1 DEF At
    <2>2. CASE x # a
      BY <1>1, <1>2, <1>6, <2>2 DEF Doomed
    <2> QED BY <2>1, <2>2
  <1> QED
    BY <1>5, <1>6 DEF Doomed

\* The root of an earlier attempt is over, and an overflow of its own is the last word.
LEMMA DoomedStep ==
    ASSUME TypeOK, Tree, Doomed, [Next]_vars
    PROVE  Doomed'
  <1>0. Root \in Runs /\ attempt \in Nat
    BY PlanTypes DEF TypeOK
  <1>1. CASE Stays /\ Same
    BY <1>1 DEF Stays, Same, Doomed, At
  <1>2. CASE Takes /\ Same /\ row[Root] = "RUNNING"
    <2>1. PICK n \in Tries : n = attempt + 1 /\ attempt' = n
      BY <1>2 DEF Takes
    <2>2. \A b \in Tries : b # n => frame'[b][Root] = frame[b][Root]
      BY <1>0, <1>2, <2>1 DEF Takes, Others
    <2>3. frame'[n][Root].result = "none"
      BY <1>2, <2>1 DEF Takes
    <2>4. attempt \in Tries => At(attempt, Root, "over")
      BY <1>2 DEF Takes
    <2>5. ASSUME NEW x \in Tries, x < attempt'
          PROVE  At(x, Root, "over")'
      <3>1. x # n /\ (x < attempt \/ x = attempt)
        BY <1>0, <2>1, <2>5 DEF Tries
      <3>2. At(x, Root, "over")
        BY <2>4, <3>1 DEF Doomed
      <3> QED BY <2>2, <3>1, <3>2 DEF At
    <2>6. ASSUME NEW x \in Tries
          PROVE  frame'[x][Root].result # "FATAL"
      <3>1. CASE x = n
        BY <2>3, <3>1
      <3>2. CASE x # n
        <4> SUFFICES ASSUME frame[x][Root].result = "FATAL" PROVE FALSE
          BY <2>2, <3>2
        <4>1. x = attempt /\ (At(x, Root, "over") => row[Root] = "FAILED")
          BY DEF Doomed
        <4> QED BY <1>2, <2>4, <4>1
      <3> QED BY <3>1, <3>2
    <2> QED BY <2>5, <2>6 DEF Doomed
  <1>3. ASSUME NEW a \in Tries, NEW m \in Runs, Moves(a, m), Details(a, m)
        PROVE  Doomed'
    <2>1. CASE m = Root
      BY <1>3, <2>1, RootMoves
    <2>2. CASE m # Root
      <3>1. attempt' = attempt /\ row'[Root] = row[Root]
            /\ \A x \in Tries : frame'[x][Root] = frame[x][Root]
        BY <1>0, <1>3, <2>2, MovesIs, RootsRow
      <3> QED BY <3>1 DEF Doomed, At
    <2> QED BY <2>1, <2>2
  <1>4. ASSUME NEW a \in Tries, NEW m \in Runs, NEW d \in Runs, Starts(a, m, d), Begins(d)
        PROVE  Doomed'
    <2>1. d # Root /\ row'[Root] = row[Root] /\ attempt' = attempt
      BY <1>0, <1>4, StartLeaves DEF Begins
    <2>2. ASSUME NEW x \in Tries
          PROVE  /\ frame'[x][Root].pc = "over" <=> frame[x][Root].pc = "over"
                 /\ frame'[x][Root].result = frame[x][Root].result
      <3>1. frame'[x][Root].pc = "over" <=> frame[x][Root].pc = "over"
        BY <1>0, <1>4, <2>1, StartLeaves
      <3>2. CASE x # a \/ m # Root
        <4>1. frame'[x][Root] = frame[x][Root]
          BY <1>0, <1>4, <2>1, <3>2, StartLeaves
        <4> QED BY <4>1
      <3>3. CASE x = a /\ m = Root
        <4>1. frame'[a][m].result = "none" /\ frame[a][m].pc \in {"loop", "iterate"} /\ Shaped(a, m)
          BY <1>4 DEF Starts, Tree, Shape
        <4>2. frame[a][m].result = "none"
          BY <4>1 DEF Shaped
        <4> QED BY <3>1, <3>3, <4>1, <4>2
      <3> QED BY <3>1, <3>2, <3>3
    <2> QED BY <2>1, <2>2 DEF Doomed, At
  <1> QED
    BY <1>1, <1>2, <1>3, <1>4, DetailedForms

\* A blown step budget (StepBudget, EngineService.run) is never masked by an iterator that
\* continues on errors: the run that minted it does not succeed, and the job is not tried
\* again for the one that the root minted, unless recording the failure threw.
THEOREM OverflowsAreFatal == Spec => []OverflowIsFatal
  <1>1. Init => AllAborting /\ Doomed
    BY PlanTypes DEF Init, Off, AllAborting, Aborting, Doomed, Tries
  <1>2. TypeOK /\ Tree /\ (AllAborting /\ Doomed) /\ [Next]_vars => (AllAborting /\ Doomed)'
    BY AbortingStep, DoomedStep
  <1>3. AllAborting /\ Doomed => OverflowIsFatal
    BY DEF AllAborting, Aborting, Doomed, Blown, OverflowIsFatal
  <1> QED
    BY <1>1, <1>2, <1>3, TreeStands, PTL DEF Spec

-----------------------------------------------------------------------------------
(* Rows that stay RUNNING                                                          *)

\* The attempt that accounts for a row that is RUNNING.
Waited(a, c) == \E p \in Runs : AwaitedBy(a, p, c) /\ Here(a, p).kind = "iterator"
Witness(a, c) ==
    \/ Active(a, c) \/ BrokeOff(a, c) \/ Waited(a, c)
    \/ \E p \in Runs : Below(c, p) /\ BrokeOff(a, p)
Orphaned(c) == c # Root /\ row[c] = "RUNNING" => \E a \in Tries : Witness(a, c)
AllOrphaned == \A c \in Runs : Orphaned(c)

\* A run that broke off stays so.
LEMMA BrokenStays ==
    ASSUME TypeOK, Tree, NEW a \in Tries, NEW m \in Runs,
           Moves(a, m) \/ \E d \in Runs : Starts(a, m, d),
           NEW x \in Tries, NEW r \in Runs, BrokeOff(x, r)
    PROVE  BrokeOff(x, r)'
  <1>1. Shaped(x, r) /\ frame[x][r].result \in {"ABORTED", "CRASHED", "LOST"}
    BY DEF Tree, Shape, BrokeOff
  <1>2. frame[x][r].pc \notin {"off", "loop", "iterate", "wait", "record"}
    BY <1>1 DEF Shaped
  <1>3. CASE Moves(a, m)
    <2>1. CASE x = a /\ r = m
      <3>1. IsRecorded(m, frame[a][m], frame'[a][m])
        BY <1>2, <1>3, <2>1 DEF Moves, GoesOn, IteratesOn, Ends
      <3> QED
        BY <1>1, <1>2, <2>1, <3>1 DEF IsRecorded, BrokeOff
    <2>2. CASE x # a \/ r # m
      <3>1. frame'[x][r] = frame[x][r]
        BY <1>3, <2>2, MovesIs
      <3> QED BY <3>1 DEF BrokeOff
    <2> QED BY <2>1, <2>2
  <1>4. ASSUME NEW d \in Runs, Starts(a, m, d)
        PROVE  BrokeOff(x, r)'
    <2>1. frame[a][m].pc \in {"loop", "iterate"} /\ frame[a][d].pc = "off"
      BY <1>4, StartLeaves
    <2>2. x # a \/ r \notin {m, d}
      BY <1>2, <2>1
    <2>3. frame'[x][r] = frame[x][r]
      BY <1>4, <2>2, StartLeaves
    <2> QED BY <2>3 DEF BrokeOff
  <1> QED BY <1>3, <1>4

\* A witness whose frames a step leaves alone stays one.
LEMMA WitnessStays ==
    ASSUME TypeOK, Tree, NEW a \in Tries, NEW c \in Runs, Witness(a, c),
           Active(a, c) => Active(a, c)',
           \A p \in Runs : BrokeOff(a, p) => BrokeOff(a, p)',
           \A p \in Runs : AwaitedBy(a, p, c) => frame'[a][p] = frame[a][p]
    PROVE  Witness(a, c)'
  <1>1. CASE Active(a, c) \/ BrokeOff(a, c)
    BY <1>1 DEF Witness
  <1>2. ASSUME NEW p \in Runs, AwaitedBy(a, p, c), Here(a, p).kind = "iterator"
        PROVE  Witness(a, c)'
    <2>1. frame'[a][p] = frame[a][p]
      BY <1>2
    <2>2. (AwaitedBy(a, p, c) /\ Here(a, p).kind = "iterator")'
      BY <1>2, <2>1 DEF AwaitedBy, At, Child, Here
    <2> QED BY <2>2 DEF Witness, Waited
  <1>3. ASSUME NEW p \in Runs, Below(c, p), BrokeOff(a, p)
        PROVE  Witness(a, c)'
    <2>1. Below(c, p)' /\ BrokeOff(a, p)'
      BY <1>3 DEF Below, NodesOf
    <2> QED BY <2>1 DEF Witness
  <1> QED
    BY <1>1, <1>2, <1>3 DEF Witness, Waited

\* Whom a run waits for is below it.
LEMMA WaitedIsBelow ==
    ASSUME TypeOK, Tree, NEW a \in Tries, NEW p \in Runs, At(a, p, "wait")
    PROVE  Below(Child(a, p), p)
  <1>1. /\ frame[a][p].at \in NodesOf(p) /\ frame[a][p].item \in Items(p, frame[a][p].at)
        /\ Child(a, p) = Kid(p, frame[a][p].at, frame[a][p].item)
    BY WaitsFor
  <1> QED
    BY <1>1 DEF Below, Items, Kid

\* A row still RUNNING after a move keeps the run, the error or the parent it had.
LEMMA MovesWitness ==
    ASSUME TypeOK, Tree, NEW a \in Tries, NEW m \in Runs, Moves(a, m), Details(a, m),
           NEW x \in Tries, NEW c \in Runs, Witness(x, c), c # Root, row'[c] = "RUNNING"
    PROVE  Witness(x, c)'
  <1>1. /\ Active(a, m)
        /\ \A q \in Tries, y \in Runs : (q # a \/ y # m) => frame'[q][y] = frame[q][y]
        /\ \A q \in Tries, y \in Runs : BrokeOff(q, y) => BrokeOff(q, y)'
    BY MovesIs, BrokenStays
  <1>2. row \in [Runs -> Statuses]
    BY DEF TypeOK, Statuses
  <1>3. ASSUME x = a, AwaitedBy(a, m, c), Here(a, m).kind = "iterator"
        PROVE  Witness(x, c)'
    <2>1. Child(a, m) = c /\ frame[a][m].pc = "wait"
      BY <1>3 DEF AwaitedBy, At
    <2>2. ~Recorded(a, m) /\ ~Noted(a, m)
      BY <2>1 DEF Recorded, Noted, At
    <2>3. ~Returned(a, m)
      BY <1>2, <2>1 DEF Returned, Outcome
    <2>4. frame[a][c].result \in Threw \/ frame'[a][m].result \in Threw
      BY <1>3, <2>1, <2>2, <2>3 DEF Details, Quiet, At
    <2>5. Below(c, m)'
      <3>1. Below(c, m)
        BY <2>1, WaitedIsBelow DEF At
      <3> QED BY <3>1 DEF Below, NodesOf
    <2>6. BrokeOff(a, c)' \/ BrokeOff(a, m)'
      BY <1>1, <2>4 DEF BrokeOff, Threw
    <2> QED
      BY <1>3, <2>5, <2>6 DEF Witness
  <1>4. ASSUME x = a, c = m
        PROVE  Witness(x, c)'
    <2>1. CASE frame[a][m].pc \in {"record", "mark"}
      <3>1. ~Recorded(a, m)
        <4> SUFFICES ASSUME Recorded(a, m) PROVE FALSE
          OBVIOUS
        <4>1. row'[m] = Verdict(a, m)
          BY <1>2 DEF Recorded
        <4> QED BY <1>4, <4>1 DEF Verdict, Closing
      <3>2. Quiet(a, m)
        BY <2>1, <3>1 DEF Details, Returned, Noted, At
      <3>3. frame'[a][m].pc = "mark" \/ frame'[a][m].result = "LOST"
        BY <1>4, <2>1, <3>2 DEF Quiet
      <3>4. Active(a, m)' \/ BrokeOff(a, m)'
        BY <3>3 DEF Active, BrokeOff
      <3> QED BY <1>4, <3>4 DEF Witness
    <2>2. CASE GoesOn(m, frame[a][m], frame'[a][m]) \/ IteratesOn(m, frame[a][m], frame'[a][m])
      <3>1. Active(a, m)'
        BY <2>2 DEF GoesOn, IteratesOn, Active
      <3> QED BY <1>4, <3>1 DEF Witness
    <2>3. CASE Ends(m, frame[a][m], frame'[a][m]) /\ frame[a][m].budget = m
      <3>1. Active(a, m)'
        BY <2>3 DEF Ends, Active
      <3> QED BY <1>4, <3>1 DEF Witness
    <2>4. CASE frame[a][m].budget # m
      <3>1. PICK p \in Runs : At(a, p, "wait") /\ Child(a, p) = m /\ p # m /\ Here(a, p).kind = "iterator"
        BY <1>1, <2>4, IterationsParent
      <3>2. frame'[a][p] = frame[a][p]
        BY <1>1, <3>1
      <3>3. (AwaitedBy(a, p, m) /\ Here(a, p).kind = "iterator")'
        BY <3>1, <3>2 DEF AwaitedBy, At, Child, Here
      <3> QED BY <1>4, <3>3 DEF Witness, Waited
    <2> QED
      BY <2>1, <2>2, <2>3, <2>4 DEF Moves, IsRecorded
  <1>5. ASSUME x = a, c # m
        PROVE  Witness(x, c)'
    <2>1. frame'[a][c] = frame[a][c]
      BY <1>1, <1>5
    <2>2. Active(a, c) => Active(a, c)'
      BY <2>1 DEF Active
    <2>3. CASE AwaitedBy(a, m, c) /\ Here(a, m).kind = "iterator"
      BY <1>3, <1>5, <2>3
    <2>4. CASE AwaitedBy(a, m, c) /\ Here(a, m).kind # "iterator"
      <3>1. ASSUME NEW p \in Runs, AwaitedBy(a, p, c), Here(a, p).kind = "iterator"
            PROVE  FALSE
        <4>1. p = m
          BY <2>4, <3>1, OneWaits DEF AwaitedBy
        <4> QED BY <2>4, <3>1, <4>1
      <3>2. ASSUME NEW p \in Runs, Below(c, p), BrokeOff(a, p)
            PROVE  Below(c, p)' /\ BrokeOff(a, p)'
        BY <1>1, <3>2 DEF Below, NodesOf
      <3>3. CASE Active(a, c) \/ BrokeOff(a, c)
        BY <1>1, <1>5, <2>2, <3>3 DEF Witness
      <3>4. CASE \E p \in Runs : Below(c, p) /\ BrokeOff(a, p)
        BY <1>5, <3>2, <3>4 DEF Witness
      <3> QED BY <1>5, <3>1, <3>3, <3>4 DEF Witness, Waited
    <2>5. CASE ~AwaitedBy(a, m, c)
      <3>1. \A p \in Runs : AwaitedBy(a, p, c) => frame'[a][p] = frame[a][p]
        BY <1>1, <2>5
      <3> QED BY <1>1, <1>5, <2>2, <3>1, WitnessStays
    <2> QED
      BY <2>3, <2>4, <2>5
  <1>6. ASSUME x # a
        PROVE  Witness(x, c)'
    <2>1. \A y \in Runs : frame'[x][y] = frame[x][y]
      BY <1>1, <1>6
    <2>2. Active(x, c) => Active(x, c)'
      BY <2>1 DEF Active
    <2> QED
      BY <1>1, <2>1, <2>2, WitnessStays
  <1> QED
    BY <1>4, <1>5, <1>6

\* Every row that is RUNNING has one, in some attempt.
LEMMA OrphanedStep ==
    ASSUME TypeOK, Tree, AllOrphaned, [Next]_vars
    PROVE  AllOrphaned'
  <1> SUFFICES ASSUME NEW c \in Runs, c # Root, row'[c] = "RUNNING"
               PROVE  \E x \in Tries : Witness(x, c)'
    BY DEF AllOrphaned, Orphaned
  <1>1. row[c] = "RUNNING" => \E x \in Tries : Witness(x, c)
    BY DEF AllOrphaned, Orphaned
  <1>2. row \in [Runs -> Statuses]
    BY DEF TypeOK, Statuses
  <1>3. CASE Stays /\ Same
    <2>1. frame' = frame /\ row[c] = "RUNNING"
      BY <1>3 DEF Stays, Same
    <2>2. PICK x \in Tries : Witness(x, c)
      BY <1>1, <2>1
    <2>3. Witness(x, c)'
      BY <2>1, <2>2 DEF Witness, Waited, AwaitedBy, Active, At, Child, Here, BrokeOff, Below, NodesOf
    <2> QED BY <2>3
  <1>4. CASE Takes /\ Same
    <2>1. PICK n \in Tries : n = attempt + 1
      BY <1>4 DEF Takes
    <2>2. \A b \in Tries, q \in Runs : (b # n \/ q # Root) => frame'[b][q] = frame[b][q]
      BY <1>4, <2>1 DEF Takes, Others
    <2>3. PICK x \in Tries : Witness(x, c)
      BY <1>1, <1>4 DEF Same
    <2>4. \A q \in Runs : frame[n][q].pc = "off" /\ frame[n][q].result = "none"
      <3> SUFFICES ASSUME NEW q \in Runs PROVE frame[n][q].pc = "off" /\ frame[n][q].result = "none"
        OBVIOUS
      <3>1. Shaped(n, q) /\ n > attempt
        BY <2>1 DEF Tree, Shape, TypeOK
      <3> QED BY <3>1 DEF Shaped
    <2>5. x # n
      BY <2>3, <2>4 DEF Witness, Waited, Active, AwaitedBy, At, BrokeOff
    <2>6. \A q \in Runs : frame'[x][q] = frame[x][q]
      BY <2>2, <2>5
    <2>7. /\ Active(x, c) => Active(x, c)'
          /\ \A q \in Runs : BrokeOff(x, q) => BrokeOff(x, q)'
      BY <2>6 DEF Active, BrokeOff
    <2>8. Witness(x, c)'
      BY <2>3, <2>6, <2>7, WitnessStays
    <2> QED BY <2>8
  <1>5. ASSUME NEW a \in Tries, NEW m \in Runs, Moves(a, m), Details(a, m)
        PROVE  \E x \in Tries : Witness(x, c)'
    <2>1. row[c] = "RUNNING"
      <3>1. CASE Quiet(a, m)
        BY <3>1 DEF Quiet
      <3>2. CASE Recorded(a, m)
        <4>1. c # m
          BY <1>2, <3>2 DEF Recorded, Verdict, Closing
        <4> QED BY <1>2, <3>2, <4>1 DEF Recorded
      <3>3. CASE Returned(a, m)
        <4>1. c # Child(a, m)
          BY <1>2, <3>3 DEF Returned, Outcome
        <4> QED BY <1>2, <3>3, <4>1 DEF Returned
      <3>4. CASE Noted(a, m)
        <4>1. c # Child(a, m)
          BY <1>2, <3>4 DEF Noted
        <4> QED BY <1>2, <3>4, <4>1 DEF Noted
      <3> QED BY <1>5, <3>1, <3>2, <3>3, <3>4 DEF Details
    <2>2. PICK x \in Tries : Witness(x, c)
      BY <1>1, <2>1
    <2>3. Witness(x, c)'
      BY <1>5, <2>2, MovesWitness
    <2> QED BY <2>3
  <1>6. ASSUME NEW a \in Tries, NEW m \in Runs, NEW d \in Runs, Starts(a, m, d), Begins(d)
        PROVE  \E x \in Tries : Witness(x, c)'
    <2>1. CASE c = d
      <3>1. At(a, m, "wait")' /\ Child(a, m)' = d
        BY <1>6, StartLeaves
      <3>2. CASE frame[a][m].pc = "loop"
        <4>1. frame'[a][d].pc = "loop"
          BY <1>6, <3>2 DEF Starts
        <4>2. Active(a, d)'
          BY <4>1 DEF Active
        <4> QED BY <2>1, <4>2 DEF Witness
      <3>3. CASE frame[a][m].pc # "loop"
        <4>1. Plan[m][frame[a][m].at].kind = "iterator" /\ frame'[a][m].at = frame[a][m].at
          BY <1>6, <3>3 DEF Starts
        <4>2. Here(a, m)'.kind = "iterator"
          BY <4>1 DEF Here
        <4>3. (AwaitedBy(a, m, d) /\ Here(a, m).kind = "iterator")'
          BY <3>1, <4>2 DEF AwaitedBy
        <4> QED BY <2>1, <4>3 DEF Witness, Waited
      <3> QED BY <3>2, <3>3
    <2>2. CASE c # d
      <3>1. row[c] = "RUNNING"
        BY <1>6, <2>2 DEF Begins
      <3>2. PICK x \in Tries : Witness(x, c)
        BY <1>1, <3>1
      <3>3. Active(x, c) => Active(x, c)'
        BY <1>6, <2>2, StartLeaves
      <3>4. \A q \in Runs : BrokeOff(x, q) => BrokeOff(x, q)'
        BY <1>6, BrokenStays
      <3>5. ASSUME NEW p \in Runs, AwaitedBy(x, p, c)
            PROVE  frame'[x][p] = frame[x][p]
        <4>1. At(x, p, "wait")
          BY <3>5 DEF AwaitedBy
        <4>2. x # a \/ p # d
          BY <1>6, <4>1, StartLeaves DEF At
        <4> QED BY <1>6, <4>1, <4>2, StartLeaves
      <3>6. Witness(x, c)'
        BY <3>2, <3>3, <3>4, <3>5, WitnessStays
      <3> QED BY <3>6
    <2> QED BY <2>1, <2>2
  <1> QED
    BY <1>3, <1>4, <1>5, <1>6, DetailedForms

\* The row of a child execution is RUNNING only where its run is under way, where its parent
\* is about to settle it, or where in some attempt an error unwound it or the run above it, or
\* its last update (EngineService.markFailed) was lost.
THEOREM OrphansUnwound == Spec => []OrphansWereUnwound
  <1>1. Init => AllOrphaned
    BY DEF Init, AllOrphaned, Orphaned
  <1>2. TypeOK /\ Tree /\ AllOrphaned /\ [Next]_vars => AllOrphaned'
    BY OrphanedStep
  <1>3. TypeOK /\ Tree /\ AllOrphaned => OrphansWereUnwound
    <2> SUFFICES ASSUME TypeOK, Tree, AllOrphaned, NEW c \in Runs \ {Root}, row[c] = "RUNNING"
                 PROVE  \E a \in Tries :
                           \/ Active(a, c) \/ BrokeOff(a, c)
                           \/ \E r \in Runs : /\ Below(c, r)
                                              /\ BrokeOff(a, r) \/ (At(a, r, "wait") /\ Child(a, r) = c)
      BY DEF OrphansWereUnwound
    <2>1. PICK a \in Tries : Witness(a, c)
      BY DEF AllOrphaned, Orphaned
    <2>2. ASSUME NEW p \in Runs, AwaitedBy(a, p, c)
          PROVE  Below(c, p) /\ At(a, p, "wait") /\ Child(a, p) = c
      BY <2>2, WaitedIsBelow DEF AwaitedBy
    <2> QED
      BY <2>1, <2>2 DEF Witness, Waited
  <1> QED
    BY <1>1, <1>2, <1>3, TreeStands, PTL DEF Spec

-----------------------------------------------------------------------------------
(* What the executions keep where nothing was left behind                          *)

\* An action took effect once where its row says so, and not otherwise.
Counted(r) == \A i \in NodesOf(r) : effects[r][i] = IF i \in saved[r] THEN 1 ELSE 0

\* A run on its way knows every saved step ahead of it, has not succeeded before, and does
\* not wait for an item that had.
Knowing(a, r) ==
    Active(a, r) =>
        /\ \A i \in saved[r] : i \in frame[a][r].reuse \/ i < frame[a][r].at
        /\ row[r] # "SUCCESS"
        /\ At(a, r, "wait") /\ Here(a, r).kind = "iterator" => row[Child(a, r)] # "SUCCESS"

\* All below the nodes that a run of the last attempt has reached and left behind is resolved,
\* where the run has not failed.
Behind(f, i, k) == i < f.at \/ (i = f.at /\ k < f.item)
Progress(a, r) ==
    LET f == frame[a][r] IN
    a = attempt /\ f.pc # "off" /\ ~f.failed /\ f.result \in {"none", "SUCCESS"} =>
        \A i \in NodesOf(r) : \A k \in Items(r, i) :
            i \in f.reached /\ Behind(f, i, k) => Resolved(a, r, i, k)

\* All below the nodes that it reached is resolved where a run succeeded.
DeepBy(a, r) ==
    /\ At(a, r, "over") /\ frame[a][r].result = "SUCCESS"
    /\ \A i \in NodesOf(r) : \A k \in Items(r, i) : i \in frame[a][r].reached => Resolved(a, r, i, k)
Deep(r) == row[r] = "SUCCESS" => \E a \in Tries : DeepBy(a, r)

\* An item of an iterator that errors end has a row where those ahead of it succeeded.
InOrder(r) ==
    \A i \in NodesOf(r) : Plan[r][i].kind = "iterator" /\ ~Plan[r][i].continueOnError =>
        \A k \in Items(r, i), j \in Items(r, i) :
            j < k /\ row[Kid(r, i, k)] # "none" => row[Kid(r, i, j)] = "SUCCESS"

Kept ==
    timeouts = 0 =>
        /\ \A r \in Runs : Counted(r) /\ Deep(r) /\ InOrder(r)
        /\ \A a \in Tries, r \in Runs : Knowing(a, r) /\ Progress(a, r)

\* A step of a run.
Mover(a, m) ==
    \/ Moves(a, m) /\ Details(a, m)
    \/ \E d \in Runs : Starts(a, m, d) /\ Begins(d)

\* Whose rows it writes.
LEMMA RowChanges ==
    ASSUME TypeOK, Tree, NEW a \in Tries, NEW m \in Runs, Mover(a, m), NEW c \in Runs, row'[c] # row[c]
    PROVE  \/ /\ c = m /\ frame[a][m].pc \in {"record", "mark"} /\ row'[c] = Verdict(a, m)
              /\ frame'[a][m].pc = "over" /\ frame'[a][m].result = frame[a][m].result
           \/ /\ At(a, m, "wait") /\ Here(a, m).kind = "iterator" /\ c = Child(a, m)
              /\ At(a, c, "over") /\ row'[c] = Outcome(frame[a][c].result)
           \/ /\ frame[a][m].pc \in {"loop", "iterate"} /\ ~frame[a][m].failed
              /\ frame[a][m].at \in NodesOf(m) /\ frame[a][m].item \in Items(m, frame[a][m].at)
              /\ frame[a][m].at \in frame[a][m].reached
              /\ c = Kid(m, frame[a][m].at, frame[a][m].item)
              /\ row[c] # "SUCCESS" /\ row'[c] \in {"PENDING", "RUNNING", "FAILED"}
           \/ /\ frame[a][m].pc = "loop" /\ frame[a][m].at \in NodesOf(m)
              /\ Plan[m][frame[a][m].at].kind = "subworkflow"
              /\ frame[a][m].item \in Items(m, frame[a][m].at)
              /\ c = Kid(m, frame[a][m].at, frame[a][m].item)
              /\ row[c] = "none" /\ row'[c] = "PENDING"
  <1>0. row \in [Runs -> Statuses]
    BY DEF TypeOK, Statuses
  <1>1. CASE Moves(a, m) /\ Details(a, m)
    <2>1. CASE Quiet(a, m)
      BY <2>1 DEF Quiet
    <2>2. CASE Recorded(a, m)
      BY <1>0, <2>2 DEF Recorded
    <2>3. CASE Returned(a, m)
      <3>1. frame[a][m].pc = "wait" /\ Here(a, m).kind = "iterator" /\ c = Child(a, m)
            /\ row'[c] = Outcome(frame[a][c].result)
        BY <1>0, <2>3 DEF Returned, At
      <3>2. At(a, c, "over")
        BY <1>1, <3>1 DEF Moves
      <3> QED BY <3>1, <3>2 DEF At
    <2>4. CASE Noted(a, m)
      <3>1. c = Child(a, m) /\ row[c] = "none" /\ row'[c] = "PENDING"
        BY <1>0, <2>4 DEF Noted
      <3> QED BY <2>4, <3>1, NotedChild DEF Noted, Here
    <2> QED BY <1>1, <2>1, <2>2, <2>3, <2>4 DEF Details
  <1>2. ASSUME NEW d \in Runs, Starts(a, m, d), Begins(d)
        PROVE  /\ frame[a][m].pc \in {"loop", "iterate"} /\ ~frame[a][m].failed
               /\ frame[a][m].at \in NodesOf(m) /\ frame[a][m].item \in Items(m, frame[a][m].at)
               /\ frame[a][m].at \in frame[a][m].reached
               /\ c = Kid(m, frame[a][m].at, frame[a][m].item)
               /\ row[c] # "SUCCESS" /\ row'[c] \in {"PENDING", "RUNNING", "FAILED"}
    <2>1. c = d
      BY <1>2 DEF Begins
    <2> QED BY <1>2, <2>1 DEF Starts, Begins
  <1> QED
    BY <1>1, <1>2 DEF Mover

\* An item of an iterator does not own its budget.
LEMMA ItemsShare ==
    ASSUME TypeOK, Tree, NEW a \in Tries, NEW r \in Runs, NEW i \in NodesOf(r), NEW k \in Items(r, i),
           frame[a][Kid(r, i, k)].pc # "off", frame[a][Kid(r, i, k)].budget = Kid(r, i, k)
    PROVE  Plan[r][i].kind # "iterator"
  <1> SUFFICES ASSUME Plan[r][i].kind = "iterator" PROVE FALSE
    OBVIOUS
  <1>1. BegunBy(a, r, i, k) /\ Owned(a, r)
    BY DEF Tree, Begun
  <1>2. /\ frame[a][r].budget = Kid(r, i, k) /\ frame[a][r].pc # "off"
        /\ frame[a][Kid(r, i, k)].depth = frame[a][r].depth + 1
    BY <1>1 DEF BegunBy
  <1>3. frame[a][Kid(r, i, k)].depth <= frame[a][r].depth
    BY <1>1, <1>2 DEF Owned
  <1>4. frame[a][r].depth \in Nat
    BY FrameIs
  <1> QED
    BY <1>2, <1>3, <1>4

\* The run that moves is one of the last attempt.
LEMMA MoverIs ==
    ASSUME TypeOK, Tree, Kept, timeouts = 0, NEW a \in Tries, NEW m \in Runs, Mover(a, m)
    PROVE  /\ a = attempt /\ attempt' = attempt /\ Active(a, m) /\ row[m] # "SUCCESS"
           /\ Knowing(a, m) /\ Progress(a, m)
  <1>1. Active(a, m) /\ attempt' = attempt
    BY MovesIs, StartLeaves DEF Mover
  <1>2. Rooted(a, m) /\ Knowing(a, m) /\ Progress(a, m)
    BY DEF Tree, Kept
  <1> QED
    BY <1>1, <1>2 DEF Rooted, Knowing

\* A success stays one.
LEMMA SuccessStays ==
    ASSUME TypeOK, Tree, Kept, timeouts = 0, NEW a \in Tries, NEW m \in Runs, Mover(a, m),
           NEW c \in Runs, row[c] = "SUCCESS"
    PROVE  row'[c] = "SUCCESS"
  <1> SUFFICES ASSUME row'[c] # row[c] PROVE FALSE
    OBVIOUS
  <1>1. row[m] # "SUCCESS" /\ Knowing(a, m) /\ Active(a, m)
    BY MoverIs
  <1>2. ~(At(a, m, "wait") /\ Here(a, m).kind = "iterator" /\ c = Child(a, m))
    BY <1>1 DEF Knowing
  <1> QED
    BY <1>1, <1>2, RowChanges

\* A recorded run is no item of an iterator.
LEMMA RecordedIsNoItem ==
    ASSUME TypeOK, Tree, NEW a \in Tries, NEW m \in Runs, frame[a][m].pc \in {"record", "mark"},
           NEW r \in Runs, NEW i \in NodesOf(r), NEW k \in Items(r, i), Plan[r][i].kind = "iterator"
    PROVE  Kid(r, i, k) # m
  <1> SUFFICES ASSUME Kid(r, i, k) = m PROVE FALSE
    OBVIOUS
  <1>1. frame[a][m].budget = m
    BY DEF Tree, Shape, Shaped
  <1> QED
    BY <1>1, ItemsShare

\* What is good stays so but for the child in hand.
LEMMA GoodStays ==
    ASSUME TypeOK, Tree, Kept, timeouts = 0, NEW a \in Tries, NEW m \in Runs, Mover(a, m),
           NEW r \in Runs, NEW i \in NodesOf(r), NEW k \in Items(r, i), Good(r, i, k),
           ~(r = m /\ i = frame[a][m].at /\ k = frame[a][m].item)
    PROVE  Good(r, i, k)'
  <1>0. PICK c \in Runs : c = Kid(r, i, k)
    BY PlanTypes
  <1>1. CASE row[c] = "SUCCESS"
    <2>1. row'[Kid(r, i, k)] = "SUCCESS"
      BY <1>0, <1>1, SuccessStays
    <2> QED BY <2>1 DEF Good, Kid
  <1>2. CASE row'[c] = row[c]
    <2>1. row'[Kid(r, i, k)] = row[Kid(r, i, k)]
      BY <1>0, <1>2
    <2> QED BY <2>1 DEF Good, Kid
  <1>3. CASE row[c] # "SUCCESS" /\ row'[c] # row[c]
    <2>1. Plan[r][i].kind = "iterator"
      BY <1>0, <1>3 DEF Good
    <2>2. ~(c = m /\ frame[a][m].pc \in {"record", "mark"})
      BY <1>0, <2>1, RecordedIsNoItem
    <2>3. c # Kid(m, frame[a][m].at, frame[a][m].item)
          \/ frame[a][m].at \notin NodesOf(m) \/ frame[a][m].item \notin Items(m, frame[a][m].at)
      BY <1>0, OneParent
    <2>4. ~(At(a, m, "wait") /\ c = Child(a, m))
      BY <2>3, WaitsFor
    <2> QED
      BY <1>3, <2>2, <2>3, <2>4, RowChanges
  <1> QED
    BY <1>1, <1>2, <1>3

\* So does what is resolved.
LEMMA ResolvedStays ==
    ASSUME TypeOK, Tree, Kept, timeouts = 0, NEW a \in Tries, NEW m \in Runs, Mover(a, m),
           NEW x \in Tries, NEW r \in Runs, NEW i \in NodesOf(r), NEW k \in Items(r, i),
           Resolved(x, r, i, k), frame[x][r].reached \subseteq frame'[x][r].reached,
           ~(r = m /\ i = frame[a][m].at /\ k = frame[a][m].item)
    PROVE  Resolved(x, r, i, k)'
  <1>1. CASE Good(r, i, k)
    BY <1>1, GoodStays DEF Resolved
  <1>2. CASE Handled(Plan[r][i]) /\ Plan[r][i].handler \subseteq frame[x][r].reached
    BY <1>2 DEF Resolved, Handled
  <1> QED
    BY <1>1, <1>2 DEF Resolved

\* A run that is over has the frame it had.
LEMMA OverStays ==
    ASSUME TypeOK, Tree, NEW a \in Tries, NEW m \in Runs, Mover(a, m), NEW x \in Tries, NEW r \in Runs,
           At(x, r, "over")
    PROVE  frame'[x][r] = frame[x][r]
  <1>1. CASE Moves(a, m)
    <2>1. x # a \/ r # m
      BY <1>1, MovesIs DEF At
    <2> QED BY <1>1, <2>1, MovesIs
  <1>2. ASSUME NEW d \in Runs, Starts(a, m, d)
        PROVE  frame'[x][r] = frame[x][r]
    <2>1. x # a \/ r \notin {m, d}
      BY <1>2, StartLeaves DEF At
    <2> QED BY <1>2, <2>1, StartLeaves
  <1> QED
    BY <1>1, <1>2 DEF Mover

\* Successes are deep after the step of a run.
LEMMA DeepMover ==
    ASSUME TypeOK, Tree, Kept, timeouts = 0, NEW a \in Tries, NEW m \in Runs, Mover(a, m), NEW r \in Runs
    PROVE  Deep(r)'
  <1> SUFFICES ASSUME row'[r] = "SUCCESS"
               PROVE  \E x \in Tries : DeepBy(x, r)'
    BY DEF Deep
  <1>1. a = attempt /\ Active(a, m) /\ row[m] # "SUCCESS"
    BY MoverIs
  <1>2. CASE row[r] = "SUCCESS"
    <2>1. PICK x \in Tries : DeepBy(x, r)
      BY <1>2 DEF Kept, Deep
    <2>2. frame'[x][r] = frame[x][r]
      BY <2>1, OverStays DEF DeepBy
    <2>3. ASSUME NEW i \in NodesOf(r), NEW k \in Items(r, i), i \in frame'[x][r].reached
          PROVE  Resolved(x, r, i, k)'
      <3>1. Resolved(x, r, i, k) /\ r # m
        BY <1>1, <1>2, <2>1, <2>2, <2>3 DEF DeepBy
      <3> QED BY <2>2, <3>1, ResolvedStays
    <2>4. DeepBy(x, r)'
      BY <2>1, <2>2, <2>3 DEF DeepBy, At
    <2> QED BY <2>4
  <1>3. CASE row[r] # "SUCCESS"
    <2>1. /\ frame[a][r].result = "SUCCESS" /\ frame[a][r].pc # "off"
          /\ frame'[a][r].pc = "over" /\ frame'[a][r].result = "SUCCESS"
          /\ frame'[a][r].reached = frame[a][r].reached
      <3>1. CASE /\ r = m /\ frame[a][m].pc \in {"record", "mark"} /\ row'[r] = Verdict(a, m)
                 /\ frame'[a][m].pc = "over" /\ frame'[a][m].result = frame[a][m].result
        <4>1. frame[a][m].result = "SUCCESS"
          BY <3>1 DEF Verdict, Closing
        <4>2. Moves(a, m)
          BY <3>1 DEF Mover, Starts
        <4>3. IsRecorded(m, frame[a][m], frame'[a][m])
          BY <3>1, <4>2 DEF Moves, GoesOn, IteratesOn, Ends
        <4> QED BY <3>1, <4>1, <4>3 DEF IsRecorded
      <3>2. CASE /\ At(a, m, "wait") /\ Here(a, m).kind = "iterator" /\ r = Child(a, m)
                 /\ At(a, r, "over") /\ row'[r] = Outcome(frame[a][r].result)
        <4>1. frame'[a][r] = frame[a][r]
          BY <3>2, OverStays
        <4> QED BY <3>2, <4>1 DEF Outcome, At
      <3> QED BY <1>3, <3>1, <3>2, RowChanges
    <2>2. Shaped(a, r) /\ Progress(a, r)
      BY DEF Tree, Shape, Kept
    <2>3. ~frame[a][r].failed /\ frame[a][r].at > Len(Plan[r])
      BY <2>1, <2>2 DEF Shaped
    <2>4. ASSUME NEW i \in NodesOf(r), NEW k \in Items(r, i), i \in frame'[a][r].reached
          PROVE  Resolved(a, r, i, k)'
      <3>1. i < frame[a][r].at
        BY <2>3, PlanTypes, FrameIs
      <3>2. Resolved(a, r, i, k)
        BY <1>1, <2>1, <2>2, <2>3, <2>4, <3>1 DEF Progress, Behind
      <3>3. ~(r = m /\ i = frame[a][m].at /\ k = frame[a][m].item)
        BY <3>1, FrameIs
      <3> QED
        BY <2>1, <3>2, <3>3, ResolvedStays
    <2>5. DeepBy(a, r)'
      BY <2>1, <2>4 DEF DeepBy, At
    <2> QED
      BY <2>5
  <1> QED
    BY <1>2, <1>3

\* So are items in order.
LEMMA InOrderMover ==
    ASSUME TypeOK, Tree, Kept, timeouts = 0, NEW a \in Tries, NEW m \in Runs, Mover(a, m), NEW r \in Runs
    PROVE  InOrder(r)'
  <1> SUFFICES ASSUME NEW i \in NodesOf(r), Plan[r][i].kind = "iterator", ~Plan[r][i].continueOnError,
                      NEW k \in Items(r, i), NEW j \in Items(r, i), j < k, row'[Kid(r, i, k)] # "none"
               PROVE  row'[Kid(r, i, j)] = "SUCCESS"
    BY DEF InOrder, Kid
  <1>0. PICK c \in Runs, e \in Runs : c = Kid(r, i, k) /\ e = Kid(r, i, j)
    BY PlanTypes
  <1>1. row[e] = "SUCCESS" => row'[e] = "SUCCESS"
    BY SuccessStays
  <1>2. CASE row[c] # "none"
    BY <1>0, <1>1, <1>2 DEF Kept, InOrder
  <1>3. CASE row[c] = "none"
    <2>1. ~(c = m /\ frame[a][m].pc \in {"record", "mark"})
      BY <1>0, RecordedIsNoItem
    <2>0. ASSUME frame[a][m].at \in NodesOf(m), frame[a][m].item \in Items(m, frame[a][m].at),
                 c = Kid(m, frame[a][m].at, frame[a][m].item)
          PROVE  Plan[m][frame[a][m].at].kind # "subworkflow"
      <3> DEFINE p == frame[a][m].at
                 q == frame[a][m].item
      <3>1. p \in NodesOf(m) /\ q \in Items(m, p) /\ Kid(r, i, k) = Kid(m, p, q)
        BY <1>0, <2>0
      <3> HIDE DEF p, q
      <3>2. r = m /\ i = p
        BY <3>1, OneParent
      <3> QED BY <3>2 DEF p
    <2>7. Shaped(a, m)
      BY DEF Tree, Shape
    <2>2. /\ frame[a][m].at \in NodesOf(m) /\ frame[a][m].item \in Items(m, frame[a][m].at)
          /\ c = Kid(m, frame[a][m].at, frame[a][m].item) /\ ~frame[a][m].failed
          /\ frame[a][m].pc \in {"loop", "iterate", "wait"} /\ frame[a][m].at \in frame[a][m].reached
      <3>1. CASE At(a, m, "wait") /\ c = Child(a, m)
        BY <2>7, <3>1, WaitsFor DEF At, Shaped
      <3>2. CASE ~(At(a, m, "wait") /\ c = Child(a, m))
        BY <1>0, <1>3, <2>1, <2>0, <3>2, RowChanges
      <3> QED BY <3>1, <3>2
    <2>3. r = m /\ i = frame[a][m].at /\ k = frame[a][m].item
      <3> DEFINE p == frame[a][m].at
                 q == frame[a][m].item
      <3>1. p \in NodesOf(m) /\ q \in Items(m, p) /\ Kid(r, i, k) = Kid(m, p, q)
        BY <1>0, <2>2
      <3> HIDE DEF p, q
      <3>2. r = m /\ i = p /\ k = q
        BY <3>1, OneParent
      <3> QED BY <3>2 DEF p, q
    <2>4. a = attempt /\ Progress(a, m) /\ Shaped(a, m)
      BY MoverIs DEF Tree, Shape
    <2>5. frame[a][m].result = "none"
      BY <2>2, <2>4 DEF Shaped
    <2>6. Resolved(a, r, i, j)
      BY <2>2, <2>3, <2>4, <2>5 DEF Progress, Behind
    <2> QED
      BY <1>0, <1>1, <2>6 DEF Resolved, Good, Handled
  <1> QED
    BY <1>0, <1>2, <1>3

\* So is the progress of the last attempt.
LEMMA ProgressMoves ==
    ASSUME TypeOK, Tree, Kept, timeouts = 0, NEW a \in Tries, NEW m \in Runs, Moves(a, m), Details(a, m),
           NEW x \in Tries, NEW r \in Runs
    PROVE  Progress(x, r)'
  <1> DEFINE f == frame[a][m]
             g == frame'[a][m]
  <1>0. Mover(a, m)
    BY DEF Mover
  <1>1. a = attempt /\ attempt' = attempt
    BY <1>0, MoverIs
  <1>2. SUFFICES ASSUME x = a, frame'[a][r].pc # "off", ~frame'[a][r].failed,
                        frame'[a][r].result \in {"none", "SUCCESS"},
                        NEW i \in NodesOf(r), NEW k \in Items(r, i), i \in frame'[a][r].reached,
                        Behind(frame'[a][r], i, k)
                 PROVE  Resolved(a, r, i, k)'
    BY <1>1 DEF Progress
  <1>3. /\ i \in Nat /\ k \in Nat /\ k >= 1 /\ f.at \in Nat /\ f.item \in Nat
        /\ Progress(a, r) /\ Shaped(a, m) /\ Accounts(a, m)
    BY PlanTypes, FrameIs DEF Items, Kept, Tree, Shape, Details
  <1>4. CASE r # m
    <2>1. frame'[a][r] = frame[a][r]
      BY <1>4, MovesIs
    <2>2. Resolved(a, r, i, k)
      BY <1>1, <1>2, <1>3, <2>1 DEF Progress
    <2> QED BY <1>0, <1>4, <2>1, <2>2, ResolvedStays
  <1>5. CASE r = m
    <2>1. ~f.failed /\ f.pc # "off"
      BY <1>2, <1>3, <1>5, MovesIs DEF Accounts
    <2>0. f.reached \subseteq g.reached
      BY DEF Moves, GoesOn, IteratesOn, Ends, IsRecorded
    <2>2. ASSUME f.result \in {"none", "SUCCESS"}, i \in f.reached, Behind(f, i, k)
          PROVE  Resolved(a, r, i, k)'
      <3>1. Resolved(a, m, i, k)
        BY <1>1, <1>3, <1>5, <2>1, <2>2 DEF Progress
      <3>2. ~(i = f.at /\ k = f.item)
        BY <1>3, <2>2 DEF Behind
      <3> QED BY <1>0, <1>5, <2>0, <3>1, <3>2, ResolvedStays
    <2>3. f.pc \in {"loop", "iterate", "wait"} => f.result = "none"
      BY <1>3 DEF Shaped
    <2>4. CASE GoesOn(m, f, g)
      <3>1. f.result = "none" /\ g.at = f.at + 1 /\ g.item = 1 /\ g.pc = "loop"
        BY <2>3, <2>4 DEF GoesOn
      <3>2. i < f.at \/ i = f.at
        BY <1>2, <1>3, <1>5, <3>1 DEF Behind
      <3>6. i \in f.reached
        BY <1>2, <1>3, <1>5, <2>4, <3>2 DEF GoesOn
      <3>3. i < f.at => Resolved(a, r, i, k)'
        BY <2>2, <3>1, <3>6 DEF Behind
      <3>4. i = f.at => (f.pc = "iterate" /\ k < f.item) \/ Resolved(a, r, i, k)'
        BY <1>2, <1>3, <1>5, <3>1, <3>6 DEF Accounts
      <3>5. i = f.at /\ k < f.item => Resolved(a, r, i, k)'
        BY <2>2, <3>1, <3>6 DEF Behind
      <3> QED BY <3>2, <3>3, <3>4, <3>5
    <2>5. CASE IteratesOn(m, f, g)
      <3>1. /\ f.result = "none" /\ g.at = f.at /\ g.pc = "iterate"
            /\ g.item = IF f.pc = "loop" THEN f.item ELSE f.item + 1
        BY <2>3, <2>5 DEF IteratesOn
      <3>2. Behind(f, i, k) \/ (i = f.at /\ k = f.item /\ f.pc # "loop")
        BY <1>2, <1>3, <1>5, <3>1 DEF Behind
      <3>4. i \in f.reached
        BY <1>2, <1>5, <2>5 DEF IteratesOn
      <3>3. i = f.at /\ k = f.item /\ f.pc # "loop" => Resolved(a, r, i, k)'
        BY <1>3, <1>5, <3>1, <3>4 DEF Accounts, Resolved
      <3> QED BY <2>2, <3>1, <3>2, <3>3, <3>4
    <2>6. CASE Ends(m, f, g)
      <3>1. f.result = "none" /\ g.at = f.at /\ g.item = f.item /\ g.reached = f.reached
        BY <2>3, <2>6 DEF Ends
      <3> QED BY <1>2, <1>5, <2>2, <3>1 DEF Behind
    <2>7. CASE IsRecorded(m, f, g)
      <3>1. f.result = g.result /\ g.at = f.at /\ g.item = f.item /\ g.reached = f.reached
        BY <1>2, <1>5, <2>7 DEF IsRecorded
      <3> QED BY <1>2, <1>5, <2>2, <3>1 DEF Behind
    <2> QED BY <2>4, <2>5, <2>6, <2>7 DEF Moves
  <1> QED BY <1>4, <1>5

\* A start leaves no unresolved child behind either.
LEMMA ProgressStarts ==
    ASSUME TypeOK, Tree, Kept, timeouts = 0, NEW a \in Tries, NEW m \in Runs, NEW d \in Runs,
           Starts(a, m, d), Begins(d), NEW x \in Tries, NEW r \in Runs
    PROVE  Progress(x, r)'
  <1>0. Mover(a, m)
    BY DEF Mover
  <1>1. a = attempt /\ attempt' = attempt
    BY <1>0, MoverIs
  <1>2. SUFFICES ASSUME x = a, frame'[a][r].pc # "off", ~frame'[a][r].failed,
                        frame'[a][r].result \in {"none", "SUCCESS"},
                        NEW i \in NodesOf(r), NEW k \in Items(r, i), i \in frame'[a][r].reached,
                        Behind(frame'[a][r], i, k)
                 PROVE  Resolved(a, r, i, k)'
    BY <1>1 DEF Progress
  <1>3. i \in Nat /\ k \in Nat /\ k >= 1 /\ i >= 1 /\ Progress(a, r) /\ Shaped(a, m)
        /\ frame[a][m].at \in Nat /\ frame[a][m].item \in Nat
    BY PlanTypes, FrameIs DEF Items, Kept, Tree, Shape
  <1>4. CASE r = d
    <2>1. frame'[a][d].at = 1 /\ frame'[a][d].item = 1
      BY DEF Starts
    <2> QED BY <1>2, <1>3, <1>4, <2>1 DEF Behind
  <1>5. CASE r = m
    <2>1. /\ frame'[a][m].at = frame[a][m].at /\ frame'[a][m].item = frame[a][m].item
          /\ ~frame[a][m].failed /\ frame[a][m].pc \in {"loop", "iterate"}
          /\ frame'[a][m].reached = frame[a][m].reached
      BY DEF Starts
    <2>2. frame[a][m].result = "none" /\ Behind(frame[a][m], i, k)
      BY <1>2, <1>3, <1>5, <2>1 DEF Shaped, Behind
    <2>3. Resolved(a, m, i, k)
      BY <1>1, <1>2, <1>3, <1>5, <2>1, <2>2 DEF Progress
    <2>4. ~(i = frame[a][m].at /\ k = frame[a][m].item)
      BY <1>3, <2>2 DEF Behind
    <2> QED BY <1>0, <1>5, <2>1, <2>3, <2>4, ResolvedStays
  <1>6. CASE r \notin {m, d}
    <2>1. frame'[a][r] = frame[a][r]
      BY <1>6, StartLeaves
    <2>2. Resolved(a, r, i, k)
      BY <1>1, <1>2, <1>3, <2>1 DEF Progress
    <2> QED BY <1>0, <1>6, <2>1, <2>2, ResolvedStays
  <1> QED BY <1>4, <1>5, <1>6

\* What a run knows is kept by the step of a run.
LEMMA KnowingMoves ==
    ASSUME TypeOK, Tree, Kept, timeouts = 0, Tree', timeouts' = 0,
           NEW a \in Tries, NEW m \in Runs, Moves(a, m), Details(a, m),
           NEW x \in Tries, NEW r \in Runs
    PROVE  Knowing(x, r)'
  <1> DEFINE f == frame[a][m]
             g == frame'[a][m]
  <1>0. Mover(a, m)
    BY DEF Mover
  <1>1. a = attempt /\ attempt' = attempt /\ f.at \in Nat
    BY <1>0, MoverIs, FrameIs
  <1>2. SUFFICES ASSUME Active(x, r)' PROVE Knowing(x, r)'
    BY DEF Knowing
  <1>3. x = a
    BY <1>1, <1>2 DEF Tree, Rooted
  <1>4. Active(a, r) /\ Knowing(a, r) /\ Active(a, m) /\ Knowing(a, m)
    BY <1>2, <1>3, MovesIs DEF Kept
  <1>5. r # m => frame'[a][r] = frame[a][r]
    BY MovesIs
  <1>6. /\ r = m => g.reuse = f.reuse
        /\ r = m => g.at = f.at \/ g.at = f.at + 1
        /\ r = m => g.pc # "wait"
        /\ r = m => g.pc # "over"
    <2>1. g.reuse = f.reuse
      BY DEF Moves
    <2>2. (g.at = f.at \/ g.at = f.at + 1) /\ g.pc # "wait"
      BY DEF Moves, GoesOn, IteratesOn, Ends, IsRecorded
    <2> QED
      BY <1>2, <1>3, <2>1, <2>2 DEF Active
  <1>7. ASSUME NEW i \in saved'[r]
        PROVE  i \in frame'[a][r].reuse \/ i < frame'[a][r].at
    <2>0. saved[r] \subseteq Nat
      BY PlanTypes DEF TypeOK, NodesOf
    <2>1. CASE i \in saved[r]
      <3>1. i \in frame[a][r].reuse \/ i < frame[a][r].at
        BY <1>4, <2>1 DEF Knowing
      <3>2. i \in Nat
        BY <2>0, <2>1
      <3> QED BY <1>1, <1>5, <1>6, <3>1, <3>2
    <2>2. CASE i \notin saved[r]
      <3>1. Acted(a, m)
        BY <1>7, <2>2 DEF Details
      <3>2. saved' = [saved EXCEPT ![m] = @ \union {f.at}] /\ g.at = f.at + 1
        BY <3>1 DEF Acted
      <3>3. saved'[r] \subseteq saved[r] \union {f.at} /\ (r # m => saved'[r] = saved[r])
        BY <3>2
      <3>4. i = f.at /\ r = m
        BY <1>7, <2>2, <3>3
      <3> QED BY <1>1, <3>2, <3>4
    <2> QED BY <2>1, <2>2
  <1>8. row'[r] # "SUCCESS"
    <2>1. row[r] # "SUCCESS"
      BY <1>4 DEF Knowing
    <2>2. ~(r = m /\ g.pc = "over")
      BY <1>6
    <2>3. ~At(a, r, "over") /\ f.pc # "off"
      BY <1>4 DEF Active, At
    <2> QED
      BY <1>0, <2>1, <2>2, <2>3, RowChanges
  <1>9. ASSUME At(a, r, "wait")', Here(a, r)'.kind = "iterator"
        PROVE  row'[Child(a, r)'] # "SUCCESS"
    <2>1. r # m
      BY <1>6, <1>9 DEF At
    <2>2. frame'[a][r] = frame[a][r]
      BY <1>5, <2>1
    <2>3. At(a, r, "wait") /\ Here(a, r).kind = "iterator" /\ Child(a, r)' = Child(a, r)
      BY <1>9, <2>2 DEF At, Here, Child
    <2>4. /\ Child(a, r) \in Runs /\ row[Child(a, r)] # "SUCCESS"
          /\ frame[a][r].at \in NodesOf(r) /\ frame[a][r].item \in Items(r, frame[a][r].at)
          /\ Child(a, r) = Kid(r, frame[a][r].at, frame[a][r].item)
          /\ Plan[r][frame[a][r].at].kind = "iterator"
      BY <1>4, <2>3, WaitsFor DEF Knowing, Here
    <2>5. PICK c \in Runs : c = Child(a, r)
      BY <2>4
    <2>6. ~(c = m /\ f.pc \in {"record", "mark"})
      BY <2>4, <2>5, RecordedIsNoItem
    <2>7. ~(At(a, m, "wait") /\ c = Child(a, m))
      BY <2>1, <2>3, <2>5, OneWaits
    <2>8. row'[c] # "SUCCESS"
      BY <1>0, <2>4, <2>5, <2>6, <2>7, RowChanges
    <2> QED BY <2>3, <2>5, <2>8
  <1> QED
    BY <1>3, <1>7, <1>8, <1>9 DEF Knowing

\* A child starts with the saved steps of the attempts before in hand.
LEMMA KnowingStarts ==
    ASSUME TypeOK, Tree, Kept, timeouts = 0, Tree', timeouts' = 0,
           NEW a \in Tries, NEW m \in Runs, NEW d \in Runs, Starts(a, m, d), Begins(d),
           NEW x \in Tries, NEW r \in Runs
    PROVE  Knowing(x, r)'
  <1>0. Mover(a, m)
    BY DEF Mover
  <1>1. a = attempt /\ attempt' = attempt /\ row[m] # "SUCCESS" /\ Knowing(a, m) /\ Active(a, m)
    BY <1>0, MoverIs
  <1>2. SUFFICES ASSUME Active(x, r)' PROVE Knowing(x, r)'
    BY DEF Knowing
  <1>3. x = a
    BY <1>1, <1>2 DEF Tree, Rooted
  <1>4. /\ saved' = saved /\ row'[d] \in {"PENDING", "RUNNING", "FAILED"} /\ row[d] # "SUCCESS" /\ d # m
        /\ \A q \in Runs : q # d => row'[q] = row[q]
    BY StartLeaves DEF Begins
  <1>5. CASE r = d
    <2>1. frame'[a][d].reuse = saved[d] /\ frame'[a][d].pc # "wait"
      BY DEF Starts
    <2> QED
      BY <1>3, <1>4, <1>5, <2>1 DEF Knowing, At
  <1>6. CASE r = m
    <2>1. frame'[a][m].reuse = frame[a][m].reuse /\ frame'[a][m].at = frame[a][m].at
      BY DEF Starts
    <2>2. Child(a, m)' = d
      BY StartLeaves
    <2>3. row'[Child(a, m)'] # "SUCCESS"
      BY <1>4, <2>2
    <2> QED
      BY <1>1, <1>3, <1>4, <1>6, <2>1, <2>3 DEF Knowing
  <1>7. CASE r \notin {m, d}
    <2>1. frame'[a][r] = frame[a][r]
      BY <1>7, StartLeaves
    <2>2. Active(a, r) /\ Knowing(a, r)
      BY <1>2, <1>3, <2>1 DEF Active, Kept
    <2>3. Child(a, r)' = Child(a, r) /\ Here(a, r)' = Here(a, r) /\ At(a, r, "wait")' = At(a, r, "wait")
      BY <2>1 DEF Child, Here, At
    <2>4. ASSUME At(a, r, "wait"), Here(a, r).kind = "iterator"
          PROVE  row'[Child(a, r)'] # "SUCCESS"
      <3>1. Child(a, r) \in Runs /\ row[Child(a, r)] # "SUCCESS" /\ frame[a][Child(a, r)].pc # "off"
        BY <2>2, <2>4, WaitsFor DEF Knowing
      <3>2. row'[Child(a, r)] # "SUCCESS"
        BY <1>4, <3>1
      <3> QED BY <2>3, <3>2
    <2> QED
      BY <1>3, <1>4, <1>7, <2>1, <2>2, <2>3, <2>4 DEF Knowing
  <1> QED BY <1>5, <1>6, <1>7

\* Every run has its steps.
Domains == DOMAIN saved = Runs /\ DOMAIN effects = Runs

\* An action that takes effect had not.
LEMMA CountedMover ==
    ASSUME TypeOK, Tree, Domains, Kept, timeouts = 0, NEW a \in Tries, NEW m \in Runs, Mover(a, m), NEW r \in Runs
    PROVE  Counted(r)'
  <1>1. Counted(r) /\ Knowing(a, m) /\ Active(a, m)
    BY MoverIs DEF Kept
  <1>2. CASE UNCHANGED <<saved, effects>>
    BY <1>1, <1>2 DEF Counted
  <1>3. CASE Acted(a, m)
    <2>0. PICK i \in NodesOf(m) : i = frame[a][m].at
      BY <1>3 DEF Acted
    <2>1. /\ i \notin frame[a][m].reuse /\ i \in Nat
          /\ saved' = [saved EXCEPT ![m] = @ \union {i}] /\ effects' = [effects EXCEPT ![m][i] = @ + 1]
      BY <1>3, <2>0, FrameIs DEF Acted
    <2>2. i \notin saved[m]
      BY <1>1, <2>0, <2>1 DEF Knowing
    <2>3. CASE r # m
      <3>1. saved'[r] = saved[r] /\ effects'[r] = effects[r]
        BY <2>1, <2>3
      <3> QED BY <1>1, <3>1 DEF Counted
    <2>4. CASE r = m
      <3>1. effects[m][i] = 0 /\ effects[m] \in [NodesOf(m) -> Nat]
        BY <1>1, <2>2, <2>4 DEF Counted, TypeOK
      <3> SUFFICES ASSUME NEW j \in NodesOf(m)
                   PROVE  effects'[m][j] = IF j \in saved'[m] THEN 1 ELSE 0
        BY <2>4 DEF Counted
      <3>2. CASE j = i
        <4>1. effects'[m] = [effects[m] EXCEPT ![i] = @ + 1]
          BY <2>1 DEF Domains
        <4>2. effects'[m][i] = 1
          BY <3>1, <4>1
        <4>3. i \in saved'[m]
          BY <2>1 DEF Domains
        <4> QED BY <3>2, <4>2, <4>3
      <3>3. CASE j # i
        <4>1. effects'[m][j] = effects[m][j] /\ (j \in saved'[m] <=> j \in saved[m])
          BY <2>1, <3>1, <3>3 DEF Domains
        <4> QED BY <1>1, <2>4, <4>1 DEF Counted
      <3> QED BY <3>2, <3>3
    <2> QED BY <2>3, <2>4
  <1> QED
    BY <1>2, <1>3 DEF Mover, Details, Begins

-----------------------------------------------------------------------------------

\* A new attempt starts with the saved steps of the root in hand.
LEMMA KeptTakes ==
    ASSUME TypeOK, Tree, Kept, timeouts = 0, Tree', timeouts' = 0, Takes, Same, row[Root] = "RUNNING"
    PROVE  Kept'
  <1>0. PICK n \in Tries : n = attempt + 1
    BY DEF Takes
  <1>1. /\ attempt' = n /\ row' = row /\ saved' = saved /\ effects' = effects
        /\ \A b \in Tries, q \in Runs : (b # n \/ q # Root) => frame'[b][q] = frame[b][q]
        /\ frame'[n][Root].at = 1 /\ frame'[n][Root].item = 1 /\ frame'[n][Root].reuse = saved[Root]
        /\ frame'[n][Root].pc = "loop"
    BY <1>0 DEF Takes, Others, Same
  <1>2. \A q \in Runs : q # Root => frame'[n][q].pc = "off"
    <2> SUFFICES ASSUME NEW q \in Runs, q # Root PROVE frame'[n][q].pc = "off"
      OBVIOUS
    <2>1. Shaped(n, q) /\ n > attempt
      BY <1>0 DEF Tree, Shape, TypeOK
    <2> QED BY <1>1, <2>1 DEF Shaped
  <1>3. ASSUME NEW r \in Runs
        PROVE  Counted(r)' /\ Deep(r)' /\ InOrder(r)'
    <2>1. Counted(r) /\ Deep(r) /\ InOrder(r)
      BY DEF Kept
    <2>2. ASSUME NEW x \in Tries, DeepBy(x, r)
          PROVE  DeepBy(x, r)'
      <3>1. Shaped(n, r) /\ n > attempt
        BY <1>0 DEF Tree, Shape, TypeOK
      <3>2. x # n
        BY <2>2, <3>1 DEF DeepBy, At, Shaped
      <3>3. frame'[x][r] = frame[x][r]
        BY <1>1, <3>2
      <3> QED
        BY <1>1, <2>2, <3>3 DEF DeepBy, At, Resolved, Good, Kid, Handled
    <2> QED
      BY <1>1, <2>1, <2>2 DEF Counted, Deep, InOrder, Kid
  <1>4. ASSUME NEW a \in Tries, NEW r \in Runs
        PROVE  Knowing(a, r)'
    <2> SUFFICES ASSUME Active(a, r)' PROVE Knowing(a, r)'
      BY DEF Knowing
    <2>1. a = n
      BY <1>1 DEF Tree, Rooted
    <2>2. r = Root
      BY <1>2, <2>1 DEF Active
    <2> QED
      BY <1>1, <2>1, <2>2 DEF Knowing, At
  <1>5. ASSUME NEW a \in Tries, NEW r \in Runs
        PROVE  Progress(a, r)'
    <2> SUFFICES ASSUME a = n, frame'[a][r].pc # "off",
                        NEW i \in NodesOf(r), NEW k \in Items(r, i), Behind(frame'[a][r], i, k)
                 PROVE  FALSE
      BY <1>1 DEF Progress
    <2>1. r = Root
      BY <1>2
    <2>2. i \in Nat /\ k \in Nat /\ i >= 1 /\ k >= 1
      BY PlanTypes DEF Items
    <2> QED
      BY <1>1, <2>1, <2>2 DEF Behind
  <1> QED
    BY <1>3, <1>4, <1>5 DEF Kept

\* What is kept is a matter of rows, steps and frames.
LEMMA KeptStays ==
    ASSUME Kept, Stays, Same
    PROVE  Kept'
  <1>1. /\ frame' = frame /\ attempt' = attempt /\ timeouts' = timeouts
        /\ row' = row /\ saved' = saved /\ effects' = effects
    BY DEF Stays, Same
  <1> SUFFICES ASSUME timeouts = 0 PROVE Kept'
    BY <1>1 DEF Kept
  <1>3. ASSUME NEW r \in Runs
        PROVE  Counted(r)' /\ Deep(r)' /\ InOrder(r)'
    <2>1. Counted(r) /\ Deep(r) /\ InOrder(r)
      BY DEF Kept
    <2> QED
      BY <1>1, <2>1 DEF Counted, Deep, DeepBy, At, InOrder, Resolved, Good, Kid, Handled
  <1>4. ASSUME NEW a \in Tries, NEW r \in Runs
        PROVE  Knowing(a, r)' /\ Progress(a, r)'
    <2>1. Knowing(a, r) /\ Progress(a, r)
      BY DEF Kept
    <2> QED
      BY <1>1, <2>1 DEF Knowing, Progress, Behind, Resolved, Good, Kid, Handled, Active, At, Here, Child
  <1> QED
    BY <1>3, <1>4 DEF Kept

\* What is kept is kept by every step.
LEMMA KeptStep ==
    ASSUME TypeOK, Tree, Domains, Kept, [Next]_vars
    PROVE  Domains' /\ Kept'
  <1>1. TypeOK' /\ Tree'
    BY TreeStep
  <1>2. \/ Stays /\ Same
        \/ Takes /\ Same /\ row[Root] = "RUNNING"
        \/ \E a \in Tries, m \in Runs : Moves(a, m) /\ Details(a, m)
        \/ \E a \in Tries, m \in Runs : \E c \in Runs : Starts(a, m, c) /\ Begins(c)
    BY DetailedForms
  <1>3. Domains'
    <2>1. UNCHANGED <<saved, effects>> \/ \E a \in Tries, m \in Runs : Acted(a, m)
      BY <1>2 DEF Same, Details, Begins
    <2>2. ASSUME NEW a \in Tries, NEW m \in Runs, Acted(a, m)
          PROVE  Domains'
      BY <2>2 DEF Acted, Domains
    <2>3. CASE UNCHANGED <<saved, effects>>
      BY <2>3 DEF Domains
    <2> QED BY <2>1, <2>2, <2>3
  <1>4. Kept'
    <2>1. CASE Stays /\ Same
      BY <2>1, KeptStays
    <2>2. CASE ~(Stays /\ Same)
      <3>1. SUFFICES ASSUME timeouts' = 0 PROVE Kept'
        BY DEF Kept
      <3>2. timeouts = 0
        BY <1>2, <2>2, <3>1, MovesIs, StartLeaves DEF Takes
      <3>3. CASE Takes /\ Same /\ row[Root] = "RUNNING"
        BY <1>1, <3>1, <3>2, <3>3, KeptTakes
      <3>4. ASSUME NEW a \in Tries, NEW m \in Runs, Mover(a, m)
            PROVE  Kept'
        <4>1. ASSUME NEW r \in Runs PROVE Counted(r)' /\ Deep(r)' /\ InOrder(r)'
          BY <3>2, <3>4, CountedMover, DeepMover, InOrderMover
        <4>2. ASSUME NEW x \in Tries, NEW r \in Runs PROVE Knowing(x, r)' /\ Progress(x, r)'
          <5>1. CASE Moves(a, m) /\ Details(a, m)
            BY <1>1, <3>1, <3>2, <5>1, KnowingMoves, ProgressMoves
          <5>2. ASSUME NEW d \in Runs, Starts(a, m, d), Begins(d)
                PROVE  Knowing(x, r)' /\ Progress(x, r)'
            BY <1>1, <3>1, <3>2, <5>2, KnowingStarts, ProgressStarts
          <5> QED BY <3>4, <5>1, <5>2 DEF Mover
        <4> QED BY <4>1, <4>2 DEF Kept
      <3> QED BY <1>2, <2>2, <3>3, <3>4 DEF Mover
    <2> QED BY <2>1, <2>2
  <1> QED BY <1>3, <1>4

\* At the start nothing has succeeded or taken effect.
LEMMA KeptInit ==
    ASSUME Init
    PROVE  Domains /\ Kept
  <1>1. /\ \A r \in Runs : saved[r] = {} /\ row[r] # "SUCCESS"
        /\ \A r \in Runs : \A i \in NodesOf(r) : effects[r][i] = 0
        /\ \A r \in Runs : r # Root => row[r] = "none"
        /\ \A a \in Tries, r \in Runs : frame[a][r].pc = "off"
        /\ DOMAIN saved = Runs /\ DOMAIN effects = Runs
    BY DEF Init, Off
  <1>2. \A r \in Runs : Counted(r) /\ Deep(r)
    BY <1>1 DEF Counted, Deep
  <1>3. \A r \in Runs : InOrder(r)
    <2> SUFFICES ASSUME NEW r \in Runs, NEW i \in NodesOf(r), NEW k \in Items(r, i)
                 PROVE  row[Kid(r, i, k)] = "none"
      BY DEF InOrder
    <2> QED BY <1>1, PlanTypes
  <1>4. \A a \in Tries, r \in Runs : Knowing(a, r) /\ Progress(a, r)
    BY <1>1 DEF Knowing, Progress, Active
  <1> QED
    BY <1>1, <1>2, <1>3, <1>4 DEF Domains, Kept

\* Where no subworkflow has timed out, effects are counted by the saved steps, every active
\* run knows them, and below a node that a run which has not failed reached and left behind
\* everything succeeded, is a failed item that continueOnError allows, or has had the node's
\* error edges followed (WorkflowRunner.run).
THEOREM KeptAlways == Spec => [](TypeOK /\ Kept)
  <1>1. Init => Domains /\ Kept
    BY KeptInit
  <1>2. TypeOK /\ Tree /\ (Domains /\ Kept) /\ [Next]_vars => (Domains /\ Kept)'
    BY KeptStep
  <1> QED
    BY <1>1, <1>2, TreeStands, PTL DEF Spec

\* Without a timeout an action of any execution of the tree takes effect once, over every
\* attempt of the job: loadResumableOutputs hands each run the steps saved before it.
THEOREM EffectsHappenOnce == Spec => []EffectsOnce
  <1>1. Kept => EffectsOnce
    BY DEF Kept, Counted, EffectsOnce
  <1> QED
    BY <1>1, KeptAlways, PTL

\* Without a timeout an execution that succeeded has below the nodes it reached nothing that
\* did not, but for failed items that continueOnError allows and for nodes whose error edges
\* the run that succeeded has followed (WorkflowRunner.run, IteratorExecutor).
THEOREM SuccessesAreDeep == Spec => []SuccessIsDeep
  <1>1. Kept => SuccessIsDeep
    <2> SUFFICES ASSUME Kept, timeouts = 0, NEW r \in Runs, row[r] = "SUCCESS"
                 PROVE  \E a \in Tries :
                           /\ frame[a][r].result = "SUCCESS"
                           /\ \A i \in frame[a][r].reached \intersect NodesOf(r) : DeepAt(a, r, i)
      BY DEF SuccessIsDeep
    <2>1. PICK a \in Tries : DeepBy(a, r)
      BY DEF Kept, Deep
    <2>2. ASSUME NEW i \in frame[a][r].reached \intersect NodesOf(r)
          PROVE  DeepAt(a, r, i)
      BY <2>1 DEF DeepBy, DeepAt, Resolved, Good, Items, Kid
    <2> QED
      BY <2>1, <2>2 DEF DeepBy
  <1> QED
    BY <1>1, KeptAlways, PTL

\* Without a timeout no item of an iterator that errors end has a row before all the items
\* ahead of it have succeeded.
THEOREM ItemsRunInOrder == Spec => []ItemsInOrder
  <1>1. TypeOK /\ Kept => ItemsInOrder
    <2> SUFFICES ASSUME TypeOK, Kept, timeouts = 0, NEW r \in Runs, NEW i \in NodesOf(r),
                        Plan[r][i].kind = "iterator", ~Plan[r][i].continueOnError,
                        NEW k \in 1 .. Len(Plan[r][i].children), row[Plan[r][i].children[k]] # "none",
                        NEW j \in 1 .. k - 1
                 PROVE  row[Plan[r][i].children[j]] = "SUCCESS"
      BY DEF ItemsInOrder
    <2>1. j \in Items(r, i) /\ k \in Items(r, i) /\ j < k
      BY PlanTypes DEF Items
    <2>2. InOrder(r)
      BY DEF Kept
    <2> QED
      BY <2>1, <2>2 DEF InOrder, Kid
  <1> QED
    BY <1>1, KeptAlways, PTL
===================================================================================
