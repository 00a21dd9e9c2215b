------------------------------ MODULE TriggerIngest ------------------------------
(* How a WorkflowExecution row and its job come to be: the poll and cron          *)
(* processors of the worker, the webhook services and the manual trigger of the   *)
(* API, all of one workspace on a capped plan.  Each of them looks for the         *)
(* idempotency key, checks the run quota, creates the row and adds the job, in an  *)
(* order of its own and in separate statements that interleave with the others'.  *)
(* A call is a place that keeps calling: the next tick, or the same request sent   *)
(* again.                                                                          *)
EXTENDS Integers, FiniteSets

CONSTANTS
    Calls,       \* the callers
    Door,        \* what each of them calls: Calls -> Doors
    Items,       \* the provider publishes items 1 .. Items, which are also their keys
    KeyOf,       \* the idempotency key of a call that is not a poll tick
    Cap,         \* hardRunCap
    MaxFailures  \* bound: how often a call may break off

Doors == {"poll", "cron", "webhook", "manual"}
Keys == (1 .. Items) \union {KeyOf[c] : c \in Calls}

ASSUME IngestAssumption ==
    /\ Door \in [Calls -> Doors]
    /\ Items \in Nat /\ Cap \in Nat /\ MaxFailures \in Nat
    /\ \A c \in Calls : KeyOf[c] \in Nat \ (1 .. Items)

VARIABLES
    published,  \* how many items the provider has published
    cursor,     \* TriggerCursor.cursor
    rows,       \* keys of the executions in the table
    serial,     \* those of them that a serialisable transaction inserted
    jobs,       \* keys of the executions whose job was added
    call,       \* where each call is
    failures

vars == <<published, cursor, rows, serial, jobs, call, failures>>

Points == {"idle", "quota", "read", "poll", "lookup", "create", "commit", "enqueue", "advance"}
CallState == [pc    : Points,
              base  : 0 .. Items,    \* the cursor a tick has read
              at    : Keys,          \* the key in hand
              limit : 0 .. Items,    \* newCursor of the poll
              snap  : SUBSET Keys]   \* the serialisable rows a transaction can see

TypeOK ==
    /\ published \in 0 .. Items
    /\ cursor \in 0 .. Items
    /\ rows \subseteq Keys
    /\ serial \subseteq rows
    /\ jobs \subseteq rows
    /\ call \in [Calls -> CallState]
    /\ failures \in 0 .. MaxFailures

Idle(c) == [pc |-> "idle", base |-> 0, at |-> KeyOf[c], limit |-> 0, snap |-> {}]

Init ==
    /\ published = 0 /\ cursor = 0
    /\ rows = {} /\ serial = {} /\ jobs = {}
    /\ call = [c \in Calls |-> Idle(c)]
    /\ failures = 0

At(c, point) == call[c].pc = point
Goto(c, point) == call' = [call EXCEPT ![c].pc = point]
Done(c) == call' = [call EXCEPT ![c] = Idle(c)]
Polls(c) == Door[c] = "poll"
Key(c) == call[c].at

\* A tick goes on with its next item; the others are through.
NextItem(c) ==
    IF Polls(c)
    THEN call' = [call EXCEPT ![c] =
            IF Key(c) < call[c].limit
            THEN [call[c] EXCEPT !.pc = "lookup", !.at = Key(c) + 1]
            ELSE [call[c] EXCEPT !.pc = "advance"]]
    ELSE Done(c)

\* canRun and assertCanRun: a count that is stale as soon as it is read.
UnderCap == Cardinality(rows) < Cap

\* The count of enforceRunCapAround, which includes the row just inserted.
WithinCap(counted) == Cardinality(counted) <= Cap

----------------------------------------------------------------------------------

\* The provider has something new.  External.
Publish ==
    /\ published < Items
    /\ published' = published + 1
    /\ UNCHANGED <<cursor, rows, serial, jobs, call, failures>>

\* Where each of them starts: the webhooks and the cron tick look for a replay before
\* they check the quota, the poll tick and the manual trigger check the quota first.
Begin(c) ==
    /\ At(c, "idle")
    /\ Goto(c, IF Door[c] \in {"poll", "manual"} THEN "quota" ELSE "lookup")
    /\ UNCHANGED <<published, cursor, rows, serial, jobs, failures>>

CheckQuota(c) ==
    /\ At(c, "quota")
    /\ IF ~UnderCap THEN Done(c)
       ELSE Goto(c, CASE Door[c] = "poll" -> "read"
                      [] Door[c] = "manual" -> "lookup"
                      [] OTHER -> "create")
    /\ UNCHANGED <<published, cursor, rows, serial, jobs, failures>>

ReadCursor(c) ==
    /\ At(c, "read")
    /\ call' = [call EXCEPT ![c] = [call[c] EXCEPT !.pc = "poll", !.base = cursor]]
    /\ UNCHANGED <<published, cursor, rows, serial, jobs, failures>>

\* trigger.poll: the items after the cursor, and the cursor after them.
Poll(c) ==
    LET base == call[c].base IN
    /\ At(c, "poll")
    /\ call' = [call EXCEPT ![c] =
          IF base < published
          THEN [call[c] EXCEPT !.pc = "lookup", !.at = base + 1, !.limit = published]
          ELSE [call[c] EXCEPT !.pc = "advance", !.limit = base]]
    /\ UNCHANGED <<published, cursor, rows, serial, jobs, failures>>

\* findFirst: a key that has a row is a duplicate.
Lookup(c) ==
    /\ At(c, "lookup")
    /\ IF Key(c) \in rows THEN NextItem(c)
       ELSE Goto(c, IF Door[c] \in {"poll", "manual"} THEN "create" ELSE "quota")
    /\ UNCHANGED <<published, cursor, rows, serial, jobs, failures>>

\* create, and the unique index that makes one of two racing calls a duplicate.
CreateForgetsJob(c) ==
    /\ At(c, "create") /\ Door[c] # "manual"
    /\ rows' = rows \union {Key(c)} /\ NextItem(c)
    /\ UNCHANGED <<published, cursor, serial, jobs, failures>>
Create(c) ==
    /\ At(c, "create") /\ Door[c] # "manual"
    /\ IF Key(c) \in rows
       THEN NextItem(c) /\ UNCHANGED rows
       ELSE rows' = rows \union {Key(c)} /\ Goto(c, "enqueue")
    /\ UNCHANGED <<published, cursor, serial, jobs, failures>>

\* enforceRunCapAround: the serialisable transaction begins.
BeginTransaction(c) ==
    /\ At(c, "create") /\ Door[c] = "manual"
    /\ call' = [call EXCEPT ![c] = [call[c] EXCEPT !.pc = "commit", !.snap = rows]]
    /\ UNCHANGED <<published, cursor, rows, serial, jobs, failures>>

\* It commits only if no other such transaction did so meanwhile, if the key is still
\* free, and if the rows it could see and its own are within the cap.
CommitsUnserialised(c) == Key(c) \notin rows /\ WithinCap(call[c].snap \union {Key(c)})
CommitsDuplicate(c) == WithinCap(call[c].snap \union {Key(c)})
Commits(c) ==
    /\ serial \subseteq call[c].snap
    /\ Key(c) \notin rows
    /\ WithinCap(call[c].snap \union {Key(c)})
EndTransaction(c) ==
    /\ At(c, "commit")
    /\ IF Commits(c)
       THEN /\ rows' = rows \union {Key(c)} /\ serial' = serial \union {Key(c)}
            /\ call' = [call EXCEPT ![c] = [call[c] EXCEPT !.pc = "enqueue", !.snap = {}]]
       ELSE Done(c) /\ UNCHANGED <<rows, serial>>
    /\ UNCHANGED <<published, cursor, jobs, failures>>

\* queue.add.
Enqueue(c) ==
    /\ At(c, "enqueue")
    /\ jobs' = jobs \union {Key(c)}
    /\ NextItem(c)
    /\ UNCHANGED <<published, cursor, rows, serial, failures>>

\* The tick's upsert, when the poll has moved on.
AdvanceCursorToPublished(c) == published
AdvanceCursorPast(c) == call[c].limit + 1
AdvanceCursorTo(c) == call[c].limit
Advance(c) ==
    /\ At(c, "advance")
    /\ cursor' = IF call[c].limit = call[c].base THEN cursor ELSE AdvanceCursorTo(c)
    /\ Done(c)
    /\ UNCHANGED <<published, rows, serial, jobs, failures>>

\* The database, the provider or the queue throws, or the process dies: the call is over
\* with what it has done so far.
Fail(c) ==
    /\ ~At(c, "idle") /\ failures < MaxFailures
    /\ failures' = failures + 1
    /\ Done(c)
    /\ UNCHANGED <<published, cursor, rows, serial, jobs>>

Step(c) ==
    \/ Begin(c) \/ CheckQuota(c) \/ ReadCursor(c) \/ Poll(c) \/ Lookup(c)
    \/ Create(c) \/ BeginTransaction(c) \/ EndTransaction(c) \/ Enqueue(c) \/ Advance(c)

Next == Publish \/ \E c \in Calls : Step(c) \/ Fail(c)
Spec == Init /\ [][Next]_vars

\* Ticks keep coming and a call that has begun goes on.
Fairness == \A c \in Calls : WF_vars(Polls(c) /\ Step(c)) /\ WF_vars(~At(c, "idle") /\ Step(c))
FairSpec == Spec /\ Fairness

----------------------------------------------------------------------------------
(* Properties.                                                                    *)

\* The cursor never moves past an item without an execution row, whichever ticks overlap
\* and wherever they break off: a later poll cannot miss it.
CursorCoversRows == \A i \in 1 .. cursor : i \in rows

\* A row without a job is in the hands of the one call that will add it, unless a call
\* broke off: there is no other way to lose a run.
InHand(k) == \E c \in Calls : At(c, "enqueue") /\ Key(c) = k
StrandedOnlyByFailure == failures = 0 => \A k \in rows \ jobs : InHand(k)

\* Nobody adds a job for somebody else's row: at most one call is about to, and only as
\* long as there is none.
OneEnqueuer ==
    \A c, d \in Calls : (At(c, "enqueue") /\ At(d, "enqueue") /\ Key(c) = Key(d)) =>
        c = d /\ Key(c) \in rows \ jobs

\* The manual runs alone never overshoot the cap, however they race.
SerialisedWithinCap == Cardinality(serial) <= Cap

\* Every published item gets its row as long as the workspace may run.
ItemsRecorded ==
    \A i \in 1 .. Items : (published >= i) ~> (i \in rows \/ Cardinality(rows) >= Cap)
==================================================================================
