# TieTide: TLA+ verification project

TieTide is an integration platform. Users draw workflows (a trigger, actions, conditions,
iterators, subworkflows) and the platform runs them on webhooks, schedules, polls, provider
events or by hand. The API (`apps/api`, NestJS) accepts triggers, edits, invitations and
Stripe's webhooks; the worker (`apps/worker`, NestJS) runs workflows from BullMQ queues. Both
use one Postgres database through Prisma. Every hard question about the system lies between
these parts: a job is redelivered, a statement fails after an external effect, two requests
read the same row before either writes it.

The specifications are written from the source. `PROJECT.json` maps every definition to the
lines it models, lists the runs, the mutants (a plausible bug for every property, which the
property must notice), the hazards by line and the theorems.

## 1. Inventory

| Component | State it keeps | Operations | Hard behaviour | What makes it correct |
|---|---|---|---|---|
| Execution queue (`worker/processors`, `worker/dlq`) | the BullMQ job: state, attempts, lock; dead-letter queue | process, failed event | redelivery, stalls, the last attempt's handler | the job's end and the row agree; a dead letter for exactly the jobs given up |
| Engine (`worker/engine/engine.service.ts`, `workflow-runner.ts`) | `WorkflowExecution.status`, `ExecutionStep` rows, a run's memory | execute, resume, run a node, route an error, settle | an error between an effect and its record; node timeouts; retries | a recorded action is not repeated; SUCCESS means every node is accounted for; one outcome is told |
| Execution tree (`iterator-executor.ts`, `nodes/logic/subworkflow.ts`, `step-budget.ts`) | child rows, step budget, depth | iterate, call a subworkflow, overflow | a retry over a half-done tree; an abandoned subworkflow | effects once; success is deep; a blown budget is fatal |
| Trigger doors (poll, cron, webhook, provider webhook, manual) | `TriggerCursor`, execution rows, jobs | look up, check the quota, create, enqueue, advance | duplicate deliveries, overlapping ticks, failure between create and enqueue | no item skipped, no row without a job, one enqueuer per row |
| Plan entitlements (`entitlements.service.ts`) | counts of rows | `assertCanRun`, `enforceRunCapAround`, the seat cap | count-then-create races | the serialisable path never overshoots |
| Connections (`worker/connections`) | tokens, status, failure count | scan, refresh-one, inline refresh, mark, persist | three kinds of refreshers of one row, rotating tokens | the newest grant survives; an ACTIVE row is clean; a due row is handled |
| Billing (`api/billing`) | subscription row, event ledger, seats at Stripe | receive an event, check out, sync seats | events twice, late, out of order; a stale member count | handled once, the row ends as Stripe has it, seats follow members |
| Organisations and invites (`api/organizations`, `api/auth/account.service.ts`) | members and their roles, invites, deleted accounts | create, remove, change a role, remove a member, invite, revoke, accept, delete an account | checks and writes in separate statements; a serialisable recount; a token consumed before it is used | an owner stays, seats hold, an invite admits one member, only one's own workspace is torn down |
| Workflow updates and provider triggers (`api/workflows`, `api/provider-triggers`) | the workflow row, its versions, subscription rows, subscriptions at the provider | update, toggle, remove, renew | calls to the provider inside a transaction that may roll back; decisions by a row read before it | versions are kept, rows and provider agree, switching again repairs, a subscription is rotated before it expires |
| Editor session (`spa/stores/editorStore.ts`, `WorkflowEditorPage.tsx`) | canvas, undo history, the mark of unsaved changes, saves under way | edit, drag, drop, undo, redo, load, restore, save, leave | edits and other saves while a save is awaited | a clean page shows what the server has; undo leads back |
| Live events | Redis pub/sub, sockets, the page's watchdog | publish, subscribe, poll | lost and overtaken messages, overlapping polls | not modelled |
| Retention | rows | sweep | select, then delete | not modelled |
| Adapters and forms (connector nodes, SPA, AI proxy, encryption, sessions) | little or none of their own | HTTP calls, rendering | none that several steps make hard | not modelled |

Interactions: the doors create a row and add a job; the processor runs the engine on it; the
engine starts child executions in its own process through the iterator and the subworkflow
node; an executor asks the connection resolver for tokens; membership changes enqueue seat
syncs, whose update makes Stripe send a webhook; the plan that the webhook writes decides
which caps the doors and the invitations apply. The editor's saves are the updates that activate
and deactivate triggers, and the subscriptions of those are what calls the provider webhook's
door.

## 2. Modules

| Module | Kind | Extends / instantiates |
|---|---|---|
| `WorkflowGraph` | pure definitions: edges, reachability, why a node did not run | |
| `ExecutionContract` | abstract specification: what one execution promises to an observer | |
| `ExecutionEngine` | one execution from the waiting job to the settled row | `WorkflowGraph`; refines `ExecutionContract` |
| `ExecutionTree` | an execution and the executions it spawns | |
| `TriggerIngest` | the doors and the run cap | |
| `ConnectionRefresh` | one OAuth connection and all its refreshers | |
| `BillingSync` | one workspace's subscription and seats | |
| `OrgMembership` | one workspace's members and invites, and who deletes it | |
| `WorkflowActivation` | one workflow's updates, versions and subscriptions at the provider | |
| `EditorSession` | one tab of the editor and its saves | |
| `*_proofs` | theorems about every module with state; the contract's is the engine's refinement of it | the module, `TLAPS` |
| `MC*` | instances for TLC | the module |

`ExecutionEngine` and `ExecutionTree` look at the same code at two grains. The first takes
one execution apart, statement by statement, and has no children; the second has the tree,
and takes a node's effect and its record as one step, since the gap between them is the
first one's subject.

### ExecutionEngine

| Specification | Code |
|---|---|
| `job`: state, `attemptsMade`, stalls, holder of the lock | the BullMQ job (external) |
| `row`, `steps` | `WorkflowExecution.status`, the `ExecutionStep` rows |
| `run[r]`: program counter, position, `keep`, `reach`, `verdict`, `failed`, `result` | locals of `EngineService.execute` and `WorkflowRunner.runInner` in the r-th activation |
| `announced`, `dlq` | `publishExecutionCompleted`, `DlqService.publishFailed` |
| `fired`, `late`, `lost`, `unmarked` | history: which run's side effect landed, what a timeout abandoned, what no SUCCESS step can record, a handler that was cut short |

Each database statement, each external effect and each queue operation is an action of its
own, because another activation, a crash or an error may come between any two of them.
`LoadSteps` and `Purge` are the read and the delete of `loadResumableOutputs`, `StartNode`,
`ExecutorReturns` and `SaveStep` the three parts of a node, `FailStep` the catch clause,
`MarkFailed`, `Announce` and `PublishFailed` the failed event's handler. A run that lost its
lock continues next to its successor. Templates, payloads and outputs are left out; of a
node's category only whether it is an action matters.

### ExecutionTree

| Specification | Code |
|---|---|
| `row`, `saved`, `effects` | `WorkflowExecution.status` of every execution, the SUCCESS steps of its actions; history: how often each took effect |
| `frame[a][r]`: program counter, node and item in hand, `reached`, `failed`, `reuse`, `budget`, `depth`, `result` | locals of `runInner`, `runIteratorNode`, `Subworkflow.execute` and `EngineService.execute` for run `r` in attempt `a` |
| `charged[a][r]` | what was consumed from the `StepBudget` that `r` minted: iterations inherit their parent's, a subworkflow mints one |
| `Plan` | the definitions: of each node its kind, its children, the branches its success may take, the targets of its error edges |

Frames of an earlier attempt stay alive when a subworkflow's node timed out. The guards and
results follow `runIteratorNode` (skip a child that succeeded, create a missing one, else
re-run in place) and `Subworkflow.execute`. `NodeFailed` is the end of the catch clause, which
every failure of a node goes through, a subworkflow's and its timeout among them: where the
node has error edges the run goes on along them, otherwise it fails. An iterator's failure
always fails the run. Which branch a success takes is left open (`Succeeds`), as it depends on
data. `Plan` gives each child to one run, node and item (`ChildAssumption`), as the
idempotency keys of the child rows do.

A database call may throw at any of them: in the node loop and around an item's row, before or
after it is written (`Blip`), around a subworkflow's child (`NodeFails`, `SubworkflowBreaks`),
at the closing update of the engine (`CloseThrows`, after which the run counts as crashed) and
at the last mark, of `onFailed` or of the engine for a child (`MarkThrows`, result `LOST`; the
row stays RUNNING). Two simplifications remain: that a write lands although its call throws is
modelled for an item's row only, and the worker's process lives, since a job that stalls is
`ExecutionEngine`'s.

### TriggerIngest

A caller is a place that keeps calling: the next tick, or the same request again. The doors
differ in their order: the webhook and cron doors look for a replay before they check the
quota, the poll and manual doors check the quota first; the manual door creates its row in
a serialisable transaction. Postgres' serialisable isolation is modelled by what it
guarantees here: such a transaction commits only if no other committed since its snapshot
(`Commits`). Every statement is an action and `Fail` ends a call between any two.

### ConnectionRefresh

Tokens are numbered by the grant that issued them, so "which token is in the row" is a
number. `rotates` distinguishes providers that replace the refresh token from those that do
not. The actors are the scan (`Scan`, `AddJob`), the refresh-one processor (`TakeOne` to
`MarkFailure`), the scan's processor taking a job that is not its own (`TakeOther`),
executions (`GetConnection` to `MarkForRefresh`) and the Google client (`ClientRefreshes`,
`KeepRead`, `KeepWrite`). Nobody locks the row. The provider is external, and so are the
clock (`Nearing`, `Lapse`) and the user who revokes the consent. Back-off windows are
abstracted: whenever there are failures, `ReadForRefresh` may find it too soon. The
dead-letter record of `onFailed` is left out.

### BillingSync

`Receive` is the ledger entry, `Retrieve`, `Check` and `Write` the three statements of a handler,
`Respond` the 2xx, and `Break` an error or a crash in any of them. An event's `created` counts
seconds, as Stripe's does, so two events may share it. The other direction is `ChangeMembers`,
`EnqueueSync` and the seat-sync processor's `TakeSync`, `CountMembers`, `UpdateSeats`.
`ChangeSilently` is the changes that enqueue nothing: `deleteAccount`, and an accept by somebody
who was a member at its check and was removed since. They are no fault and may come at any time;
`missed` is set by them, by a sync that is lost, and by one that finds no paid subscription during
the checkout, until somebody counts the members again. `TakeSync` reads the row and Stripe's
quantity in one step, since nobody else writes the quantity. The workspace is resolved by metadata
and subscribes once; the prices are known ones, so the plan is paid or free. One API process is
assumed, which is what `infra/docker/docker-compose.prod.yml` starts: BullMQ then runs one
seat-sync job at a time.

### OrgMembership

| Specification | Code |
|---|---|
| `org`, `role`, `gone`, `invites` | `Organization`, `OrganizationMember.role`, `User.deletedAt`, `OrganizationInvite` |
| `calls[c]`: program counter and what the request has read | locals of `changeMemberRole`, `removeMember`, `invites.create`, `accept`, `remove`, `deleteAccount` |
| `uses`, `overtaken`, `putBack` | history: memberships made by an invite; a superadmin went by a request that had counted others; a member came back who was removed under an accept |

A request is split where another one can make a difference: at the read its decision rests on,
at the count, and at the write. `ManageRead` stands for the checks of both role changes and
removals, which differ in the ceiling on the new role. `AcceptBegin` and `AcceptCommit` are
the serialisable transaction of `enforceSeatCapAround`: it sees the members of its snapshot,
and Postgres refuses its commit when a concurrent one of the same kind has committed
(`conflict`). `deleteAccount` runs at READ COMMITTED, so `WindCount` and `Dissolve` are two
steps. One workspace is modelled; that a user may not delete their only one depends on others.
What follows the last write (seat sync, default workspace, audit, mail) changes nothing here.

### WorkflowActivation

| Specification | Code |
|---|---|
| `exists`, `active`, `definition`, `version`, `history` | the `Workflow` row and its `WorkflowVersion` rows |
| `rows`, `subs` | `ProviderSubscription`, and what exists at the provider (external) |
| `call[c]` | locals of `update`, `remove`, `activateForWorkflow`, `deactivateForWorkflow`, `renewSubscription` |
| `call[c].overtaken`, `call[c].robbed` | history: another call has changed what this one read; a stop has taken the subscription it had just made |
| `faults`, `excused` | history: what excuses a row that does not fit the provider |

An update reads the row, decides from that whether it activates or deactivates, and opens a
transaction in which it takes a version number, stops or makes subscriptions at the provider,
writes the rows and commits. What it writes is published by `Commit`; `VersionFree` and
`RowFree` are the waits on rows that an open transaction has written. What it did at the
provider is there at once and stays when it fails. Reading the rows (`FindRows`, and
`StartRenewal` for the renewer) is a step of its own, as are the stop (`StopTarget`), the
delete and the subscription that follow, so others come in between. `ByProvider` is the
registry, in which a provider with several triggers has only the one registered last; `Stops`
and `Accepts` say what that one does with another's subscription and node.

`Stopped` says what a stop takes. Most triggers delete by the id of the row that was read.
Gmail's stops the watch of the mailbox, of which there is one (`Mailbox`), whatever the row
named: a late stop also takes a watch that somebody else has made since, and that call is
`robbed`. One workflow is modelled; that two workflows may watch one mailbox is left out, and
so are two push triggers in one definition. The passing run has one definition with a Gmail
trigger and one with a trigger that stops by id, both of which the registry resolves to
themselves; `provider_renewal` has a Drive trigger, which it does not.

### EditorSession

| Specification | Code |
|---|---|
| `page`, `fetch` | `WorkflowEditorPage`: the workflow in the address, its GET under way |
| `open`, `canvas`, `isDirty`, `dragMoved`, `past`, `future` | the editor store |
| `saves`, `restoring` | the PATCH of the toolbar's button, the hotkey and the dialog; versions that `VersionHistoryPanel` awaits |
| `server` | the rows behind the API |
| `outrun`, `blurred`, `loaded`, `trimmed` | history, see below |

Each await is a gap. A page is `Open`, its GET is answered (`Answer`) and then loaded (`Load`);
a save is sent, lands on the server and is answered (`SaveSend`, `SaveLand`, `SaveDone`), or is
lost before or after it landed (`SaveFail`); a restore is asked for and comes back
(`RestoreAsk`, `RestoreLoad`) into the store of whatever page is open by then. A definition is
told apart by the edit that made it and by where its nodes lie, because a drag moves nodes
before it is an edit and a drop takes its undo snapshot after that. No other tab edits.
Aliases that loading adds to old nodes, selections and view modes are left out. The server's
side of a save is `WorkflowActivation`.

The code has four races, and `blurred` names them where they happen, by what came between two
steps and never by comparing the page with the server: a save of an earlier visit lands
between the answer of a GET and its load (`Load`); a restored version is loaded as clean
(`RestoreLoad`); a save that something else has outrun lands under a page that is clean by then
(`SaveLand`); and the answer of an outrun save clears a mark that it did not earn
(`MarkSaved`). A save is outrun by an edit, a drag, undo, redo, a load, a leave, or an outrun
save that lands after it.

## 3. Runs

| Run | Asks | Bounds | States |
|---|---|---|---|
| `execution_engine` | Do retries keep the contract over one graph? | 5 nodes, 2 attempts, no stall | 76 thousand |
| `execution_tree` | Do retries, timeouts and overflows keep the tree consistent? | 9 executions, 2 attempts, 2 things that go wrong, at most 1 of them a timeout, budget 5, depth 2 | 167 thousand |
| `poll_ticks` | Do overlapping ticks lose an item? | 2 ticks, 1 webhook, 2 items, cap 2, 1 failure | 21 thousand |
| `run_cap` | Do racing doors double a job or overshoot? | 5 callers, cap 1, two of one key | 78 thousand |
| `connection_refresh` | Do races lose a grant or leave a bad row? | 2 executions, 2 attempts, 1 expiry, 1 fault | 0.9 million |
| `billing` | Do deliveries and membership changes converge? | 2 requests, 3 events, 2 changes, 1 fault | 3.3 million |
| `workflow_activation` | Do saves, toggles, removals and renewals lose a version or a subscription? | 2 users, 1 renewer, 2 definitions, 2 channels and the mailbox's watch, 2 versions, 1 fault | 1.6 million |
| `org_membership` | Do racing requests lose the owner, a seat or an invite? | 3 users, 2 invites, 2 requests at a time, 2 seats, 2 ranks | 1.0 million |
| `editor_session` | Do edits, undo and saves lose changes? | 2 changes, history of 1, 3 places for saves, 1 restore at a time, 2 workflows | 1.9 million |
| `billing_ledger`, `provider_renewal`, `account_deletion` | a document's claim, violated | as above; a Drive trigger; the same instance | counterexample |

Why the bounds are enough for what they are asked: every property that compares two actors needs
two of them, and each instance has two of every kind that can meet its like. Two attempts are the
least number with a first, a retry and a last one. One fault, wherever the module lets one strike,
shows what a single error does; the tree has two, since an error and the failure to record it are
two. The engine's graph has one of each: an error edge, a join behind it, a conditional, and a
node that is switched off. The tree instance branches to a subworkflow or past it, has an error
edge behind a call that fails, puts iterators inside and beside the subworkflow, reaches the depth
cap on two paths, and has a budget that is one step short for a first attempt and enough for a
second one that finds an item done. A lost closing write of the root needs a failure in each of
its attempts and one of the mark, three in all: the bound of two reaches it only for a child's
row, where two suffice, so in this run `RootSettles` holds without its exception; the theorems
have no bound. Three billing events are a checkout and two changes, delivered
in any of their orders. Two users and a renewer overlap in every pair; two channels are the old
one and its successor, and the mailbox has one watch. Three users are an owner, somebody who acts
on them and a third who takes the seat; two ranks suffice because only superadmins are counted,
and both sides of each ceiling occur. Two changes overflow a history of one. `MaxStalls = 0` in
the engine's run means that no zombie activation is explored; the module has them, the properties
exempt them, and a run with one is planned.

What the properties say, beyond types:

* `AtMostOneRecordedEffect`: over all attempts at most one landing of an action's side effect
  is one that a SUCCESS step can record. Exempt are effects whose record failed, late effects
  of a timed-out executor, and jobs whose lock was lost: there the code does repeat.
* `SettledExecution`, `RowSettles`: the job's end, the row, the announcement and the dead
  letter agree, and nobody waits for ever, unless the final mark itself was lost.
* `SuccessIsComplete`: a SUCCESS row has a settled step for every node, and every failure
  among them had an error edge.
* `KeepsContract`: the refinement of `ExecutionContract`.
* `EffectsOnce`, `SuccessIsDeep`, `ItemsInOrder`: the same concerns over the tree. They exempt
  trees in which a subworkflow's node timed out, since the abandoned run works on the same
  child rows. Below the nodes that a successful run reached is nothing that failed, but for items
  of an iterator that continues on errors and for nodes whose error edges the run followed.
* `OverflowIsFatal`: no iterator masks a blown budget. The run that minted it does not succeed,
  and the job is not tried again for the root's own; a subworkflow's is an ordinary failure of
  its node, which may be retried or go on along an error edge.
* `OrphansWereUnwound`, `RootSettles`: a child's row stays RUNNING only where an error unwound it
  or the run above it or where its last update was lost; the root settles unless its own was.
* `CursorCoversRows`, `ItemsRecorded`: no published item is passed over, and each is
  recorded while the plan allows runs. `StrandedOnlyByFailure`, `OneEnqueuer`: a row without
  a job is in the hands of exactly one call, unless a call broke off.
  `SerialisedWithinCap`: the manual runs alone respect the cap.
* `NewestGrantKept`, `CleanWhenActive`, `DueIsHandled`: no race loses the newest refresh token;
  failures on an ACTIVE row exist only inside the failed event's handler; a due connection is
  refreshed or put out of service.
* `HandledOnce`, `LostOnlyByFault`, `SettledRowIsCurrent`, `SeatsFollowMembers`: the ledger's
  promise; what is recorded was handled or still is, unless something broke; the row ends as Stripe
  has it unless two handlers overlapped between check and write; the billed seats follow the
  members unless a change was missed, and one sync that counts makes up for every miss before it.
* `Reconciled`: an active workflow's trigger is heard, one that is off has no row and the provider
  keeps no subscription of nobody's, unless a call broke off, the trigger was edited while it was
  on (the code then does not subscribe again) or somebody wrote what a stale read told.
  `SwitchingHeals`: whatever it was, a user who was not overtaken and switches the workflow on
  makes it heard, unless robbed of the mailbox's watch, and one who switches it off leaves no row.
  A subscription that is left behind at the provider stays there.
  `HistoryIsFaithful`: versions have no gaps, none is written over, the newest is what runs.
* `SingleUse`, `SeatsWithinCap`, `OwnerKept`, `TokenBuysSeat`: the last three say up to which
  race. The code has two open ones: a superadmin who goes by a request that had counted
  others (`overtaken`) may be the last, and an accept whose caller was a member at its check
  and was removed since creates the membership without the recount (`putBack`). An accept that
  nobody overtakes never fails at the recount, so the token is not burnt.
* `CleanIsSaved`, `UndoReachesLoaded`: a page without the mark of unsaved changes shows what the
  server has, but for the four races named above; undoing everything gives back what was loaded,
  up to where nodes lie.

### Fairness

* `ExecutionEngine`: weak fairness of `Take` (some worker takes a waiting job) and of the run
  that holds the lock. BullMQ's lock is what tells a live worker from a dead one, so a holder
  that stops is a stall, which is a step of its own. A zombie gets none.
* `ExecutionTree`: the event loop resumes every promise that can go on; BullMQ hands out the
  job. Failures and timeouts are not fair.
* `TriggerIngest`: the repeatable poll job keeps firing, and a call that began goes on or
  fails. Nobody promises that a webhook or a manual request is repeated.
* `ConnectionRefresh`: the scheduler recurs and finished jobs are removed. `TakeOne` has strong
  fairness, because two processors block on one queue and Redis serves the blocked clients in
  turn; without it the other processor could take every job. Executions have none.
* `BillingSync`, `OrgMembership`, `WorkflowActivation`, `EditorSession`: only safety is checked,
  so none. Users need not finish what they began.

Deadlock is checked, except where the system may really come to rest: an engine whose
job is over, a billing system with nothing left to deliver within the bounds, a workspace that
was deleted, and a workflow that was removed.

### Disagreements between code and documents

1. `billing_ledger`: an event is recorded before it is dispatched; if the dispatch throws, the
   retry is acknowledged as already processed and the change is lost.
2. `provider_renewal`: the renewer resolves a trigger by its provider, and each trigger that is
   registered replaces the provider's last one. A Drive channel is renewed by Gmail's trigger,
   which refuses the node's configuration, and expires under an active workflow.
3. `account_deletion`: `deleteAccount` reads the memberships before its transaction. A user who
   is removed from a workspace in between, leaving one member, deletes that member's workspace.

Further disagreements and weaknesses seen while modelling, which no run checks:

* A poll tick that breaks off between `create` and `queue.add` leaves a row that the next tick
  takes for a duplicate, and the cursor passes it; `poll-processor.ts:160` says that the cursor
  waits for both. `StrandedOnlyByFailure` exempts it.
* A subworkflow's run mints a step budget of its own (`subworkflow.ts:87`), while the comments in
  `step-budget.ts` promise one counter for the whole tree.
* Two processors compete for the queue `oauth-refresh`, and the scan's completes a refresh job
  untouched, its retries included; `DueIsHandled` relies on the next scan.
* A member who joins during the checkout is not billed: the seat sync finds the row on FREE and no
  webhook repeats it (`seat-sync.processor.ts:34`). `SeatsFollowMembers` exempts it.
* A restored version is loaded as clean (`VersionHistoryPanel.tsx:37`), so neither the button nor
  the hotkey saves it before another edit, although the API says the editor must save to commit
  it; and it goes into the store of whatever page is open when it comes back. Edits made while a
  save is awaited are marked saved (`saveWorkflow.ts:10`). A page that is opened again while a
  save of its last visit is under way may load what that save then replaces. A drop after a drag
  takes its snapshot of the moved nodes, so undo does not move them back.
* `deleteAccount` enqueues no seat sync for the workspaces the user leaves
  (`account.service.ts:198`), nor does an accept whose caller was a member at its check and was
  removed since (`organization-invites.service.ts:151`): the subscription bills for the wrong
  number until another change is counted. An accept under way makes a deleted user a member again.
* Gmail's `onDeactivate` stops the mailbox's watch whatever row it was called for
  (`gmail-message-received.trigger.ts:121`): a stop that comes late takes the watch of a workflow
  that has just been switched on again.
* The closing update of an item (`iterator-executor.ts:242`) may throw after the item's run: its
  row stays RUNNING below a run that goes on to fail, or to succeed along an error edge above.
  `onFailed` only logs that its mark was lost (`workflow.processor.ts:68`): the root then stays
  RUNNING with no job behind it.
* An overflow of a subworkflow's budget is a retryable failure of its parent's node, so the job is
  tried again for it, although `workflow-runner.ts:256` calls it structural.
* Two polls of the page's watchdog may overlap, and the older answer, arriving last, shows steps
  as running that have finished.
* `onFailed` counts a failure and sets the status in two updates, so a refresh that succeeds in
  between is put out of service with a clean count; of two executions that refresh one rotating
  token the loser marks the connection EXPIRED although the winner has just renewed it; the scan
  never selects a connection that is not ACTIVE, so `MAX_REFRESH_FAILURES` is hardly ever reached.
* `isNotStale` reads in a statement of its own, and a handler that was overtaken there undoes a
  newer event; the plan follows from the price alone, so an invoice event after the subscription's
  end puts the workspace back on the paid plan.

## 4. Proofs

TLC checks small instances. The theorems below hold for every value of the constants that
meets the modules' named assumptions.

| Module | Theorem | Argument |
|---|---|---|
| `ExecutionEngine_proofs` | `TypeCorrect` | type invariant, one step per action |
| | `RecordedEffectsLandOnce` | `AtMostOneRecordedEffect` is not inductive. The strengthening, for jobs that never stalled: the activations take turns (`Turns`); nothing of a node that is ahead of a run has happened in it (`Untouched`); a landing is on record, given up as lost or about to be recorded (`Remembered`); the node in hand is none that could be reused (`InHand`); and a retry has read every success an earlier run recorded (`KnowsSuccesses`). Together they leave no second landing to a run that resumes |
| | `EndsAgree` | `Outcome`: while the activations take turns, where each run stands says what the row shows, what was announced and what the dead-letter queue holds (`Standing`), and the job's state says it once all runs are out of the way (`Verdict`) |
| | `SuccessAccountsForAll` | `Cover`: of a run in the loop, a RUNNING step is the node in hand, a FAILED one was routed or fails the run, nothing an earlier attempt failed is left, and no node behind it is without a step |
| | `EngineKeepsContract` | the refinement of `ExecutionContract`, one step per action: `SaveStep` records a first success, saving the row precedes telling it, a purge of failed steps is unseen, and a stall is the contract's disturbance |
| `ExecutionTree_proofs` | `TreeStands`, `TypeCorrect` | the types are not inductive alone: a run is at a node of its plan, and its parent where it waits for it. `Tree`: what a frame holds fits its place (`Shape`), items begin in order (`Begun`), the run that minted a budget is on its way as long as one that spends it (`Owned`), an active run is awaited by its parent unless a timeout left it behind (`Awaited`), the active runs of one budget are one chain (`Stacked`), and without a timeout the chain is the last attempt's, from its root (`Rooted`). Every action, those that throw included, is first shown to be of one of four forms, a run that moves, a run that starts a child, a new attempt, or a step that leaves the frames alone, and each part is proved once per form |
| | `OverflowsAreFatal` | `Aborting`: an overflow that is on record has reached the run that minted the budget, or an iterator of that budget is waiting for the run that has it. By `Stacked` that iterator is the only run of the chain that can move, so nobody passes it. `Doomed`: only the last attempt's root is under way, and where it ended as FATAL its row says FAILED, so the job is not taken again |
| | `OrphansUnwound` | `Orphaned`: some attempt accounts for each row that is RUNNING (`Witness`): the run is under way, its iterator waits to settle it, or it or the run above it has broken off, which a run that has ended never takes back |
| | `KeptAlways`, `EffectsHappenOnce`, `SuccessesAreDeep`, `ItemsRunInOrder` | `Kept`, as long as no node has timed out: effects are the saved steps (`Counted`); an active run knows every saved step ahead of it (`Knowing`), which by `Rooted` no other run adds to; what is below a node that a run of the last attempt has reached and left behind is resolved, unless the run has failed (`Progress`): it succeeded, continueOnError allows its failure, or the node's error edges were followed (`Resolved`). That makes everything below a success resolved by the run that succeeded (`Deep`), and what is ahead of an item successful (`InOrder`) |
| `TriggerIngest_proofs` | `TypeCorrect` | with the next: a tick's key stays inside the window it polled |
| | `CursorNeverSkips`, `LostOnlyByFailure`, `NobodyElseEnqueues`, `CapHolds` | one invariant: ranges of what a call holds (`Ranges`), every tick has a row for the items between the cursor it read and the one in hand (`TickInv`), and the four properties. The cap needs the cardinality lemmas of the library: a committed serialisable row was in the snapshot that was counted |
| `BillingSync_proofs` | `TypeCorrect` | types with `Busy`: a request in progress has an event |
| | `EventsHandledOnce`, `EventsLostOnlyByFault` | `Alone` and `Unhandled`: two requests never work on one event, and theirs is recorded and not handled; `Recorded`: only recorded events are ever handled |
| | `RowConverges` | the newest event says what Stripe has (`Published`), nothing arrives that was not sent and the high-water mark never passes the newest (`Delivered`), a request about to write is not behind the mark unless two overlapped (`Carried`), and a newest event that was handled is what the row shows (`Reflected`) |
| | `SeatsConverge` | `SInv`: unless a change was missed since the last count, what is billed differs from the members only while a sync is owed, queued or about to write their number |
| `OrgMembership_proofs` | `TypeCorrect` | types and `Settled`: no workspace, no members or pending invites |
| | `InvitesUsedOnce` | `Tokens`: whoever has consumed an invite and not yet made the member is alone with it, and it has made none |
| | `SeatsHold` | `Counted`: a transaction without a conflict has all present members in its snapshot, so its recount is not stale |
| | `TokensBuySeats` | `Bought`: who consumed the token had counted fewer members than seats, and the snapshot is that count until somebody joins or leaves |
| | `OwnersStay` | `Guarded`: a request that takes a superadmin's role has counted two; if the other went meanwhile, that is `overtaken` |
| `EditorSession_proofs` | `TypeCorrect`, `CleanPageIsSaved`, `UndoLeadsBack` | `Tracked`: a save that nothing has outrun carries the canvas of its own page, and the server has it once it has landed; `Fetched`: the answer to a GET that no save has outrun is what the server has. The bottom of the history, with the canvas on top of it, is what undo reaches; pushing and popping keep it until the limit trims it |
| `WorkflowActivation_proofs` | `TypeCorrect`, `HistoryStaysFaithful` | `Numbered`: a call that has inserted a version and not ended is alone, and the version it read before is the newest committed one. The action property follows from the commit alone |
| | `SwitchingAlwaysHeals` | `Known`: where a call is says what it is and has found (`Shaped`), a call that was not overtaken still reads the same of the workflow and its rows (`Informed`), one that has written a row keeps the workflow there (`Holding`), and what it has subscribed is live, its own and in no row unless it was robbed (`Held`); only the mailbox's watch is Gmail's (`Watched`) |
| | `RowsReconcile` | `Reconciling`: `Good`, in every calm state (no call broke off, nothing is excused, and who is bound to write was not overtaken): a row is that of the trigger that is on (`Fits`), a live subscription is in a row or held by a call (`Owned`), what lives behind a row is of its kind (`Matches`), and a workflow that is on is heard unless a call that stops it is under way (`Hears`), which leaves nothing live behind but what another has subscribed since (`Silenced`), and who is robbed is so by a call that will be overtaken or overtake it (`Robbed`). Hypothesis: `OwnTriggers`, that `getByProvider` finds the trigger again that subscribed. It holds of Gmail, OneDrive and Stripe triggers. For Drive the property fails, since the channel is never stopped, and an Outlook subscription is renewed as OneDrive's; a registry that keys triggers by node type would discharge it |
| `ConnectionRefresh_proofs` | `TypeCorrect` | types with `JobFits`: who works on the job has it active, within its attempts |
| | `NoGrantIsLost` | `Unspent`: where tokens rotate nobody holds a token newer than the row's, and who carries a new grant carries the newest, alone, with the row one behind |
| | `ActiveIsClean` | inductive with the types |

The assumptions are those a deployment meets: positive numbers of attempts, natural
bounds, edges that go forward in topological order, keys of the non-poll calls apart from
the items' keys. In the execution tree a subworkflow node has one child, the run of the
workflow it calls, and a child is that of one run, node and item (`ChildAssumption`): child
rows are found by the idempotency keys `iterator:<parent>:<node>:<index>` and
`subworkflow:<execution>:<node>`, unique in their workflow. The assumptions are evaluated by
TLC in every run; `OwnTriggers` is a hypothesis of one theorem and no assumption, for the code
does not meet it everywhere.

Only model-checked: the liveness properties, whose fairness the prover cannot take apart
(ENABLED), and the three disagreements, which are counterexamples. Every safety invariant and
every action property that a passing run checks, and the refinement, is stated by a theorem.
After a stall (the engine) or a timeout (the tree) the theorems on effects promise nothing,
as the code does not: their invariants begin with that condition. Out of the prover's reach
altogether are induction over data, so what a recursive computation returns for every input,
and modules with RECURSIVE operators, of which there are none here.

## 5. Not modelled, and the plan

Not modelled: connector nodes (HTTP adapters, an effect that lands or does not), the SPA outside
the editor session, the AI proxy, encryption, sessions (checks local to a request), retention
(one select and one delete), live events (best effort by design, see the weaknesses), re-runs
by hand (`repeat`), webhook signatures and rate limits, tags, folders and schedules. Most of the
repository is of this kind: several hundred adapters, forms and DTOs without state of their
own. The topological sort is assumed rather than modelled: nodes are numbered in its order.

Planned next, in this order:

1. Theorems on what the code still keeps where those of today promise nothing: the engine after
   a stall, and in the tree the effects of the runs no timeout touched.
2. The engine with one forgiven stall, to say what a zombie run can and cannot do.
3. `LiveEvents`: publishing after the write, the socket and the watchdog's polls.
4. `OrgMembership` composed with `BillingSync`: which changes of members are followed by a sync.
