---------------------------- MODULE WorkflowActivation ----------------------------
(* One workflow that a push trigger starts: the versions its saves leave behind,   *)
(* the flag that switches it on, the ProviderSubscription rows, and the             *)
(* subscriptions that really exist at the provider.  Saves, toggles and removals of *)
(* several users interleave with the hourly renewal.  An update works inside a      *)
(* READ COMMITTED transaction, but decides by a row it read before it, and calls    *)
(* the provider in the middle of it: no rollback takes such a call back.            *)
EXTENDS Integers, FiniteSets

CONSTANTS
    Users,        \* the callers of WorkflowsService
    Renewers,     \* the jobs of the renewal queue
    Definitions,  \* what can be saved
    Initial,      \* the definition the workflow is created with
    Nodes,
    NodeOf,       \* the push trigger of a definition, or NoNode
    KindOf,       \* its type
    Channels,     \* bound: subscriptions by an id of their own at a time
    Mailbox,      \* Gmail has one watch for the whole mailbox
    MaxVersion,   \* bound: saves
    MaxFaults     \* bound: calls that break off or that the provider refuses

Keep == "keep"      \* a field the request leaves out
NoNode == "none"
Kinds == {"gmail", "drive", "outlook", "onedrive", "stripe"}
Toggles == {"on", "off", Keep}
Ids == Channels \union {Mailbox}
None == "none"
Callers == Users \union Renewers

ASSUME ActivationAssumption ==
    /\ Users \intersect Renewers = {}
    /\ Keep \notin Definitions /\ Initial \in Definitions
    /\ NodeOf \in [Definitions -> Nodes \union {NoNode}] /\ NoNode \notin Nodes
    /\ KindOf \in [Definitions -> Kinds]
    /\ \A d, e \in Definitions : NodeOf[d] = NodeOf[e] => KindOf[d] = KindOf[e]
    /\ None \notin Ids /\ Mailbox \notin Channels
    /\ MaxVersion \in Nat \ {0} /\ MaxFaults \in Nat

VARIABLES
    exists, active, definition, version,  \* the Workflow row
    history,                              \* WorkflowVersion: version -> definition
    rows,                                 \* ProviderSubscription: node -> id at the provider
    subs,                                 \* the subscriptions at the provider
    call,                                 \* where each caller is
    faults, excused                       \* what can excuse a row that does not fit

workflow == <<exists, active, definition, version, history>>
excuses == <<faults, excused>>
vars == <<workflow, rows, subs, call, excuses>>

Points == {"idle", "prior", "insert", "find", "stop", "delete", "subscribe", "upsert", "commit", "plain",
           "remove", "renew", "write"}
Call == [pc : Points,
         op : {"update", "remove", "renew"},
         save : Definitions \union {Keep}, toggle : Toggles,      \* the request
         was : BOOLEAN, had : Definitions,                        \* the row it read
         prior : Nat,                                             \* the version it read
         found : SUBSET Nodes,                                    \* whose rows it read
         target : Ids \union {None},                              \* what one of them names
         id : Ids \union {None},                                  \* what it subscribed
         robbed : BOOLEAN,          \* which another call has stopped since
         overtaken : BOOLEAN]       \* others have changed what it read since
Idle == [pc |-> "idle", op |-> "update", save |-> Keep, toggle |-> Keep, was |-> FALSE,
         had |-> Initial, prior |-> 0, found |-> {}, target |-> None, id |-> None,
         robbed |-> FALSE, overtaken |-> FALSE]
Unsubscribed == [live |-> FALSE, kind |-> "stripe", age |-> "new"]

TypeOK ==
    /\ exists \in BOOLEAN /\ active \in BOOLEAN /\ definition \in Definitions
    /\ version \in 1 .. MaxVersion /\ history \in [1 .. version -> Definitions]
    /\ rows \in [Nodes -> Ids \union {None}]
    /\ subs \in [Ids -> [live : BOOLEAN, kind : Kinds, age : {"new", "due", "passed"}]]
    /\ call \in [Callers -> Call]
    /\ faults \in 0 .. MaxFaults /\ excused \in BOOLEAN

Init ==
    /\ exists = TRUE /\ active = FALSE /\ definition = Initial
    /\ version = 1 /\ history = [v \in {1} |-> Initial]
    /\ rows = [n \in Nodes |-> None]
    /\ subs = [i \in Ids |-> Unsubscribed]
    /\ call = [c \in Callers |-> Idle]
    /\ faults = 0 /\ excused = FALSE

At(c, point) == call[c].pc = point
Goto(c, point) == call' = [call EXCEPT ![c].pc = point]
Done(c) == call' = [call EXCEPT ![c] = Idle]
HasPush(d) == NodeOf[d] # NoNode

\* Whether a call decides by what it read of the workflow and its rows.
Deciding(c) == ~At(c, "idle") /\ (call[c].op = "update" => call[c].toggle # Keep)

\* A call that writes has overtaken those that read what it changes; what a call writes that
\* has been overtaken itself excuses what does not fit.
Overtaking(c, k, changes) ==
    call' = [d \in Callers |-> IF d = c THEN k
                              ELSE IF ~Deciding(d) THEN call[d]
                              ELSE [call[d] EXCEPT !.overtaken = @ \/ changes]]
Writes(c, k) ==
    /\ Overtaking(c, k, <<exists, active, definition, rows>>' # <<exists, active, definition, rows>>)
    /\ excused' = (excused \/ call[c].overtaken)

\* registry.getByProvider: each trigger that is registered replaces the one of the same
\* provider, and Gmail and OneDrive are the last of theirs.
ByProvider(kind) ==
    CASE kind = "drive" -> "gmail"
      [] kind = "outlook" -> "onedrive"
      [] OTHER -> kind

\* Whether a trigger's onDeactivate stops what another kind subscribed: all those of
\* Microsoft delete by id, while Gmail stops the mailbox's watch and no Drive channel.
Stops(trigger, kind) == trigger = kind \/ (trigger = "onedrive" /\ kind = "outlook")

\* Whether its onActivate accepts the configuration of another kind's node: OneDrive's reads
\* none of it, Gmail's requires a topicName.
Accepts(trigger, kind) == trigger = kind \/ trigger = "onedrive"

----------------------------------------------------------------------------------
(* What the subscriptions and the transactions of the others allow.               *)

\* What onDeactivate stops: by the id that was read, or Gmail the mailbox's watch.
Stopped(k) ==
    LET kind == KindOf[k.had] IN
    {i \in Ids : Stops(ByProvider(kind), kind) /\ i = IF kind = "gmail" THEN Mailbox ELSE k.target}
Stop(ids) == [i \in Ids |-> IF i \in ids THEN Unsubscribed ELSE subs[i]]

Unused(i) ==
    /\ ~subs[i].live /\ \A n \in Nodes : rows[n] # i
    /\ \A c \in Callers : i \notin {call[c].id, call[c].target}
NewIds(kind) == IF kind = "gmail" THEN {Mailbox} ELSE {i \in Channels : Unused(i)}
Subscribed(id, kind) == [subs EXCEPT ![id] = [live |-> TRUE, kind |-> kind, age |-> "new"]]

WillActivate(k) == k.toggle = "on" /\ ~k.was
WillDeactivate(k) == k.toggle = "off" /\ k.was
NewDefinitionAsRead(k) == k.had
NewDefinition(k) == IF k.save = Keep THEN k.had ELSE k.save

AfterStop(k) == IF WillActivate(k) /\ HasPush(NewDefinition(k)) THEN "subscribe" ELSE "commit"
AfterVersion(k) ==
    IF WillDeactivate(k) /\ HasPush(k.had) THEN "find" ELSE AfterStop(k)
FirstPoint(k) ==
    CASE k.save # Keep -> "prior"
      [] k.save = Keep /\ (WillActivate(k) \/ WillDeactivate(k)) -> AfterVersion(k)
      [] OTHER -> "plain"

\* A version or a row that an open transaction has written.
HoldsVersion(c) ==
    /\ call[c].op = "update" /\ call[c].save # Keep
    /\ call[c].pc \in {"find", "stop", "delete", "subscribe", "upsert", "commit"}
HoldsRow(c, n) ==
    /\ call[c].op = "update" /\ At(c, "commit")
    /\ \/ n \in call[c].found
       \/ call[c].id # None /\ n = NodeOf[NewDefinition(call[c])]
RowFree(c, n) == \A d \in Callers \ {c} : ~HoldsRow(d, n)
VersionFree(c, v) == \A d \in Callers \ {c} : ~(HoldsVersion(d) /\ call[d].prior + 1 = v)

----------------------------------------------------------------------------------
(* WorkflowsService.update                                                        *)

\* The row is read outside the transaction; it says whether this is an activation.
Update(c, save, toggle) ==
    LET read == [Idle EXCEPT !.save = save, !.toggle = toggle]
        k == IF toggle = Keep THEN read ELSE [read EXCEPT !.was = active, !.had = definition]
    IN
    /\ At(c, "idle") /\ exists
    /\ save # Keep \/ toggle # Keep
    /\ save # Keep => version < MaxVersion
    /\ call' = [call EXCEPT ![c] = [k EXCEPT !.pc = FirstPoint(k)]]
    /\ UNCHANGED <<workflow, rows, subs, excuses>>

\* Nothing to activate: isActive is written as the request has it.
Plain(c) ==
    /\ At(c, "plain")
    /\ active' = (exists /\ call[c].toggle = "on")
    /\ UNCHANGED <<exists, definition, version, history, rows, subs, faults>>
    /\ Writes(c, Idle)

ReadPrior(c) ==
    /\ At(c, "prior") /\ version < MaxVersion
    /\ IF exists
       THEN call' = [call EXCEPT ![c] = [call[c] EXCEPT !.pc = "insert", !.prior = version]]
       ELSE Done(c)
    /\ UNCHANGED <<workflow, rows, subs, excuses>>

\* workflowVersion.create waits for a transaction that inserted the same version, and fails
\* if that one commits or if the workflow is gone.
VersionNeverTaken(c) == FALSE
VersionTaken(c) == call[c].prior + 1 \in DOMAIN history
InsertVersion(c) ==
    /\ At(c, "insert") /\ VersionFree(c, call[c].prior + 1)
    /\ IF exists /\ ~VersionTaken(c) THEN Goto(c, AfterVersion(call[c])) ELSE Done(c)
    /\ UNCHANGED <<workflow, rows, subs, excuses>>

\* onActivate at the provider, in the middle of the transaction.
Subscribe(c) ==
    LET kind == KindOf[NewDefinition(call[c])] IN
    /\ At(c, "subscribe")
    /\ \E id \in NewIds(kind) :
          /\ subs' = Subscribed(id, kind)
          /\ call' = [call EXCEPT ![c] = [call[c] EXCEPT !.pc = "upsert", !.id = id]]
    /\ UNCHANGED <<workflow, rows, excuses>>

\* The row's upsert, which fails if the workflow is gone.
Upsert(c) ==
    /\ At(c, "upsert") /\ RowFree(c, NodeOf[NewDefinition(call[c])])
    /\ IF exists THEN Goto(c, "commit") ELSE Done(c)
    /\ excused' = (excused \/ ~exists)
    /\ UNCHANGED <<workflow, rows, subs, faults>>

\* workflow.update and the commit, which publishes what the transaction has written.
RowsAfter(k) ==
    [n \in Nodes |-> CASE n \in k.found -> None
                       [] k.id # None /\ n = NodeOf[NewDefinition(k)] -> k.id
                       [] OTHER -> rows[n]]
SavedAsSent(k) == k.save
Saved(k) == IF k.save = Keep THEN definition ELSE k.save
Commit(c) ==
    LET k == call[c] IN
    /\ At(c, "commit")
    /\ UNCHANGED <<exists, subs, faults>>
    /\ IF exists
       THEN /\ active' = IF k.toggle = Keep THEN active ELSE k.toggle = "on"
            /\ definition' = Saved(k)
            /\ version' = IF k.save = Keep THEN version ELSE k.prior + 1
            /\ history' = IF k.save = Keep THEN history
                          ELSE [v \in 1 .. (k.prior + 1) |->
                                  IF v = k.prior + 1 THEN k.save ELSE history[v]]
            /\ rows' = RowsAfter(k)
            /\ Overtaking(c, Idle, <<active, definition, rows>>' # <<active, definition, rows>>)
            /\ excused' = \/ excused \/ (k.toggle # Keep /\ k.overtaken)
                          \/ active' /\ ~WillActivate(k) /\ definition' # definition
       ELSE Done(c) /\ UNCHANGED <<active, definition, version, history, rows, excused>>

----------------------------------------------------------------------------------
(* deactivateForWorkflow, inside an update or on its way to a removal             *)

\* The rows are read.  The one of a node that the workflow had names what to stop.
Target(d) == IF HasPush(d) THEN rows[NodeOf[d]] ELSE None
FindRows(c) ==
    LET target == Target(call[c].had) IN
    /\ At(c, "find")
    /\ call' = [call EXCEPT ![c] =
                  [call[c] EXCEPT !.pc = IF target = None THEN "delete" ELSE "stop",
                                  !.found = {n \in Nodes : rows[n] # None}, !.target = target]]
    /\ UNCHANGED <<workflow, rows, subs, excuses>>

\* onDeactivate; whether the provider obeys is not checked.  A call whose own subscription
\* goes is robbed.
StopNothing(c, obeyed) ==
    /\ At(c, "stop") /\ Goto(c, IF call[c].op = "renew" THEN "renew" ELSE "delete")
    /\ UNCHANGED <<workflow, rows, subs, excuses>>
StopTarget(c, obeyed) ==
    LET k == call[c] IN
    /\ At(c, "stop")
    /\ IF obeyed
       THEN subs' = Stop(Stopped(k)) /\ UNCHANGED faults
       ELSE faults < MaxFaults /\ faults' = faults + 1 /\ UNCHANGED subs
    /\ call' = [d \in Callers |->
          IF d = c THEN [k EXCEPT !.pc = IF k.op = "renew" THEN "renew" ELSE "delete",
                                  !.target = None]
          ELSE [call[d] EXCEPT !.robbed = @ \/ (obeyed /\ call[d].id \in Stopped(k))]]
    /\ UNCHANGED <<workflow, rows, excused>>

\* Each row is deleted by its id, which fails if it is gone; inside an update the deletion
\* is seen by the others when it commits.
DeleteRows(c) ==
    LET k == call[c] IN
    /\ At(c, "delete") /\ \A n \in k.found : RowFree(c, n)
    /\ UNCHANGED <<workflow, subs, faults>>
    /\ IF \E n \in k.found : rows[n] = None
       THEN rows' = rows /\ Writes(c, Idle)
       ELSE IF k.op = "update"
            THEN Goto(c, "commit") /\ UNCHANGED <<rows, excused>>
            ELSE /\ rows' = [n \in Nodes |-> IF n \in k.found THEN None ELSE rows[n]]
                 /\ Writes(c, [k EXCEPT !.pc = "remove", !.found = Idle.found])

----------------------------------------------------------------------------------
(* WorkflowsService.remove                                                        *)

Remove(c) ==
    LET k == [Idle EXCEPT !.op = "remove", !.was = active, !.had = definition] IN
    /\ At(c, "idle") /\ exists
    /\ call' = [call EXCEPT ![c] =
                  [k EXCEPT !.pc = IF active /\ HasPush(definition) THEN "find" ELSE "remove"]]
    /\ UNCHANGED <<workflow, rows, subs, excuses>>

\* deleteMany takes the rows along; it waits for the transactions that have written any.
DeleteWorkflow(c) ==
    /\ At(c, "remove") /\ \A n \in Nodes : RowFree(c, n)
    /\ \A d \in Callers \ {c} : ~HoldsVersion(d)
    /\ exists' = FALSE /\ active' = FALSE
    /\ rows' = [n \in Nodes |-> None]
    /\ UNCHANGED <<definition, version, history, subs, faults>>
    /\ Writes(c, Idle)

----------------------------------------------------------------------------------
(* The hourly renewal                                                             *)

\* findMany and the findUnique of renewSubscription, for a row that expires soon: skipped if
\* the workflow is off or its node gone, else the old subscription is stopped first, as well
\* as may be.  A row tells its expiry also when its subscription is gone before that.
Passed(i) == IF subs[i].live THEN [subs EXCEPT ![i].age = "passed"] ELSE subs
StartRenewal(c, n) ==
    LET i == rows[n] IN
    /\ At(c, "idle") /\ i # None /\ (subs[i].age = "due" \/ ~subs[i].live)
    /\ IF active /\ NodeOf[definition] = n
       THEN /\ KindOf[definition] # "stripe"
            /\ call' = [call EXCEPT ![c] =
                  [Idle EXCEPT !.pc = "stop", !.op = "renew", !.was = TRUE, !.had = definition,
                               !.found = {n}, !.target = i]]
       ELSE UNCHANGED call
    /\ subs' = Passed(i)
    /\ UNCHANGED <<workflow, rows, excuses>>

\* onActivate of the trigger found by provider, with the node's configuration.
Resubscribe(c) ==
    LET k == call[c]
        trigger == ByProvider(KindOf[k.had])
    IN
    /\ At(c, "renew")
    /\ IF Accepts(trigger, KindOf[k.had])
       THEN \E id \in NewIds(trigger) :
              /\ subs' = Subscribed(id, trigger)
              /\ call' = [call EXCEPT ![c] = [k EXCEPT !.pc = "write", !.id = id]]
       ELSE Done(c) /\ UNCHANGED subs
    /\ UNCHANGED <<workflow, rows, excuses>>

\* The row's update, which fails if the row is gone.
WriteRenewal(c) ==
    LET k == call[c]
        n == NodeOf[k.had]
    IN
    /\ At(c, "write") /\ RowFree(c, n)
    /\ rows' = [rows EXCEPT ![n] = IF @ = None THEN None ELSE k.id]
    /\ UNCHANGED <<workflow, subs, faults>>
    /\ Overtaking(c, Idle, rows[n] # None)
    /\ excused' = (excused \/ k.overtaken)

----------------------------------------------------------------------------------

\* A subscription comes within the renewer's lookahead, and is over when a renewal has had
\* its chance.  External.
ComesDue(i) ==
    /\ subs[i].live /\ subs[i].age = "new" /\ subs[i].kind # "stripe"
    /\ \E n \in Nodes : rows[n] = i
    /\ \A c \in Callers : call[c].id # i
    /\ subs' = [subs EXCEPT ![i].age = "due"]
    /\ UNCHANGED <<workflow, rows, call, excuses>>
Expire(i) ==
    /\ subs[i].age = "passed" /\ \A c \in Renewers : At(c, "idle")
    /\ subs' = [subs EXCEPT ![i] = Unsubscribed]
    /\ UNCHANGED <<workflow, rows, call, excuses>>

\* The provider or the database refuses, the transaction times out or the process dies: what
\* the provider has done stays, what the transaction has written goes.
Fail(c) ==
    /\ ~At(c, "idle") /\ faults < MaxFaults
    /\ faults' = faults + 1
    /\ Done(c)
    /\ UNCHANGED <<workflow, rows, subs, excused>>

UserStep(c) ==
    \/ \E save \in Definitions \union {Keep}, toggle \in Toggles : Update(c, save, toggle)
    \/ Plain(c) \/ ReadPrior(c) \/ InsertVersion(c) \/ Subscribe(c) \/ Upsert(c) \/ Commit(c)
    \/ FindRows(c) \/ (\E obeyed \in BOOLEAN : StopTarget(c, obeyed)) \/ DeleteRows(c)
    \/ Remove(c) \/ DeleteWorkflow(c)
RenewerStep(c) ==
    \/ (\E n \in Nodes : StartRenewal(c, n)) \/ (\E obeyed \in BOOLEAN : StopTarget(c, obeyed))
    \/ Resubscribe(c) \/ WriteRenewal(c)

Next ==
    \/ \E c \in Users : UserStep(c)
    \/ \E c \in Renewers : RenewerStep(c)
    \/ \E c \in Callers : Fail(c)
    \/ \E i \in Ids : ComesDue(i) \/ Expire(i)
Spec == Init /\ [][Next]_vars

----------------------------------------------------------------------------------
(* Properties.                                                                    *)

\* However saves race, the versions are numbered without gaps, the newest is what the
\* workflow runs, and none of them is ever written over.
HistoryIsFaithful ==
    [][/\ DOMAIN history' = 1 .. version' /\ history'[version'] = definition'
       /\ \A v \in 1 .. version : v <= version' /\ history'[v] = history[v]]_vars

\* An event is accepted that comes from the node's own kind of subscription, signed with the
\* secret of its row.
Heard ==
    /\ HasPush(definition)
    /\ LET i == rows[NodeOf[definition]] IN
       i # None /\ subs[i].live /\ subs[i].kind = KindOf[definition]

\* Rows and provider agree once everybody is done: a workflow that is on is heard, one that
\* is off or gone has no row, and no subscription is left behind, unless a call broke off, a
\* trigger was edited while the workflow was on, or somebody wrote what a stale read told.
Quiet == \A c \in Callers : At(c, "idle")
Reconciled ==
    Quiet /\ faults = 0 /\ ~excused =>
        /\ active /\ HasPush(definition) => Heard
        /\ ~active => \A n \in Nodes : rows[n] = None
        /\ \A i \in Ids : subs[i].live => \E n \in Nodes : rows[n] = i

\* Whatever went wrong before, a user who is not overtaken and switches the workflow on
\* makes it heard, unless a late stop of the mailbox took the new watch as well, and one who
\* switches it off leaves no row.
SwitchingHeals ==
    [][\A c \in Users : Commit(c) /\ exists /\ ~call[c].overtaken =>
          /\ WillActivate(call[c]) /\ HasPush(definition') /\ ~call[c].robbed => Heard'
          /\ WillDeactivate(call[c]) /\ HasPush(definition) => rows' = [n \in Nodes |-> None]]_vars

\* What the comments of the triggers promise: the renewer rotates a subscription before
\* the provider lets it expire.
RotatedBeforeExpiry ==
    faults = 0 /\ ~excused =>
        \A n \in Nodes : rows[n] # None /\ active /\ Quiet => subs[rows[n]].live
==================================================================================
