---------------------------- MODULE ConnectionRefresh ----------------------------
(* The tokens of one OAuth connection and everybody who refreshes them: the scan     *)
(* and the refresh-one job it schedules, executions that meet a 401 and refresh       *)
(* inline, and the Google client, which refreshes by itself and has its tokens        *)
(* stored afterwards.  None of them holds a lock on the row: each reads it, asks the  *)
(* provider and writes it back in separate steps.  Tokens are numbered by the grant   *)
(* that issued them, the first one being grant 0.                                     *)
EXTENDS Integers, FiniteSets

CONSTANTS
    Execs,      \* executions that use the connection
    Attempts,   \* REFRESH_ATTEMPTS_PER_CYCLE
    InlineCap,  \* MAX_INLINE_REFRESH_FAILURES
    FailureCap, \* MAX_REFRESH_FAILURES
    MaxLapses,  \* bound: how often issued access tokens expire
    MaxGrants,  \* bound: grants up to which the Google client refreshes by itself
    MaxSkips,   \* bound: jobs that the wrong processor takes
    MaxFaults   \* bound: outages, errors and crashes

ASSUME RefreshAssumption ==
    /\ IsFiniteSet(Execs)
    /\ {Attempts, InlineCap, FailureCap} \subseteq Nat \ {0}
    /\ {MaxLapses, MaxGrants, MaxSkips, MaxFaults} \subseteq Nat

VARIABLES
    rotates,  \* the provider replaces the refresh token with every grant and accepts only
              \* the newest; otherwise it accepts the one it issued for good
    conn,     \* the Connection row
    granted,  \* the provider's last grant
    nearing,  \* access tokens up to this grant expire within the lead time
    lapsed,   \* access tokens up to this grant have expired
    revoked,  \* the user has withdrawn the consent
    picked,   \* the scan has found the connection and not yet added its job
    job,      \* the job refresh-<id> of the queue oauth-refresh
    one,      \* OAuthRefreshOneProcessor at work on it
    exec,     \* an execution and the connection it has cached
    keep,     \* persistGoogleTokens at work for an execution
    lapses, skips, faults,
    dropped,  \* a grant was lost between the provider's answer and the row
    cut       \* the failed event's handler did not get to its end

vars == <<rotates, conn, granted, nearing, lapsed, revoked, picked, job, one, exec, keep,
          lapses, skips, faults, dropped, cut>>
provider == <<rotates, nearing, lapsed, revoked, lapses>>

Statuses == {"ACTIVE", "ERROR", "EXPIRED"}
Row == [status : Statuses, failures : Nat, token : Nat, access : Nat]
Ended == {"done", "skipped", "failed"}   \* kept for a while after its end
Worker == [pc : {"off", "ask", "write", "count", "mark"}, token : Nat, grant : Nat, failures : Nat]
Holder == [pc : {"idle", "held", "refresh", "ask", "write", "retry", "mark"},
           access : Nat, token : Nat, grant : Nat]
Keeper == [pc : {"off", "read", "write"}, grant : Nat, token : Nat]

TypeOK ==
    /\ rotates \in BOOLEAN /\ revoked \in BOOLEAN /\ picked \in BOOLEAN /\ dropped \in BOOLEAN /\ cut \in BOOLEAN
    /\ conn \in Row
    /\ {granted, nearing, lapsed} \subseteq Int /\ lapsed <= nearing /\ nearing <= granted
    /\ job \in [state : {"none", "waiting", "active"} \union Ended, made : 0 .. Attempts]
    /\ one \in Worker
    /\ exec \in [Execs -> Holder]
    /\ keep \in [Execs -> Keeper]
    /\ lapses \in 0 .. MaxLapses /\ skips \in 0 .. MaxSkips /\ faults \in 0 .. MaxFaults

OneOff == [pc |-> "off", token |-> 0, grant |-> 0, failures |-> 0]
ExecIdle == [pc |-> "idle", access |-> 0, token |-> 0, grant |-> 0]
KeepOff == [pc |-> "off", grant |-> 0, token |-> 0]
NoJob == [state |-> "none", made |-> 0]

Init ==
    /\ rotates \in BOOLEAN
    /\ conn = [status |-> "ACTIVE", failures |-> 0, token |-> 0, access |-> 0]
    /\ granted = 0 /\ nearing = -1 /\ lapsed = -1 /\ revoked = FALSE
    /\ picked = FALSE /\ job = NoJob /\ one = OneOff
    /\ exec = [e \in Execs |-> ExecIdle] /\ keep = [e \in Execs |-> KeepOff]
    /\ lapses = 0 /\ skips = 0 /\ faults = 0 /\ dropped = FALSE /\ cut = FALSE

----------------------------------------------------------------------------------
(* The provider, which is external, and what is written after a refresh.           *)

Accepts(token) == ~revoked /\ (rotates => token = granted)
Due == conn.access <= nearing

\* OAuthRefreshClient: the refresh token of the answer, or the one that was sent.
NewTokenKeepsOld(token, grant) == token
NewToken(token, grant) == IF rotates THEN grant ELSE token

\* The row after a successful refresh.
RefreshedNoReset(token, grant) ==
    [conn EXCEPT !.status = "ACTIVE", !.token = token, !.access = grant]
RefreshedRaw(token, grant) ==
    [status |-> "CONNECTED", failures |-> 0, token |-> token, access |-> grant]
Refreshed(token, grant) ==
    [status |-> "ACTIVE", failures |-> 0, token |-> token, access |-> grant]

Fault == faults < MaxFaults /\ faults' = faults + 1

Nearing ==
    /\ lapses < MaxLapses /\ nearing < granted
    /\ nearing' = granted /\ lapses' = lapses + 1
    /\ UNCHANGED <<rotates, conn, granted, lapsed, revoked, picked, job, one, exec, keep, skips, faults, dropped, cut>>

Lapse ==
    /\ lapsed < nearing /\ lapsed' = nearing
    /\ UNCHANGED <<rotates, conn, granted, nearing, revoked, picked, job, one, exec, keep,
                   lapses, skips, faults, dropped, cut>>

Revoke ==
    /\ ~revoked /\ revoked' = TRUE /\ Fault
    /\ UNCHANGED <<rotates, conn, granted, nearing, lapsed, picked, job, one, exec, keep,
                   lapses, skips, dropped, cut>>

----------------------------------------------------------------------------------
(* The queue oauth-refresh, on which two processors compete for every job.          *)

\* The scan selects the ACTIVE connections that are due, then adds a job for each; adding
\* a job whose id is still in the queue does nothing.
Scan ==
    /\ ~picked /\ picked' = (conn.status = "ACTIVE" /\ Due)
    /\ UNCHANGED <<provider, conn, granted, job, one, exec, keep, skips, faults, dropped, cut>>

AddJob ==
    /\ picked /\ picked' = FALSE
    /\ job' = IF job.state = "none" THEN [state |-> "waiting", made |-> 0] ELSE job
    /\ UNCHANGED <<provider, conn, granted, one, exec, keep, skips, faults, dropped, cut>>

\* OAuthRefreshOneProcessor takes the job and reads the row.
TakeOne ==
    /\ job.state = "waiting" /\ one.pc = "off"
    /\ job' = [job EXCEPT !.state = "active"]
    /\ one' = [OneOff EXCEPT !.pc = "ask", !.token = conn.token]
    /\ UNCHANGED <<provider, picked, conn, granted, exec, keep, skips, faults, dropped, cut>>

\* OAuthRefreshScanProcessor takes it: a job of another name completes at once.
TakeOther ==
    /\ job.state = "waiting" /\ skips < MaxSkips
    /\ job' = [job EXCEPT !.state = "skipped"] /\ skips' = skips + 1
    /\ UNCHANGED <<provider, picked, conn, granted, one, exec, keep, faults, dropped, cut>>

\* The attempt throws: another one, or onFailed has work to do.
ExhaustedOffByOne(made) == made > Attempts
Exhausted(made) == made >= Attempts
AttemptFails ==
    LET made == job.made + 1 IN
    /\ job' = [state |-> IF made >= Attempts THEN "failed" ELSE "waiting", made |-> made]
    /\ one' = IF Exhausted(made) THEN [OneOff EXCEPT !.pc = "count"] ELSE OneOff

AskOne ==
    /\ one.pc = "ask"
    /\ \/ /\ Accepts(one.token)
          /\ granted' = granted + 1
          /\ one' = [one EXCEPT !.pc = "write", !.grant = granted + 1]
          /\ UNCHANGED <<job, faults>>
       \/ ~Accepts(one.token) /\ AttemptFails /\ UNCHANGED <<granted, faults>>
       \/ Fault /\ AttemptFails /\ UNCHANGED granted
    /\ UNCHANGED <<provider, picked, conn, exec, keep, skips, dropped, cut>>

WriteOne ==
    /\ one.pc = "write"
    /\ \/ /\ conn' = Refreshed(NewToken(one.token, one.grant), one.grant)
          /\ job' = [job EXCEPT !.state = "done"]
          /\ one' = OneOff
          /\ UNCHANGED <<faults, dropped>>
       \/ Fault /\ AttemptFails /\ dropped' = TRUE /\ UNCHANGED conn
    /\ UNCHANGED <<provider, picked, granted, exec, keep, skips, cut>>

\* The worker dies and the job, stalled, is handed out again.
CrashOne ==
    /\ one.pc \in {"ask", "write"} /\ Fault
    /\ dropped' = (dropped \/ one.pc = "write")
    /\ one' = OneOff /\ job' = [job EXCEPT !.state = "waiting"]
    /\ UNCHANGED <<provider, picked, conn, granted, exec, keep, skips, cut>>

\* onFailed, first update: count the failure.
CountFailure ==
    /\ one.pc = "count"
    /\ conn' = [conn EXCEPT !.failures = @ + 1]
    /\ one' = [one EXCEPT !.pc = "mark", !.failures = conn.failures + 1]
    /\ UNCHANGED <<provider, picked, granted, job, exec, keep, skips, faults, dropped, cut>>

\* onFailed, second update: a status that follows from the count it got.
MarkFailure ==
    /\ one.pc = "mark"
    /\ conn' = [conn EXCEPT !.status = IF one.failures >= FailureCap THEN "EXPIRED" ELSE "ERROR"]
    /\ one' = OneOff
    /\ UNCHANGED <<provider, picked, granted, job, exec, keep, skips, faults, dropped, cut>>

CutHandler ==
    /\ one.pc \in {"count", "mark"} /\ Fault
    /\ cut' = TRUE /\ one' = OneOff
    /\ UNCHANGED <<provider, picked, conn, granted, job, exec, keep, skips, dropped>>

\* removeOnComplete and removeOnFail.
Retire ==
    /\ job.state \in Ended /\ one.pc = "off"
    /\ job' = NoJob
    /\ UNCHANGED <<provider, picked, conn, granted, one, exec, keep, skips, faults, dropped, cut>>

----------------------------------------------------------------------------------
(* Executions: PrismaConnectionResolver and BaseConnectorAction.                     *)

Holds(e, h) == exec' = [exec EXCEPT ![e] = h]
Points(e, point) == Holds(e, [ExecIdle EXCEPT !.pc = point])

\* getConnection: refuses a row that is not ACTIVE, and caches what it read.
GetConnection(e) ==
    /\ exec[e].pc = "idle" /\ conn.status = "ACTIVE"
    /\ Holds(e, [ExecIdle EXCEPT !.pc = "held", !.access = conn.access, !.token = conn.token])
    /\ UNCHANGED <<provider, picked, conn, granted, job, one, keep, skips, faults, dropped, cut>>

ReleaseExecution(e) ==
    /\ exec[e].pc = "held"
    /\ Holds(e, ExecIdle)
    /\ UNCHANGED <<provider, picked, conn, granted, job, one, keep, skips, faults, dropped, cut>>

\* Google's client refreshes by itself, with the token it was built with; what it got is
\* stored later.
ClientRefreshes(e) ==
    /\ exec[e].pc = "held" /\ exec[e].access <= lapsed /\ Accepts(exec[e].token)
    /\ granted < MaxGrants /\ keep[e].pc = "off"
    /\ granted' = granted + 1
    /\ keep' = [keep EXCEPT ![e] = [KeepOff EXCEPT !.pc = "read", !.grant = granted + 1]]
    /\ UNCHANGED <<provider, picked, conn, job, one, exec, skips, faults, dropped, cut>>

\* The action meets a 401.
MeetAuthError(e) ==
    /\ exec[e].pc = "held" /\ exec[e].access <= lapsed
    /\ Points(e, "refresh")
    /\ UNCHANGED <<provider, picked, conn, granted, job, one, keep, skips, faults, dropped, cut>>

\* refreshConnection reads the row: locked out, too soon after a failure, or on it goes.
ReadForRefresh(e) ==
    /\ exec[e].pc = "refresh"
    /\ \/ conn.failures > 0 /\ Points(e, "mark")
       \/ /\ conn.failures < InlineCap
          /\ Holds(e, [ExecIdle EXCEPT !.pc = "ask", !.token = conn.token])
    /\ UNCHANGED <<provider, picked, conn, granted, job, one, keep, skips, faults, dropped, cut>>

AskInline(e) ==
    /\ exec[e].pc = "ask"
    /\ \/ /\ Accepts(exec[e].token)
          /\ granted' = granted + 1
          /\ Holds(e, [exec[e] EXCEPT !.pc = "write", !.grant = granted + 1])
          /\ UNCHANGED faults
       \/ /\ IF Accepts(exec[e].token) THEN Fault ELSE UNCHANGED faults
          /\ Points(e, "mark")
          /\ UNCHANGED granted
    /\ UNCHANGED <<provider, picked, conn, job, one, keep, skips, dropped, cut>>

WriteInline(e) ==
    LET token == NewToken(exec[e].token, exec[e].grant) IN
    /\ exec[e].pc = "write"
    /\ \/ /\ conn' = Refreshed(token, exec[e].grant)
          /\ Holds(e, [ExecIdle EXCEPT !.pc = "retry", !.access = exec[e].grant, !.token = token])
          /\ UNCHANGED <<faults, dropped>>
       \/ /\ Fault /\ dropped' = TRUE
          /\ Points(e, "mark")
          /\ UNCHANGED conn
    /\ UNCHANGED <<provider, picked, granted, job, one, keep, skips, cut>>

\* The action once more: a second 401, say for want of a scope, marks the connection.
Retry(e) ==
    /\ exec[e].pc = "retry"
    /\ \/ Holds(e, [exec[e] EXCEPT !.pc = "held"]) /\ UNCHANGED faults
       \/ /\ IF exec[e].access <= lapsed \/ revoked THEN UNCHANGED faults ELSE Fault
          /\ Points(e, "mark")
    /\ UNCHANGED <<provider, picked, conn, granted, job, one, keep, skips, dropped, cut>>

\* markForRefresh.
MarkForRefresh(e) ==
    /\ exec[e].pc = "mark"
    /\ \/ conn' = [conn EXCEPT !.status = "EXPIRED", !.failures = @ + 1] /\ UNCHANGED faults
       \/ Fault /\ UNCHANGED conn
    /\ Holds(e, ExecIdle)
    /\ UNCHANGED <<provider, picked, granted, job, one, keep, skips, dropped, cut>>

\* The worker dies with the execution and what its client still had to store.
CrashExecution(e) ==
    /\ exec[e].pc # "idle" \/ keep[e].pc # "off"
    /\ Fault
    /\ dropped' = (dropped \/ exec[e].pc = "write" \/ keep[e].pc # "off")
    /\ Holds(e, ExecIdle) /\ keep' = [keep EXCEPT ![e] = KeepOff]
    /\ UNCHANGED <<provider, picked, conn, granted, job, one, skips, cut>>

----------------------------------------------------------------------------------
(* InProcessRefreshService.persistGoogleTokens.                                      *)

KeepRead(e) ==
    /\ keep[e].pc = "read"
    /\ keep' = [keep EXCEPT ![e] = IF conn.access = keep[e].grant THEN KeepOff
                                   ELSE [keep[e] EXCEPT !.pc = "write", !.token = conn.token]]
    /\ UNCHANGED <<provider, picked, conn, granted, job, one, exec, skips, faults, dropped, cut>>

\* The row is written, with the refresh token that was read unless there is a new one; a
\* failure is only logged.
KeepWrite(e) ==
    /\ keep[e].pc = "write"
    /\ \/ /\ conn' = Refreshed(NewToken(keep[e].token, keep[e].grant), keep[e].grant)
          /\ UNCHANGED <<faults, dropped>>
       \/ Fault /\ dropped' = TRUE /\ UNCHANGED conn
    /\ keep' = [keep EXCEPT ![e] = KeepOff]
    /\ UNCHANGED <<provider, picked, granted, job, one, exec, skips, cut>>

----------------------------------------------------------------------------------

Refresher == TakeOne \/ AskOne \/ WriteOne \/ CountFailure \/ MarkFailure
Execution(e) ==
    \/ GetConnection(e) \/ ReleaseExecution(e) \/ ClientRefreshes(e) \/ MeetAuthError(e)
    \/ ReadForRefresh(e) \/ AskInline(e) \/ WriteInline(e) \/ Retry(e) \/ MarkForRefresh(e) \/ CrashExecution(e)
    \/ KeepRead(e) \/ KeepWrite(e)

Next ==
    \/ Nearing \/ Lapse \/ Revoke \/ Scan \/ AddJob \/ Refresher \/ TakeOther \/ CrashOne \/ CutHandler
    \/ Retire \/ \E e \in Execs : Execution(e)
Spec == Init /\ [][Next]_vars

\* The scan recurs and old jobs are removed; the two processors wait for jobs in turn, so
\* that the right one gets the job again and again; what has begun goes on.
Fairness ==
    /\ WF_vars(Scan) /\ WF_vars(AddJob) /\ WF_vars(Retire) /\ SF_vars(TakeOne)
    /\ WF_vars(AskOne) /\ WF_vars(WriteOne) /\ WF_vars(CountFailure) /\ WF_vars(MarkFailure)
FairSpec == Spec /\ Fairness

----------------------------------------------------------------------------------
(* Properties.                                                                      *)

\* Where refresh tokens rotate, the newest one is in the row or in the hands of the one
\* refresher that is about to write it, unless it died there: races lose no grant.
Carried(grant) ==
    \/ one.pc = "write" /\ one.grant = grant
    \/ \E e \in Execs : \/ (exec[e].pc = "write" /\ exec[e].grant = grant)
                       \/ (keep[e].pc # "off" /\ keep[e].grant = grant)
NewestGrantKept == (rotates /\ ~dropped) => (conn.token = granted \/ Carried(granted))

\* A connection that may be handed to executions has a clean count: failures on an ACTIVE
\* row exist only between the two updates of the failed event's handler.
CleanWhenActive ==
    (conn.status = "ACTIVE" /\ conn.failures > 0) => (one.pc = "mark" \/ cut)

\* An ACTIVE connection that is due gets new tokens or is put out of service, if the wrong
\* processor does not take its jobs for ever.
DueIsHandled == (conn.status = "ACTIVE" /\ Due) ~> (conn.status # "ACTIVE" \/ ~Due)
==================================================================================
