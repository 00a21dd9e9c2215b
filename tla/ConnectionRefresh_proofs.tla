-------------------------- MODULE ConnectionRefresh_proofs --------------------------
(* Theorems about ConnectionRefresh, for any executions, caps and bounds.  Nobody    *)
(* locks the row; that no grant is lost all the same is proved from who holds what:  *)
(*   Typed    the fields have their types, and a job at work has attempts left       *)
(*   Unspent  where refresh tokens rotate, everybody holds a token no newer than the  *)
(*            row's, so that only one of those who race for a grant gets it, and no  *)
(*            other one before it has written the row                                *)
EXTENDS ConnectionRefresh, TLAPS

\* What the assumption says of the constants.
LEMMA Bounds ==
    /\ Attempts \in Nat /\ Attempts >= 1 /\ InlineCap \in Nat /\ FailureCap \in Nat
    /\ MaxLapses \in Nat /\ MaxGrants \in Nat /\ MaxSkips \in Nat /\ MaxFaults \in Nat
  BY RefreshAssumption

-----------------------------------------------------------------------------------
(* Types                                                                          *)

\* The records by themselves.
JobType == [state : {"none", "waiting", "active"} \union Ended, made : 0 .. Attempts]
Parts ==
    /\ conn \in Row /\ job \in JobType /\ one \in Worker
    /\ exec \in [Execs -> Holder] /\ keep \in [Execs -> Keeper]
    /\ faults \in 0 .. MaxFaults /\ dropped \in BOOLEAN /\ cut \in BOOLEAN
Rest ==
    /\ rotates \in BOOLEAN /\ revoked \in BOOLEAN /\ picked \in BOOLEAN
    /\ granted \in Nat /\ {nearing, lapsed} \subseteq Int /\ lapsed <= nearing /\ nearing <= granted
    /\ lapses \in 0 .. MaxLapses /\ skips \in 0 .. MaxSkips
JobFits ==
    /\ job.state \in {"waiting", "active"} => job.made < Attempts
    /\ one.pc \in {"ask", "write"} => job.state = "active"

Typed == Parts /\ Rest /\ JobFits

\* The parts make up TypeOK.
LEMMA TypedParts == Typed => TypeOK
  <1>1. granted \in Nat => granted \in Int
    OBVIOUS
  <1> QED
    BY <1>1 DEF Typed, TypeOK, Parts, Rest, JobType

\* What is kept of the row, and what comes into it.
LEMMA RowTypes ==
    ASSUME Typed
    PROVE  /\ \A t, g \in Nat : NewToken(t, g) \in Nat /\ Refreshed(NewToken(t, g), g) \in Row
           /\ [conn EXCEPT !.failures = @ + 1] \in Row
           /\ [conn EXCEPT !.status = "EXPIRED", !.failures = @ + 1] \in Row
           /\ conn.token \in Nat /\ conn.access \in Nat /\ conn.failures \in Nat
  <1>1. conn.token \in Nat /\ conn.access \in Nat /\ conn.failures \in Nat
    BY DEF Typed, Parts, Row
  <1>2. \A t, g \in Nat : NewToken(t, g) \in Nat
    BY DEF NewToken
  <1>3. \A t, g \in Nat : Refreshed(t, g) \in Row
    BY DEF Refreshed, Row, Statuses
  <1>4. [conn EXCEPT !.failures = @ + 1] \in Row
    BY DEF Typed, Parts, Row
  <1>5. [conn EXCEPT !.status = "EXPIRED", !.failures = @ + 1] \in Row
    <2>1. conn \in Row
      BY DEF Typed, Parts
    <2> DEFINE row == [conn EXCEPT !.failures = @ + 1]
    <2>2. [row EXCEPT !.status = "EXPIRED"] \in Row
      BY <1>4 DEF Row, Statuses
    <2>3. [conn EXCEPT !.status = "EXPIRED", !.failures = @ + 1] = [row EXCEPT !.status = "EXPIRED"]
      BY <2>1 DEF Row
    <2> QED
      BY <2>2, <2>3
  <1> QED
    BY <1>1, <1>2, <1>3, <1>4, <1>5

\* The holders of a token.
LEMMA HolderTypes ==
    ASSUME Typed
    PROVE  /\ ExecIdle \in Holder /\ OneOff \in Worker /\ KeepOff \in Keeper
           /\ \A p \in {"refresh", "mark"} : [ExecIdle EXCEPT !.pc = p] \in Holder
           /\ \A t \in Nat : [ExecIdle EXCEPT !.pc = "ask", !.token = t] \in Holder
           /\ \A t, g \in Nat : [ExecIdle EXCEPT !.pc = "retry", !.access = g, !.token = t] \in Holder
           /\ [OneOff EXCEPT !.pc = "count"] \in Worker
           /\ \A g \in Nat : [KeepOff EXCEPT !.pc = "read", !.grant = g] \in Keeper
           /\ \A k \in Keeper, t \in Nat : [k EXCEPT !.pc = "write", !.token = t] \in Keeper
           /\ \A h \in Holder, g \in Nat : [h EXCEPT !.pc = "write", !.grant = g] \in Holder
           /\ \A w \in Worker, g \in Nat : [w EXCEPT !.pc = "write", !.grant = g] \in Worker
           /\ \A w \in Worker, n \in Nat : [w EXCEPT !.pc = "mark", !.failures = n] \in Worker
  <1>1. /\ ExecIdle \in Holder
        /\ \A p \in {"refresh", "mark"} : [ExecIdle EXCEPT !.pc = p] \in Holder
        /\ \A t \in Nat : [ExecIdle EXCEPT !.pc = "ask", !.token = t] \in Holder
        /\ \A t, g \in Nat : [ExecIdle EXCEPT !.pc = "retry", !.access = g, !.token = t] \in Holder
    BY DEF ExecIdle, Holder
  <1>2. OneOff \in Worker /\ [OneOff EXCEPT !.pc = "count"] \in Worker
    BY DEF OneOff, Worker
  <1>3. /\ KeepOff \in Keeper
        /\ \A g \in Nat : [KeepOff EXCEPT !.pc = "read", !.grant = g] \in Keeper
    BY DEF KeepOff, Keeper
  <1>4. \A k \in Keeper, t \in Nat : [k EXCEPT !.pc = "write", !.token = t] \in Keeper
    BY DEF Keeper
  <1>5. \A h \in Holder, g \in Nat : [h EXCEPT !.pc = "write", !.grant = g] \in Holder
    BY DEF Holder
  <1>6. \A w \in Worker, g \in Nat : [w EXCEPT !.pc = "write", !.grant = g] \in Worker
    BY DEF Worker
  <1>7. \A w \in Worker, n \in Nat : [w EXCEPT !.pc = "mark", !.failures = n] \in Worker
    BY DEF Worker
  <1> QED
    BY <1>1, <1>2, <1>3, <1>4, <1>5, <1>6, <1>7

\* An attempt that fails leaves others, or the failed event.
LEMMA AttemptTypes ==
    ASSUME Typed, one.pc \in {"ask", "write"}, AttemptFails
    PROVE  /\ job' \in JobType /\ one' \in Worker /\ JobFits'
           /\ one'.pc \in {"off", "count"} /\ one'.token = 0
  <1>0. /\ job.made \in Nat /\ job.made < Attempts /\ Attempts \in Nat
    BY Bounds DEF Typed, Parts, JobType, JobFits
  <1>1. job' \in JobType
    BY <1>0 DEF AttemptFails, JobType, Ended
  <1>2. /\ job'.state \in {"failed", "waiting"} /\ job'.made = job.made + 1
        /\ job'.state = "waiting" => job.made + 1 < Attempts
    BY <1>0 DEF AttemptFails
  <1>3. one' \in Worker /\ one'.pc \in {"off", "count"} /\ one'.token = 0
    BY HolderTypes DEF AttemptFails, OneOff
  <1> QED
    BY <1>1, <1>2, <1>3 DEF JobFits

\* A fault within the bound.
LEMMA FaultTypes ==
    ASSUME Typed, Fault
    PROVE  faults' \in 0 .. MaxFaults
  BY Bounds DEF Typed, Parts, Fault

\* Every action keeps the types.
LEMMA TypedStep ==
    ASSUME Typed, [Next]_vars
    PROVE  Typed'
  <1>0. /\ Parts /\ Rest /\ JobFits
        /\ granted + 1 \in Nat /\ (granted' = granted + 1 => nearing <= granted')
    BY DEF Typed, Rest
  <1>1. CASE UNCHANGED vars
    BY <1>1 DEF vars, Typed, Parts, Rest, JobFits
  <1>2. CASE Nearing
    BY <1>2, Bounds DEF Nearing, Typed, Parts, Rest, JobFits
  <1>3. CASE Lapse
    BY <1>3 DEF Lapse, Typed, Parts, Rest, JobFits
  <1>4. CASE Revoke
    BY <1>4, Bounds DEF Revoke, Typed, Parts, Rest, JobFits, Fault
  <1>5. CASE Scan
    BY <1>5 DEF Scan, provider, Typed, Parts, Rest, JobFits
  <1>6. CASE AddJob
    <2>1. job' \in JobType /\ JobFits'
      BY <1>6, <1>0, Bounds DEF AddJob, Parts, JobType, JobFits
    <2> QED
      BY <1>6, <1>0, <2>1 DEF Typed, AddJob, Parts, Rest, provider
  <1>7. CASE TakeOne
    BY <1>7 DEF TakeOne, provider, Typed, Parts, Rest, JobFits, JobType, Row, Worker,
       OneOff
  <1>8. CASE AskOne
    <2>1. CASE /\ granted' = granted + 1 /\ UNCHANGED <<job, faults>>
              /\ one' = [one EXCEPT !.pc = "write", !.grant = granted + 1]
      <3>1. one' \in Worker /\ one'.pc = "write"
        BY <1>0, <2>1, HolderTypes DEF Parts, Worker
      <3>2. JobFits'
        BY <1>8, <1>0, <2>1, <3>1 DEF AskOne, JobFits
      <3> QED
        BY <1>8, <1>0, <2>1, <3>1, <3>2 DEF Typed, AskOne, Parts, Rest, provider
    <2>2. CASE AttemptFails /\ UNCHANGED granted /\ (Fault \/ UNCHANGED faults)
      <3>1. job' \in JobType /\ one' \in Worker /\ JobFits'
        BY <1>8, <2>2, AttemptTypes DEF AskOne
      <3>2. faults' \in 0 .. MaxFaults
        BY <1>0, <2>2, FaultTypes DEF Parts
      <3> QED
        BY <1>8, <1>0, <2>2, <3>1, <3>2 DEF Typed, AskOne, Parts, Rest, provider
    <2> QED
      BY <1>8, <2>1, <2>2 DEF AskOne
  <1>9. CASE WriteOne
    <2>1. CASE /\ conn' = Refreshed(NewToken(one.token, one.grant), one.grant)
              /\ job' = [job EXCEPT !.state = "done"] /\ one' = OneOff
              /\ UNCHANGED <<faults, dropped>>
      <3>1. conn' \in Row
        BY <1>0, <2>1, RowTypes DEF Parts, Worker
      <3>2. job' \in JobType /\ job'.state = "done"
        BY <1>0, <2>1 DEF Parts, JobType, Ended
      <3>3. one' \in Worker /\ one'.pc = "off"
        BY <2>1, HolderTypes DEF OneOff
      <3> QED
        BY <1>9, <1>0, <2>1, <3>1, <3>2, <3>3 DEF Typed, WriteOne, Parts, Rest, JobFits, provider
    <2>2. CASE Fault /\ AttemptFails /\ dropped' = TRUE /\ UNCHANGED conn
      <3>1. job' \in JobType /\ one' \in Worker /\ JobFits'
        BY <1>9, <2>2, AttemptTypes DEF WriteOne
      <3>2. faults' \in 0 .. MaxFaults
        BY <2>2, FaultTypes
      <3> QED
        BY <1>9, <1>0, <2>2, <3>1, <3>2 DEF Typed, WriteOne, Parts, Rest, provider
    <2> QED
      BY <1>9, <2>1, <2>2 DEF WriteOne
  <1>10. CASE CountFailure
    <2>1. conn' \in Row
      BY <1>10, RowTypes DEF CountFailure
    <2>2. one' \in Worker /\ one'.pc = "mark"
      <3>1. conn.failures + 1 \in Nat
        BY RowTypes
      <3> QED
        BY <1>10, <1>0, <3>1, HolderTypes DEF CountFailure, Parts, Worker
    <2> QED
      BY <1>10, <1>0, <2>1, <2>2 DEF Typed, CountFailure, Parts, Rest, JobFits, provider
  <1>11. CASE MarkFailure
    BY <1>11 DEF MarkFailure, provider, Typed, Parts, Rest, JobFits, Row, Statuses,
       Worker, OneOff
  <1>12. CASE TakeOther
    BY <1>12, Bounds DEF TakeOther, provider, Typed, Parts, Rest, JobFits, JobType, Ended
  <1>13. CASE CrashOne
    BY <1>13, Bounds DEF CrashOne, provider, Typed, Parts, Rest, JobFits, JobType, Worker,
       OneOff, Fault
  <1>14. CASE CutHandler
    BY <1>14, Bounds DEF CutHandler, provider, Typed, Parts, Rest, JobFits, Worker,
       OneOff, Fault
  <1>15. CASE Retire
    BY <1>15, Bounds DEF Retire, provider, Typed, Parts, Rest, JobFits, JobType, NoJob
  <1>16. ASSUME NEW e \in Execs, GetConnection(e) PROVE Typed'
    BY <1>16 DEF GetConnection, provider, Typed, Parts, Rest, JobFits, Row, Holder, Holds,
       ExecIdle
  <1>17. ASSUME NEW e \in Execs, ReleaseExecution(e) PROVE Typed'
    BY <1>17 DEF ReleaseExecution, provider, Typed, Parts, Rest, JobFits, Holder, Holds,
       ExecIdle
  <1>18. ASSUME NEW e \in Execs, ClientRefreshes(e) PROVE Typed'
    <2>1. keep' \in [Execs -> Keeper]
      BY <1>18, <1>0, HolderTypes DEF ClientRefreshes, Parts
    <2> QED
      BY <1>18, <1>0, <2>1 DEF Typed, ClientRefreshes, Parts, Rest, JobFits, provider
  <1>19. ASSUME NEW e \in Execs, MeetAuthError(e) PROVE Typed'
    BY <1>19 DEF MeetAuthError, provider, Typed, Parts, Rest, JobFits, Holder, Holds,
       Points, ExecIdle
  <1>20. ASSUME NEW e \in Execs, ReadForRefresh(e) PROVE Typed'
    <2>1. exec' \in [Execs -> Holder]
      BY <1>20, <1>0, HolderTypes, RowTypes DEF ReadForRefresh, Parts, Holds, Points
    <2> QED
      BY <1>20, <1>0, <2>1 DEF Typed, ReadForRefresh, Parts, Rest, JobFits, provider
  <1>21. ASSUME NEW e \in Execs, AskInline(e) PROVE Typed'
    <2>1. exec' \in [Execs -> Holder]
      <3>1. exec[e] \in Holder
        BY <1>0 DEF Parts
      <3>2. [exec[e] EXCEPT !.pc = "write", !.grant = granted + 1] \in Holder
        BY <1>0, <3>1, HolderTypes
      <3>3. [ExecIdle EXCEPT !.pc = "mark"] \in Holder
        BY HolderTypes
      <3> QED
        BY <1>21, <1>0, <3>2, <3>3 DEF AskInline, Parts, Holds, Points
    <2>2. faults' \in 0 .. MaxFaults
      BY <1>21, <1>0, FaultTypes DEF AskInline, Parts
    <2>3. granted' \in Nat /\ nearing <= granted'
      BY <1>21, <1>0 DEF AskInline, Rest
    <2> QED
      BY <1>21, <1>0, <2>1, <2>2, <2>3 DEF Typed, AskInline, Parts, Rest, JobFits, provider
  <1>22. ASSUME NEW e \in Execs, WriteInline(e) PROVE Typed'
    <2>1. exec[e].token \in Nat /\ exec[e].grant \in Nat
      BY <1>0 DEF Parts, Holder
    <2>2. NewToken(exec[e].token, exec[e].grant) \in Nat
      BY <2>1, RowTypes
    <2>3. exec' \in [Execs -> Holder]
      <3> DEFINE t == NewToken(exec[e].token, exec[e].grant)
      <3>1. [ExecIdle EXCEPT !.pc = "retry", !.access = exec[e].grant, !.token = t] \in Holder
        BY <2>1, <2>2, HolderTypes
      <3>2. [ExecIdle EXCEPT !.pc = "mark"] \in Holder
        BY HolderTypes
      <3> QED
        BY <1>22, <1>0, <3>1, <3>2 DEF WriteInline, Parts, Holds, Points
    <2>4. faults' \in 0 .. MaxFaults /\ dropped' \in BOOLEAN
      BY <1>22, <1>0, FaultTypes DEF WriteInline, Parts
    <2>5. conn' \in Row
      BY <1>22, <1>0, <2>1, RowTypes DEF WriteInline, Parts
    <2> QED
      BY <1>22, <1>0, <2>3, <2>4, <2>5 DEF Typed, WriteInline, Parts, Rest, JobFits, provider
  <1>23. ASSUME NEW e \in Execs, Retry(e) PROVE Typed'
    BY <1>23, Bounds DEF Retry, provider, Typed, Parts, Rest, JobFits, Holder, Holds,
       Points, ExecIdle, Fault
  <1>24. ASSUME NEW e \in Execs, MarkForRefresh(e) PROVE Typed'
    <2>1. exec' \in [Execs -> Holder]
      BY <1>24, <1>0, HolderTypes, RowTypes DEF MarkForRefresh, Parts, Holds, Points
    <2>2. faults' \in 0 .. MaxFaults
      BY <1>24, <1>0, FaultTypes DEF MarkForRefresh, Parts
    <2>3. conn' \in Row
      BY <1>24, <1>0, RowTypes DEF MarkForRefresh, Parts
    <2> QED
      BY <1>24, <1>0, <2>1, <2>2, <2>3 DEF Typed, MarkForRefresh, Parts, Rest, JobFits, provider
  <1>25. ASSUME NEW e \in Execs, CrashExecution(e) PROVE Typed'
    BY <1>25, Bounds DEF CrashExecution, provider, Typed, Parts, Rest, JobFits, Holder,
       Keeper, Holds, ExecIdle, KeepOff, Fault
  <1>26. ASSUME NEW e \in Execs, KeepRead(e) PROVE Typed'
    <2>1. keep' \in [Execs -> Keeper]
      BY <1>26, <1>0, HolderTypes, RowTypes DEF KeepRead, Parts
    <2> QED
      BY <1>26, <1>0, <2>1 DEF Typed, KeepRead, Parts, Rest, JobFits, provider
  <1>27. ASSUME NEW e \in Execs, KeepWrite(e) PROVE Typed'
    <2>1. keep' \in [Execs -> Keeper]
      BY <1>27, <1>0, HolderTypes DEF KeepWrite, Parts
    <2>2. conn' \in Row
      <3>1. keep[e].token \in Nat /\ keep[e].grant \in Nat
        BY <1>0 DEF Parts, Keeper
      <3> QED
        BY <1>27, <1>0, <3>1, RowTypes DEF KeepWrite, Parts
    <2>3. faults' \in 0 .. MaxFaults /\ dropped' \in BOOLEAN
      BY <1>27, <1>0, FaultTypes DEF KeepWrite, Parts
    <2> QED
      BY <1>27, <1>0, <2>1, <2>2, <2>3 DEF Typed, KeepWrite, Parts, Rest, JobFits, provider
  <1> QED
    BY <1>1, <1>2, <1>3, <1>4, <1>5, <1>6, <1>7, <1>8, <1>9, <1>10, <1>11, <1>12, <1>13,
       <1>14, <1>15, <1>16, <1>17, <1>18, <1>19, <1>20, <1>21, <1>22, <1>23, <1>24,
       <1>25, <1>26, <1>27 DEF Next, Refresher, Execution
-----------------------------------------------------------------------------------
(* Grants                                                                         *)

\* Who carries a grant carries the newest, alone, and the row does not have it yet.
Unspent ==
    rotates /\ ~dropped =>
        /\ conn.access = conn.token /\ conn.token <= granted /\ one.token <= conn.token
        /\ \A e \in Execs : exec[e].token <= conn.token
        /\ one.pc = "write" =>
              /\ one.grant = granted /\ conn.token < granted
              /\ \A e \in Execs : exec[e].pc # "write" /\ keep[e].pc = "off"
        /\ \A e \in Execs : exec[e].pc = "write" =>
              /\ exec[e].grant = granted /\ conn.token < granted
              /\ \A d \in Execs : (exec[d].pc = "write" => d = e) /\ keep[d].pc = "off"
        /\ \A e \in Execs : keep[e].pc # "off" =>
              /\ keep[e].grant = granted /\ conn.token < granted
              /\ \A d \in Execs : keep[d].pc # "off" => d = e
        /\ conn.token = granted \/ Carried(granted)

\* An accepted token is the row's, and nobody carries a newer one.
LEMMA AcceptedAlone ==
    ASSUME Typed, Unspent, rotates, ~dropped, NEW t \in Nat, t <= conn.token, Accepts(t)
    PROVE  /\ conn.token = granted /\ one.pc # "write"
           /\ \A e \in Execs : exec[e].pc # "write" /\ keep[e].pc = "off"
  <1>1. t = granted /\ granted \in Nat /\ conn.token \in Nat
    BY RowTypes DEF Accepts, Typed, Rest
  <1>2. conn.token <= granted
    BY DEF Unspent
  <1>3. conn.token = granted
    BY <1>1, <1>2
  <1> QED
    BY <1>1, <1>3 DEF Unspent

\* An execution that carries nothing goes on with a token the row has had.
LEMMA ExecStays ==
    ASSUME Typed, Unspent, NEW e \in Execs, NEW h, exec' = [exec EXCEPT ![e] = h],
           h.pc # "write", h.token <= conn.token, exec[e].pc # "write" \/ dropped',
           UNCHANGED <<rotates, granted, one, keep>>, dropped => dropped',
           conn'.token = conn.token, conn'.access = conn.access
    PROVE  Unspent'
  <1>1. exec \in [Execs -> Holder]
    BY DEF Typed, Parts
  <1>2. exec'[e] = h /\ \A d \in Execs \ {e} : exec'[d] = exec[d]
    BY <1>1
  <1> QED
    BY <1>2 DEF Unspent, Carried

\* Every action keeps it.
LEMMA UnspentStep ==
    ASSUME Typed, Unspent, [Next]_vars
    PROVE  Unspent'
  <1>1. CASE UNCHANGED vars
    BY <1>1 DEF vars, Unspent, Carried
  <1>2. CASE Nearing
    BY <1>2 DEF Nearing, Unspent, Carried
  <1>3. CASE Lapse
    BY <1>3 DEF Lapse, Unspent, Carried
  <1>4. CASE Revoke
    BY <1>4 DEF Revoke, Unspent, Carried
  <1>5. CASE Scan
    BY <1>5 DEF Scan, provider, Unspent, Carried
  <1>6. CASE AddJob
    BY <1>6 DEF AddJob, provider, Unspent, Carried
  <1>7. CASE TakeOne
    BY <1>7 DEF TakeOne, provider, Unspent, Typed, Parts, Row, Carried
  <1>8. CASE AskOne
    <2>1. one \in Worker /\ one.token \in Nat /\ conn.token \in Nat /\ granted \in Nat
      BY RowTypes DEF Typed, Parts, Rest, Worker
    <2>2. CASE AttemptFails /\ UNCHANGED granted
      <3>1. one'.pc \in {"off", "count"} /\ one'.token <= conn.token
        BY <1>8, <2>1, <2>2, AttemptTypes DEF AskOne
      <3> QED
        BY <1>8, <2>2, <3>1 DEF AskOne, provider, Unspent, Carried
    <2>3. CASE /\ Accepts(one.token) /\ granted' = granted + 1
              /\ one' = [one EXCEPT !.pc = "write", !.grant = granted + 1]
      <3> SUFFICES ASSUME rotates, ~dropped PROVE Unspent'
        BY <1>8 DEF AskOne, provider, Unspent
      <3>1. /\ conn.token = granted
            /\ \A d \in Execs : exec[d].pc # "write" /\ keep[d].pc = "off"
        BY <2>1, <2>3, AcceptedAlone DEF Unspent
      <3>2. one'.pc = "write" /\ one'.grant = granted + 1 /\ one'.token = one.token
        BY <2>1, <2>3 DEF Worker
      <3> QED
        BY <1>8, <2>1, <2>3, <3>1, <3>2 DEF AskOne, provider, Unspent, Carried
    <2> QED
      BY <1>8, <2>2, <2>3 DEF AskOne
  <1>9. CASE WriteOne
    BY <1>9 DEF WriteOne, provider, Unspent, Typed, Parts, Rest, Row, Holder, OneOff,
       Refreshed, NewToken
  <1>10. CASE CountFailure
    BY <1>10 DEF CountFailure, provider, Unspent, Carried
  <1>11. CASE MarkFailure
    BY <1>11 DEF MarkFailure, provider, Unspent, Typed, Parts, Row, Carried, OneOff
  <1>12. CASE TakeOther
    BY <1>12 DEF TakeOther, provider, Unspent, Carried
  <1>13. CASE CrashOne
    <2>1. CASE dropped'
      BY <2>1 DEF Unspent
    <2>2. CASE ~dropped'
      <3>1. ~dropped /\ one.pc # "write"
        BY <1>13, <2>2 DEF CrashOne, Typed, Parts
      <3>2. one'.pc = "off" /\ one'.token <= conn.token
        BY <1>13, RowTypes DEF CrashOne, OneOff
      <3> QED
        BY <1>13, <3>1, <3>2 DEF CrashOne, provider, Unspent, Carried
    <2> QED
      BY <2>1, <2>2
  <1>14. CASE CutHandler
    BY <1>14 DEF CutHandler, provider, Unspent, Typed, Parts, Row, Carried, OneOff
  <1>15. CASE Retire
    BY <1>15 DEF Retire, provider, Unspent, Carried
  <1>16. ASSUME NEW e \in Execs, GetConnection(e) PROVE Unspent'
    BY <1>16 DEF GetConnection, provider, Unspent, Typed, Parts, Row, Carried, Holds
  <1>17. ASSUME NEW e \in Execs, ReleaseExecution(e) PROVE Unspent'
    BY <1>17 DEF ReleaseExecution, provider, Unspent, Typed, Parts, Row, Carried, Holds,
       ExecIdle
  <1>18. ASSUME NEW e \in Execs, ClientRefreshes(e) PROVE Unspent'
    BY <1>18 DEF ClientRefreshes, provider, Unspent, Typed, Parts, Rest, Row, Carried,
       Accepts
  <1>19. ASSUME NEW e \in Execs, MeetAuthError(e) PROVE Unspent'
    BY <1>19 DEF MeetAuthError, provider, Unspent, Typed, Parts, Row, Carried, Holds,
       Points, ExecIdle
  <1>20. ASSUME NEW e \in Execs, ReadForRefresh(e) PROVE Unspent'
    <2>1. conn.token \in Nat
      BY RowTypes
    <2> DEFINE asks == [ExecIdle EXCEPT !.pc = "ask", !.token = conn.token]
               marks == [ExecIdle EXCEPT !.pc = "mark"]
    <2>2. /\ asks.pc = "ask" /\ asks.token <= conn.token
          /\ marks.pc = "mark" /\ marks.token <= conn.token
      BY <2>1 DEF ExecIdle
    <2>3. exec' = [exec EXCEPT ![e] = asks] \/ exec' = [exec EXCEPT ![e] = marks]
      BY <1>20 DEF ReadForRefresh, Holds, Points
    <2> HIDE DEF asks, marks
    <2> QED
      BY <1>20, <2>2, <2>3, ExecStays DEF ReadForRefresh, provider
  <1>21. ASSUME NEW e \in Execs, AskInline(e) PROVE Unspent'
    <2>1. /\ exec \in [Execs -> Holder] /\ exec[e] \in Holder /\ exec[e].token \in Nat
          /\ conn.token \in Nat /\ granted \in Nat
      BY RowTypes DEF Typed, Parts, Rest, Holder
    <2>2. CASE Points(e, "mark") /\ UNCHANGED granted
      <3> DEFINE marks == [ExecIdle EXCEPT !.pc = "mark"]
      <3>1. marks.pc = "mark" /\ marks.token <= conn.token
        BY <2>1 DEF ExecIdle
      <3>2. exec' = [exec EXCEPT ![e] = marks]
        BY <2>2 DEF Holds, Points
      <3> HIDE DEF marks
      <3> QED
        BY <1>21, <2>2, <3>1, <3>2, ExecStays DEF AskInline, provider
    <2>3. CASE /\ Accepts(exec[e].token) /\ granted' = granted + 1
              /\ Holds(e, [exec[e] EXCEPT !.pc = "write", !.grant = granted + 1])
      <3> SUFFICES ASSUME rotates, ~dropped PROVE Unspent'
        BY <1>21 DEF AskInline, provider, Unspent
      <3>1. /\ conn.token = granted /\ one.pc # "write"
            /\ \A d \in Execs : exec[d].pc # "write" /\ keep[d].pc = "off"
        BY <2>1, <2>3, AcceptedAlone DEF Unspent
      <3>2. /\ exec'[e].pc = "write" /\ exec'[e].grant = granted + 1
            /\ exec'[e].token = exec[e].token
            /\ \A d \in Execs \ {e} : exec'[d] = exec[d]
        BY <2>1, <2>3 DEF Holds, Holder
      <3> QED
        BY <1>21, <2>1, <2>3, <3>1, <3>2 DEF AskInline, provider, Unspent, Carried
    <2> QED
      BY <1>21, <2>2, <2>3 DEF AskInline
  <1>22. ASSUME NEW e \in Execs, WriteInline(e) PROVE Unspent'
    <2> DEFINE token == NewToken(exec[e].token, exec[e].grant)
    <2>1. exec \in [Execs -> Holder] /\ granted \in Nat /\ conn.token \in Nat
      BY RowTypes DEF Typed, Parts, Rest
    <2>2. CASE dropped'
      BY <2>2 DEF Unspent
    <2>3. CASE ~dropped'
      <3> SUFFICES ASSUME rotates, ~dropped PROVE Unspent'
        BY <1>22, <2>3 DEF WriteInline, provider, Unspent
      <3>1. token = granted /\ exec[e].grant = granted
        BY <1>22 DEF WriteInline, Unspent, NewToken
      <3>2. /\ conn' = Refreshed(token, exec[e].grant)
            /\ Holds(e, [ExecIdle EXCEPT !.pc = "retry", !.access = exec[e].grant, !.token = token])
        BY <1>22, <2>3 DEF WriteInline
      <3>3. conn'.token = granted /\ conn'.access = granted
        BY <3>1, <3>2 DEF Refreshed
      <3>4. /\ exec'[e].pc = "retry" /\ exec'[e].token = granted
            /\ \A d \in Execs \ {e} : exec'[d] = exec[d]
        BY <2>1, <3>1, <3>2 DEF Holds, ExecIdle
      <3>5. /\ conn.token <= granted /\ one.pc # "write" /\ one.token <= conn.token
            /\ \A d \in Execs : exec[d].token <= conn.token /\ keep[d].pc = "off"
            /\ \A d \in Execs : exec[d].pc = "write" => d = e
        BY <1>22 DEF WriteInline, Unspent
      <3>6. one.token \in Nat /\ \A d \in Execs : exec[d].token \in Nat
        BY DEF Typed, Parts, Worker, Holder
      <3>7. one.token <= granted /\ \A d \in Execs : exec'[d].token <= granted
        BY <2>1, <3>4, <3>5, <3>6
      <3>8. \A d \in Execs : exec'[d].pc # "write"
        BY <3>4, <3>5
      <3> HIDE DEF token
      <3> QED
        BY <1>22, <2>1, <3>3, <3>5, <3>7, <3>8 DEF WriteInline, provider, Unspent
    <2> QED
      BY <2>2, <2>3
  <1>23. ASSUME NEW e \in Execs, Retry(e) PROVE Unspent'
    <2> DEFINE again == [exec[e] EXCEPT !.pc = "held"]
               marks == [ExecIdle EXCEPT !.pc = "mark"]
    <2>1. /\ again.pc = "held" /\ again.token = exec[e].token
          /\ marks.pc = "mark" /\ marks.token <= conn.token
      BY RowTypes DEF Typed, Parts, Holder, ExecIdle
    <2>2. exec' = [exec EXCEPT ![e] = again] \/ exec' = [exec EXCEPT ![e] = marks]
      BY <1>23 DEF Retry, Holds, Points
    <2> HIDE DEF again, marks
    <2>3. CASE rotates /\ ~dropped
      <3>1. exec[e].token <= conn.token
        BY <2>3 DEF Unspent
      <3> QED
        BY <1>23, <2>1, <2>2, <3>1, ExecStays DEF Retry, provider
    <2>4. CASE ~(rotates /\ ~dropped)
      BY <1>23, <2>4 DEF Retry, provider, Unspent
    <2> QED
      BY <2>3, <2>4
  <1>24. ASSUME NEW e \in Execs, MarkForRefresh(e) PROVE Unspent'
    <2>1. conn'.token = conn.token /\ conn'.access = conn.access
      BY <1>24 DEF MarkForRefresh, Typed, Parts, Row
    <2>2. ExecIdle.pc = "idle" /\ ExecIdle.token <= conn.token
      BY RowTypes DEF ExecIdle
    <2> QED
      BY <1>24, <2>1, <2>2, ExecStays DEF MarkForRefresh, Holds, provider
  <1>25. ASSUME NEW e \in Execs, CrashExecution(e) PROVE Unspent'
    <2>1. CASE dropped'
      BY <2>1 DEF Unspent
    <2>2. CASE ~dropped'
      <3>1. ~dropped /\ exec[e].pc # "write" /\ keep[e].pc = "off"
        BY <1>25, <2>2 DEF CrashExecution, Typed, Parts
      <3>2. /\ exec'[e] = ExecIdle /\ keep'[e].pc = "off"
            /\ \A d \in Execs \ {e} : exec'[d] = exec[d] /\ keep'[d] = keep[d]
        BY <1>25 DEF CrashExecution, Holds, KeepOff, Typed, Parts
      <3>3. ExecIdle.pc = "idle" /\ ExecIdle.token <= conn.token
        BY RowTypes DEF ExecIdle
      <3> QED
        BY <1>25, <3>1, <3>2, <3>3 DEF CrashExecution, provider, Unspent, Carried
    <2> QED
      BY <2>1, <2>2
  <1>26. ASSUME NEW e \in Execs, KeepRead(e) PROVE Unspent'
    BY <1>26 DEF KeepRead, provider, Unspent, Typed, Rest, Carried
  <1>27. ASSUME NEW e \in Execs, KeepWrite(e) PROVE Unspent'
    BY <1>27 DEF KeepWrite, provider, Unspent, Typed, Parts, Rest, Row, Worker, Holder,
       KeepOff, Refreshed, NewToken
  <1> QED
    BY <1>1, <1>2, <1>3, <1>4, <1>5, <1>6, <1>7, <1>8, <1>9, <1>10, <1>11, <1>12, <1>13,
       <1>14, <1>15, <1>16, <1>17, <1>18, <1>19, <1>20, <1>21, <1>22, <1>23, <1>24,
       <1>25, <1>26, <1>27 DEF Next, Refresher, Execution

-----------------------------------------------------------------------------------
(* The theorems                                                                   *)

Inv == Typed /\ Unspent /\ CleanWhenActive

\* Failures on an ACTIVE row are those that the failed event's handler has just counted.
LEMMA CleanStep ==
    ASSUME Typed, CleanWhenActive, [Next]_vars
    PROVE  CleanWhenActive'
  <1>1. CASE UNCHANGED vars
    BY <1>1 DEF vars, CleanWhenActive
  <1>2. CASE Nearing
    BY <1>2 DEF Nearing, CleanWhenActive
  <1>3. CASE Lapse
    BY <1>3 DEF Lapse, CleanWhenActive
  <1>4. CASE Revoke
    BY <1>4 DEF Revoke, CleanWhenActive
  <1>5. CASE Scan
    BY <1>5 DEF Scan, CleanWhenActive
  <1>6. CASE AddJob
    BY <1>6 DEF AddJob, CleanWhenActive
  <1>7. CASE TakeOne
    BY <1>7 DEF TakeOne, CleanWhenActive
  <1>8. CASE AskOne
    BY <1>8 DEF AskOne, CleanWhenActive
  <1>9. CASE WriteOne
    BY <1>9 DEF WriteOne, CleanWhenActive, Refreshed
  <1>10. CASE CountFailure
    BY <1>10 DEF CountFailure, CleanWhenActive
  <1>11. CASE MarkFailure
    BY <1>11 DEF MarkFailure, CleanWhenActive
  <1>12. CASE TakeOther
    BY <1>12 DEF TakeOther, CleanWhenActive
  <1>13. CASE CrashOne
    BY <1>13 DEF CrashOne, CleanWhenActive
  <1>14. CASE CutHandler
    BY <1>14 DEF CutHandler, CleanWhenActive
  <1>15. CASE Retire
    BY <1>15 DEF Retire, CleanWhenActive
  <1>16. ASSUME NEW e \in Execs, GetConnection(e) PROVE CleanWhenActive'
    BY <1>16 DEF GetConnection, CleanWhenActive
  <1>17. ASSUME NEW e \in Execs, ReleaseExecution(e) PROVE CleanWhenActive'
    BY <1>17 DEF ReleaseExecution, CleanWhenActive
  <1>18. ASSUME NEW e \in Execs, ClientRefreshes(e) PROVE CleanWhenActive'
    BY <1>18 DEF ClientRefreshes, CleanWhenActive
  <1>19. ASSUME NEW e \in Execs, MeetAuthError(e) PROVE CleanWhenActive'
    BY <1>19 DEF MeetAuthError, CleanWhenActive
  <1>20. ASSUME NEW e \in Execs, ReadForRefresh(e) PROVE CleanWhenActive'
    BY <1>20 DEF ReadForRefresh, CleanWhenActive
  <1>21. ASSUME NEW e \in Execs, AskInline(e) PROVE CleanWhenActive'
    BY <1>21 DEF AskInline, CleanWhenActive
  <1>22. ASSUME NEW e \in Execs, WriteInline(e) PROVE CleanWhenActive'
    BY <1>22 DEF WriteInline, CleanWhenActive, Refreshed
  <1>23. ASSUME NEW e \in Execs, Retry(e) PROVE CleanWhenActive'
    BY <1>23 DEF Retry, CleanWhenActive
  <1>24. ASSUME NEW e \in Execs, MarkForRefresh(e) PROVE CleanWhenActive'
    BY <1>24 DEF MarkForRefresh, CleanWhenActive, Typed, Parts, Row
  <1>25. ASSUME NEW e \in Execs, CrashExecution(e) PROVE CleanWhenActive'
    BY <1>25 DEF CrashExecution, CleanWhenActive
  <1>26. ASSUME NEW e \in Execs, KeepRead(e) PROVE CleanWhenActive'
    BY <1>26 DEF KeepRead, CleanWhenActive
  <1>27. ASSUME NEW e \in Execs, KeepWrite(e) PROVE CleanWhenActive'
    BY <1>27 DEF KeepWrite, CleanWhenActive, Refreshed
  <1> QED
    BY <1>1, <1>2, <1>3, <1>4, <1>5, <1>6, <1>7, <1>8, <1>9, <1>10, <1>11, <1>12, <1>13,
       <1>14, <1>15, <1>16, <1>17, <1>18, <1>19, <1>20, <1>21, <1>22, <1>23, <1>24,
       <1>25, <1>26, <1>27 DEF Next, Refresher, Execution

\* At first the row has the only grant, and nobody holds anything.
LEMMA InitInv ==
    ASSUME Init
    PROVE  Inv
  <1>1. /\ conn \in Row /\ conn.token = 0 /\ conn.access = 0 /\ conn.failures = 0
        /\ OneOff.pc = "off" /\ OneOff.token = 0
        /\ ExecIdle.pc = "idle" /\ ExecIdle.token = 0 /\ KeepOff.pc = "off"
    BY DEF Init, Row, Statuses, OneOff, ExecIdle, KeepOff
  <1>2. /\ OneOff \in Worker /\ ExecIdle \in Holder /\ KeepOff \in Keeper
    BY DEF Worker, Holder, Keeper, OneOff, ExecIdle, KeepOff
  <1>3. NoJob \in JobType /\ NoJob.state = "none"
    BY Bounds DEF NoJob, JobType
  <1>4. Typed
    <2>1. Parts
      <3>1. exec \in [Execs -> Holder] /\ keep \in [Execs -> Keeper]
        BY <1>2 DEF Init
      <3>2. faults \in 0 .. MaxFaults
        BY Bounds DEF Init
      <3> QED
        BY <1>1, <1>2, <1>3, <3>1, <3>2 DEF Init, Parts
    <2>2. Rest
      <3>1. lapses \in 0 .. MaxLapses /\ skips \in 0 .. MaxSkips
        BY Bounds DEF Init
      <3>2. granted \in Nat /\ nearing \in Int /\ lapsed \in Int /\ lapsed <= nearing /\ nearing <= granted
        BY DEF Init
      <3> QED
        BY <3>1, <3>2 DEF Init, Rest
    <2>3. JobFits
      BY <1>1, <1>3 DEF Init, JobFits
    <2> QED
      BY <2>1, <2>2, <2>3 DEF Typed
  <1>5. Unspent
    BY <1>1 DEF Init, Unspent
  <1>6. CleanWhenActive
    BY <1>1 DEF CleanWhenActive
  <1> QED
    BY <1>4, <1>5, <1>6 DEF Inv

\* No action, and no stuttering, breaks the invariant.
LEMMA InvStep == Inv /\ [Next]_vars => Inv'
  BY TypedStep, UnspentStep, CleanStep DEF Inv

\* So it holds in every behaviour.
LEMMA InvAlways == Spec => []Inv
  BY InitInv, InvStep, PTL DEF Spec

\* Every reachable state is well typed; among others, the job never makes more attempts than
\* it has.
THEOREM TypeCorrect == Spec => []TypeOK
  <1>1. Inv => TypeOK
    BY TypedParts DEF Inv
  <1> QED BY <1>1, InvAlways, PTL

\* Whoever races for the tokens of a connection, with no lock on the row: where refresh
\* tokens rotate, the newest grant is in the row or with somebody about to write it, unless
\* it was lost between the provider's answer and the row.
THEOREM NoGrantIsLost == Spec => []NewestGrantKept
  <1>1. Inv => NewestGrantKept
    BY DEF Inv, Unspent, NewestGrantKept
  <1> QED BY <1>1, InvAlways, PTL

\* The connections handed to executions have a clean count of failures.
THEOREM ActiveIsClean == Spec => []CleanWhenActive
  <1>1. Inv => CleanWhenActive
    BY DEF Inv
  <1> QED BY <1>1, InvAlways, PTL
===================================================================================
