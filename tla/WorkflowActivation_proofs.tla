------------------------- MODULE WorkflowActivation_proofs -------------------------
(* Theorems about WorkflowActivation, for any users, renewal jobs, definitions with *)
(* their triggers, and bounds.  Versions are numbered by a row read earlier; the     *)
(* inductive invariant says of a call that has inserted a version that the number    *)
(* still follows the newest one, and that no other call holds it (Numbered).         *)
EXTENDS WorkflowActivation, TLAPS

\* What the assumption says of the constants.
LEMMA Bounds ==
    /\ MaxVersion \in Nat /\ MaxVersion >= 1 /\ MaxFaults \in Nat
    /\ Initial \in Definitions /\ Keep \notin Definitions
    /\ \A d \in Definitions : KindOf[d] \in Kinds
    /\ Users \intersect Renewers = {}
    /\ None \notin Ids /\ Mailbox \in Ids /\ Channels \subseteq Ids /\ Mailbox \notin Channels
  BY ActivationAssumption DEF Ids

-----------------------------------------------------------------------------------
(* Types                                                                          *)

Sub == [live : BOOLEAN, kind : Kinds, age : {"new", "due", "passed"}]

\* A place where nothing runs, and an id where nothing is subscribed.
LEMMA Empties == Idle \in Call /\ Idle.pc = "idle" /\ Unsubscribed \in Sub
  BY Bounds DEF Idle, Call, Unsubscribed, Sub, Points, Kinds, Toggles, Keep, None

\* Requests and what they have done so far.
LEMMA FieldTypes ==
    ASSUME NEW k \in Call, NEW p \in Points
    PROVE  /\ [k EXCEPT !.pc = p] \in Call
           /\ [k EXCEPT !.overtaken = TRUE] \in Call
           /\ \A b \in BOOLEAN : [k EXCEPT !.overtaken = @ \/ b] \in Call
           /\ \A v \in Nat : [k EXCEPT !.pc = p, !.prior = v] \in Call
           /\ \A i \in Ids \union {None} : [k EXCEPT !.pc = p, !.id = i] \in Call
           /\ \A s \in SUBSET Nodes : [k EXCEPT !.pc = p, !.found = s] \in Call
           /\ \A s \in SUBSET Nodes, i \in Ids \union {None} :
                 [k EXCEPT !.pc = p, !.found = s, !.target = i] \in Call
           /\ [k EXCEPT !.pc = p, !.target = None] \in Call
           /\ \A b \in BOOLEAN : [k EXCEPT !.robbed = @ \/ b] \in Call
  <1>1. [k EXCEPT !.pc = p] \in Call
    BY DEF Call
  <1>2. [k EXCEPT !.overtaken = TRUE] \in Call
    BY DEF Call
  <1>3. ASSUME NEW b \in BOOLEAN PROVE [k EXCEPT !.overtaken = @ \/ b] \in Call
    BY DEF Call
  <1>4. ASSUME NEW v \in Nat PROVE [k EXCEPT !.pc = p, !.prior = v] \in Call
    BY DEF Call
  <1>5. ASSUME NEW i \in Ids \union {None} PROVE [k EXCEPT !.pc = p, !.id = i] \in Call
    BY DEF Call
  <1>6. ASSUME NEW s \in SUBSET Nodes PROVE [k EXCEPT !.pc = p, !.found = s] \in Call
    BY DEF Call
  <1>7. ASSUME NEW s \in SUBSET Nodes, NEW i \in Ids \union {None}
        PROVE  [k EXCEPT !.pc = p, !.found = s, !.target = i] \in Call
    BY DEF Call
  <1>8. [k EXCEPT !.pc = p, !.target = None] \in Call
    BY DEF Call
  <1>9. ASSUME NEW b \in BOOLEAN PROVE [k EXCEPT !.robbed = @ \/ b] \in Call
    BY DEF Call
  <1> QED
    BY <1>1, <1>2, <1>3, <1>4, <1>5, <1>6, <1>7, <1>8, <1>9

\* The points a request goes on to.
LEMMA PointTypes ==
    ASSUME NEW k \in Call
    PROVE  /\ AfterVersion(k) \in {"find", "subscribe", "commit"}
           /\ FirstPoint(k) \in Points
           /\ k.save # Keep => FirstPoint(k) = "prior"
           /\ NewDefinition(k) \in Definitions /\ k.had \in Definitions
  BY DEF AfterVersion, AfterStop, FirstPoint, Points, NewDefinition, Call

\* A provider's trigger is of a kind.
LEMMA ProviderTypes == \A kind \in Kinds : ByProvider(kind) \in Kinds
  BY DEF ByProvider, Kinds

\* Stopping and subscribing.
LEMMA SubTypes ==
    ASSUME subs \in [Ids -> Sub], NEW kind \in Kinds
    PROVE  /\ \A ids : Stop(ids) \in [Ids -> Sub]
           /\ \A i \in NewIds(kind) : i \in Ids /\ Subscribed(i, kind) \in [Ids -> Sub]
           /\ \A i \in Ids : Passed(i) \in [Ids -> Sub]
  <1>1. \A ids : Stop(ids) \in [Ids -> Sub]
    BY Empties DEF Stop
  <1>2. \A i \in NewIds(kind) : i \in Ids
    BY Bounds DEF NewIds
  <1>3. [live |-> TRUE, kind |-> kind, age |-> "new"] \in Sub
    BY DEF Sub
  <1>4. \A i \in NewIds(kind) : Subscribed(i, kind) \in [Ids -> Sub]
    BY <1>2, <1>3 DEF Subscribed
  <1>5. ASSUME NEW i \in Ids PROVE Passed(i) \in [Ids -> Sub]
    BY DEF Passed, Sub
  <1> QED
    BY <1>1, <1>2, <1>4, <1>5

\* The calls after a write, when others are overtaken.
LEMMA OvertakingTypes ==
    ASSUME call \in [Callers -> Call], NEW c \in Callers, NEW k \in Call, NEW b \in BOOLEAN,
           Overtaking(c, k, b)
    PROVE  call' \in [Callers -> Call]
  <1>1. ASSUME NEW d \in Callers PROVE [call[d] EXCEPT !.overtaken = @ \/ b] \in Call
    <2>1. call[d] \in Call /\ call[d].overtaken \in BOOLEAN
      BY DEF Call
    <2> QED
      BY <2>1 DEF Call
  <1> QED
    BY <1>1 DEF Overtaking

LEMMA WritesTypes ==
    ASSUME TypeOK, NEW c \in Callers, NEW k \in Call, Writes(c, k)
    PROVE  call' \in [Callers -> Call] /\ excused' \in BOOLEAN
  <1>1. call' \in [Callers -> Call]
    BY OvertakingTypes DEF Writes, TypeOK
  <1>2. call[c].overtaken \in BOOLEAN
    BY DEF TypeOK, Call
  <1> QED
    BY <1>1, <1>2 DEF Writes, TypeOK

LEMMA DoneTypes ==
    ASSUME TypeOK, NEW c \in Callers
    PROVE  /\ Done(c) => call' \in [Callers -> Call]
           /\ \A p \in Points : Goto(c, p) => call' \in [Callers -> Call]
  <1>1. Done(c) => call' \in [Callers -> Call]
    BY Empties DEF Done, TypeOK
  <1>2. ASSUME NEW p \in Points, Goto(c, p) PROVE call' \in [Callers -> Call]
    <2>1. [call[c] EXCEPT !.pc = p] \in Call
      BY FieldTypes DEF TypeOK
    <2> QED
      BY <1>2, <2>1 DEF Goto, TypeOK
  <1> QED
    BY <1>1, <1>2

-----------------------------------------------------------------------------------
(* The inductive invariant                                                        *)

\* Where only an update can be.
Ops ==
    \A c \in Callers :
        call[c].pc \in {"prior", "insert", "subscribe", "upsert", "commit"} => call[c].op = "update"

Numbered ==
    /\ history[version] = definition
    /\ \A c \in Callers : call[c].prior <= version
    /\ \A c \in Callers : At(c, "insert") \/ HoldsVersion(c) => call[c].prior < MaxVersion
    /\ \A c \in Callers : HoldsVersion(c) => call[c].prior = version
    /\ \A c, d \in Callers : HoldsVersion(c) /\ HoldsVersion(d) => c = d

Inv == TypeOK /\ Ops /\ Numbered

\* Every action keeps the types.
LEMMA TypedStep ==
    ASSUME Inv, [Next]_vars
    PROVE  TypeOK'
  <1> USE Bounds
  <1> USE DEF Inv
  <1>0. /\ call \in [Callers -> Call] /\ subs \in [Ids -> Sub]
        /\ rows \in [Nodes -> Ids \union {None}]
        /\ Users \subseteq Callers /\ Renewers \subseteq Callers
        /\ version \in Nat
    BY DEF TypeOK, Sub, Callers
  <1>1. CASE UNCHANGED vars
    BY <1>1 DEF vars, workflow, excuses, TypeOK
  <1>2. ASSUME NEW c \in Users, NEW save \in Definitions \union {Keep}, NEW toggle \in Toggles,
               Update(c, save, toggle)
        PROVE  TypeOK'
    <2> DEFINE read == [Idle EXCEPT !.save = save, !.toggle = toggle]
               k == IF toggle = Keep THEN read ELSE [read EXCEPT !.was = active, !.had = definition]
    <2>1. k \in Call
      BY <1>2, Empties DEF Call, TypeOK
    <2> HIDE DEF k
    <2>2. [k EXCEPT !.pc = FirstPoint(k)] \in Call
      BY <2>1, FieldTypes, PointTypes
    <2>3. call' \in [Callers -> Call]
      BY <1>0, <1>2, <2>2 DEF Update, k
    <2> QED
      BY <1>2, <2>3 DEF Update, TypeOK, workflow, excuses
  <1>3. ASSUME NEW c \in Users, Plain(c) PROVE TypeOK'
    BY <1>0, <1>3, WritesTypes, Empties DEF Plain, TypeOK
  <1>4. ASSUME NEW c \in Users, ReadPrior(c) PROVE TypeOK'
    <2>1. [call[c] EXCEPT !.pc = "insert", !.prior = version] \in Call
      BY <1>0, FieldTypes DEF Points
    <2>2. call' \in [Callers -> Call]
      BY <1>0, <1>4, <2>1, DoneTypes DEF ReadPrior
    <2> QED
      BY <1>4, <2>2 DEF ReadPrior, TypeOK, workflow, excuses
  <1>5. ASSUME NEW c \in Users, InsertVersion(c) PROVE TypeOK'
    <2>1. AfterVersion(call[c]) \in Points
      BY <1>0, PointTypes DEF Points
    <2>2. call' \in [Callers -> Call]
      BY <1>0, <1>5, <2>1, DoneTypes DEF InsertVersion
    <2> QED
      BY <1>5, <2>2 DEF InsertVersion, TypeOK, workflow, excuses
  <1>6. ASSUME NEW c \in Users, Subscribe(c) PROVE TypeOK'
    <2>1. KindOf[NewDefinition(call[c])] \in Kinds
      BY <1>0, PointTypes
    <2> PICK id \in NewIds(KindOf[NewDefinition(call[c])]) :
               /\ subs' = Subscribed(id, KindOf[NewDefinition(call[c])])
               /\ call' = [call EXCEPT ![c] = [call[c] EXCEPT !.pc = "upsert", !.id = id]]
      BY <1>6 DEF Subscribe
    <2>2. id \in Ids /\ subs' \in [Ids -> Sub]
      BY <1>0, <2>1, SubTypes
    <2>3. [call[c] EXCEPT !.pc = "upsert", !.id = id] \in Call
      BY <1>0, <2>2, FieldTypes DEF Points
    <2>4. call' \in [Callers -> Call]
      BY <1>0, <2>3
    <2> QED
      BY <1>6, <2>2, <2>4 DEF Subscribe, TypeOK, Sub, workflow, excuses
  <1>7. ASSUME NEW c \in Users, Upsert(c) PROVE TypeOK'
    <2>1. call' \in [Callers -> Call]
      BY <1>0, <1>7, DoneTypes DEF Upsert, Points
    <2> QED
      BY <1>7, <2>1 DEF Upsert, TypeOK, workflow
  <1>8. ASSUME NEW c \in Users, Commit(c) PROVE TypeOK'
    <2> DEFINE k == call[c]
    <2>0. k \in Call /\ k.prior \in Nat
      BY <1>0 DEF Call
    <2>1. call' \in [Callers -> Call] /\ excused' \in BOOLEAN
      <3>1. CASE ~exists
        BY <1>0, <1>8, <3>1, DoneTypes DEF Commit, TypeOK
      <3>2. CASE exists
        <4>1. k.overtaken \in BOOLEAN /\ excused \in BOOLEAN
          BY <2>0 DEF Call, TypeOK
        <4>2. excused' \in BOOLEAN
          BY <1>8, <3>2, <4>1 DEF Commit
        <4>3. PICK b \in BOOLEAN : Overtaking(c, Idle, b)
          BY <1>8, <3>2 DEF Commit
        <4> QED
          BY <1>0, <4>2, <4>3, OvertakingTypes, Empties
      <3> QED
        BY <3>1, <3>2
    <2>2. CASE ~exists
      BY <1>8, <2>1, <2>2 DEF Commit, TypeOK
    <2>3. CASE exists
      <3>1. rows' \in [Nodes -> Ids \union {None}]
        <4>1. k.id \in Ids \union {None}
          BY <2>0 DEF Call
        <4> QED
          BY <1>0, <1>8, <2>3, <4>1 DEF Commit, RowsAfter
      <3>2. definition' \in Definitions /\ (k.save # Keep => k.save \in Definitions)
        BY <2>0, <1>8, <2>3 DEF Commit, Saved, Call, TypeOK
      <3>3. version' \in 1 .. MaxVersion /\ history' \in [1 .. version' -> Definitions]
        <4>1. CASE k.save = Keep
          BY <1>8, <2>3, <4>1 DEF Commit, TypeOK
        <4>2. CASE k.save # Keep
          <5>1. HoldsVersion(c)
            BY <1>0, <1>8, <4>2 DEF Commit, At, HoldsVersion, Ops
          <5>2. k.prior < MaxVersion /\ k.prior <= version
            BY <1>0, <5>1 DEF Numbered
          <5>3. /\ version' = k.prior + 1
                /\ history' = [v \in 1 .. (k.prior + 1) |->
                                  IF v = k.prior + 1 THEN k.save ELSE history[v]]
            BY <1>8, <2>3, <4>2 DEF Commit
          <5>4. k.save \in Definitions /\ \A v \in 1 .. version : history[v] \in Definitions
            BY <3>2, <4>2 DEF TypeOK
          <5> DEFINE p == k.prior
                     d == k.save
          <5>5. /\ p \in Nat /\ p < MaxVersion /\ p <= version /\ d \in Definitions
                /\ version' = p + 1
                /\ history' = [v \in 1 .. (p + 1) |-> IF v = p + 1 THEN d ELSE history[v]]
            BY <2>0, <5>2, <5>3, <5>4
          <5> HIDE DEF p, d
          <5>6. version' \in 1 .. MaxVersion
            BY <1>0, <5>5
          <5>7. \A v \in 1 .. (p + 1) : v = p + 1 \/ v \in 1 .. version
            BY <1>0, <5>5
          <5> QED
            BY <5>4, <5>5, <5>6, <5>7
        <4> QED
          BY <4>1, <4>2
      <3>4. active' \in BOOLEAN
        BY <1>8, <2>3 DEF Commit, TypeOK
      <3> QED
        BY <1>8, <2>1, <3>1, <3>2, <3>3, <3>4 DEF Commit, TypeOK
    <2> QED
      BY <2>2, <2>3 DEF TypeOK
  <1>9. ASSUME NEW c \in Users, FindRows(c) PROVE TypeOK'
    <2> DEFINE t == Target(call[c].had)
               p == IF t = None THEN "delete" ELSE "stop"
               ns == {n \in Nodes : rows[n] # None}
    <2>1. t \in Ids \union {None}
      <3>1. call[c].had \in Definitions
        BY <1>0, PointTypes
      <3> QED
        BY <1>0, <3>1, ActivationAssumption DEF Target, HasPush
    <2>2. call' = [call EXCEPT ![c] = [call[c] EXCEPT !.pc = p, !.found = ns, !.target = t]]
      BY <1>9 DEF FindRows
    <2>3. p \in Points /\ ns \subseteq Nodes
      BY DEF Points
    <2> HIDE DEF t, p, ns
    <2>4. call' \in [Callers -> Call]
      BY <1>0, <2>1, <2>2, <2>3, FieldTypes
    <2> QED
      BY <1>9, <2>4 DEF FindRows, TypeOK, workflow, excuses
  <1>10. ASSUME NEW c \in Users, DeleteRows(c) PROVE TypeOK'
    <2> DEFINE k == call[c]
    <2>0. k \in Call
      BY <1>0
    <2>1. [k EXCEPT !.pc = "remove", !.found = Idle.found] \in Call
      BY <2>0, FieldTypes DEF Points, Idle
    <2>2. call' \in [Callers -> Call] /\ excused' \in BOOLEAN
      BY <1>0, <1>10, <2>1, DoneTypes, WritesTypes, Empties DEF DeleteRows, TypeOK, Points
    <2>3. rows' \in [Nodes -> Ids \union {None}]
      BY <1>0, <1>10 DEF DeleteRows
    <2> QED
      BY <1>10, <2>2, <2>3 DEF DeleteRows, TypeOK, workflow
  <1>11. ASSUME NEW c \in Users, Remove(c) PROVE TypeOK'
    <2> DEFINE k == [Idle EXCEPT !.op = "remove", !.was = active, !.had = definition]
    <2>1. k \in Call
      BY Empties DEF Call, TypeOK
    <2> HIDE DEF k
    <2>2. [k EXCEPT !.pc = IF active /\ HasPush(definition) THEN "find" ELSE "remove"] \in Call
      BY <2>1, FieldTypes DEF Points
    <2>3. call' \in [Callers -> Call]
      BY <1>0, <1>11, <2>2 DEF Remove, k
    <2> QED
      BY <1>11, <2>3 DEF Remove, TypeOK, workflow, excuses
  <1>12. ASSUME NEW c \in Users, DeleteWorkflow(c) PROVE TypeOK'
    BY <1>0, <1>12, WritesTypes, Empties DEF DeleteWorkflow, TypeOK
  <1>13. ASSUME NEW c \in Renewers, NEW n \in Nodes, StartRenewal(c, n) PROVE TypeOK'
    <2> DEFINE k == [Idle EXCEPT !.pc = "stop", !.op = "renew", !.was = TRUE, !.had = definition,
                               !.found = {n}, !.target = rows[n]]
    <2>1. rows[n] \in Ids
      BY <1>0, <1>13 DEF StartRenewal
    <2>2. k \in Call
      BY <2>1, Empties DEF Call, TypeOK, Points
    <2>3. call' \in [Callers -> Call]
      BY <1>0, <1>13, <2>2 DEF StartRenewal
    <2>4. subs' \in [Ids -> Sub]
      BY <1>0, <1>13, <2>1, SubTypes, Empties DEF StartRenewal, Unsubscribed, Kinds
    <2> QED
      BY <1>13, <2>3, <2>4 DEF StartRenewal, TypeOK, Sub, workflow, excuses
  <1>14. ASSUME NEW c \in Renewers, Resubscribe(c) PROVE TypeOK'
    <2> DEFINE k == call[c]
    <2>1. k \in Call /\ ByProvider(KindOf[k.had]) \in Kinds
      BY <1>0, PointTypes, ProviderTypes
    <2> DEFINE trigger == ByProvider(KindOf[k.had])
    <2>2. \A i \in NewIds(trigger) : [k EXCEPT !.pc = "write", !.id = i] \in Call
      BY <1>0, <2>1, SubTypes, FieldTypes DEF Points
    <2> HIDE DEF trigger
    <2>3. call' \in [Callers -> Call]
      <3>1. CASE Done(c)
        BY <1>0, <3>1, DoneTypes
      <3>2. ASSUME NEW id \in NewIds(trigger), call' = [call EXCEPT ![c] = [k EXCEPT !.pc = "write", !.id = id]]
            PROVE  call' \in [Callers -> Call]
        BY <1>0, <2>2, <3>2
      <3> QED
        BY <1>14, <3>1, <3>2 DEF Resubscribe, trigger
    <2>4. subs' \in [Ids -> Sub]
      <3>1. trigger \in Kinds
        BY <2>1 DEF trigger
      <3>2. subs' = subs \/ \E id \in NewIds(trigger) : subs' = Subscribed(id, trigger)
        BY <1>14 DEF Resubscribe, trigger
      <3> QED
        BY <1>0, <3>1, <3>2, SubTypes
    <2>5. UNCHANGED <<workflow, rows, excuses>>
      BY <1>14 DEF Resubscribe
    <2> QED
      BY <2>3, <2>4, <2>5 DEF TypeOK, Sub, workflow, excuses
  <1>15. ASSUME NEW c \in Renewers, WriteRenewal(c) PROVE TypeOK'
    <2>1. call[c].id \in Ids \union {None}
      BY <1>0 DEF Call
    <2>2. rows' \in [Nodes -> Ids \union {None}]
      BY <1>0, <1>15, <2>1 DEF WriteRenewal
    <2>3. call' \in [Callers -> Call] /\ excused' \in BOOLEAN
      <3>1. call[c].overtaken \in BOOLEAN
        BY <1>0 DEF Call
      <3> QED
        BY <1>0, <1>15, <3>1, OvertakingTypes, Empties DEF WriteRenewal, TypeOK
    <2> QED
      BY <1>15, <2>2, <2>3 DEF WriteRenewal, TypeOK, workflow
  <1>16. ASSUME NEW c \in Callers, Fail(c) PROVE TypeOK'
    <2>1. call' \in [Callers -> Call]
      BY <1>16, DoneTypes DEF Fail
    <2> QED
      BY <1>16, <2>1 DEF Fail, TypeOK, workflow
  <1>17. ASSUME NEW i \in Ids, ComesDue(i) PROVE TypeOK'
    <2>1. subs' \in [Ids -> Sub]
      BY <1>0, <1>17 DEF ComesDue, Sub
    <2> QED
      BY <1>17, <2>1 DEF ComesDue, TypeOK, Sub, workflow, excuses
  <1>18. ASSUME NEW i \in Ids, Expire(i) PROVE TypeOK'
    <2>1. subs' \in [Ids -> Sub]
      BY <1>0, <1>18, Empties DEF Expire
    <2> QED
      BY <1>18, <2>1 DEF Expire, TypeOK, Sub, workflow, excuses
  <1>19. ASSUME NEW c \in Callers, NEW obeyed \in BOOLEAN, StopTarget(c, obeyed) PROVE TypeOK'
    <2> DEFINE ids == Stopped(call[c])
    <2>0. call' = [d \in Callers |->
              IF d = c THEN [call[c] EXCEPT !.pc = IF call[c].op = "renew" THEN "renew" ELSE "delete",
                                            !.target = None]
              ELSE [call[d] EXCEPT !.robbed = @ \/ (obeyed /\ call[d].id \in ids)]]
      BY <1>19 DEF StopTarget
    <2> HIDE DEF ids
    <2>1. call' \in [Callers -> Call]
      <3>1. [call[c] EXCEPT !.pc = IF call[c].op = "renew" THEN "renew" ELSE "delete",
                            !.target = None] \in Call
        BY <1>0, FieldTypes DEF Points
      <3>2. ASSUME NEW d \in Callers
            PROVE  [call[d] EXCEPT !.robbed = @ \/ (obeyed /\ call[d].id \in ids)] \in Call
        <4>1. call[d] \in Call /\ call[d].robbed \in BOOLEAN
          BY <1>0 DEF Call
        <4> QED
          BY <4>1 DEF Call
      <3> QED
        BY <1>0, <2>0, <3>1, <3>2
    <2>2. subs' \in [Ids -> Sub]
      BY <1>0, <1>19, SubTypes, Empties DEF StopTarget, Unsubscribed, Kinds
    <2>3. faults' \in 0 .. MaxFaults
      BY <1>19 DEF StopTarget, TypeOK
    <2> QED
      BY <1>19, <2>1, <2>2, <2>3 DEF StopTarget, TypeOK, Sub, workflow
  <1> QED
    BY <1>0, <1>1, <1>2, <1>3, <1>4, <1>5, <1>6, <1>7, <1>8, <1>9, <1>10, <1>11, <1>12, <1>13, <1>14,
       <1>15, <1>16, <1>17, <1>18, <1>19 DEF Next, UserStep, RenewerStep

\* A call as far as numbers go: where it is, for whom, and what it has read.
Same(d) ==
    /\ call'[d].pc = call[d].pc /\ call'[d].op = call[d].op
    /\ call'[d].save = call[d].save /\ call'[d].prior = call[d].prior

\* A step that leaves the versions alone, and in which one call at most goes on, without
\* coming to hold a version.
Leaves(c) ==
    /\ UNCHANGED <<definition, version, history>>
    /\ \A d \in Callers \ {c} : Same(d)
    /\ call'[c].pc \in {"prior", "insert", "subscribe", "upsert", "commit"} => call'[c].op = "update"
    /\ call'[c].prior <= version
    /\ At(c, "insert")' => call'[c].prior < MaxVersion
    /\ HoldsVersion(c)' => HoldsVersion(c) /\ call'[c].prior = call[c].prior

\* Such a step keeps the numbers.
LEMMA LeavesStep ==
    ASSUME Inv, NEW c \in Callers, Leaves(c)
    PROVE  Ops' /\ Numbered'
  <1>1. \A d \in Callers \ {c} : At(d, "insert")' = At(d, "insert") /\ HoldsVersion(d)' = HoldsVersion(d)
    BY DEF Leaves, Same, At, HoldsVersion
  <1>2. Ops'
    BY DEF Inv, Ops, Leaves, Same
  <1>3. \A d \in Callers : HoldsVersion(d)' => HoldsVersion(d) /\ call'[d].prior = call[d].prior
    BY <1>1 DEF Leaves, Same
  <1>4. \A d \in Callers : call'[d].prior <= version'
    BY DEF Inv, Numbered, Leaves, Same
  <1>5. \A d \in Callers : At(d, "insert")' \/ HoldsVersion(d)' => call'[d].prior < MaxVersion
    BY <1>1, <1>3 DEF Inv, Numbered, Leaves, Same
  <1>6. Numbered'
    BY <1>3, <1>4, <1>5 DEF Inv, Numbered, Leaves
  <1> QED
    BY <1>2, <1>6

\* The other calls of a write, and of a call that ends.
LEMMA OthersSame ==
    ASSUME TypeOK, NEW c \in Callers
    PROVE  /\ Done(c) => call'[c] = Idle /\ \A d \in Callers \ {c} : Same(d)
           /\ \A k, b : Overtaking(c, k, b) => call'[c] = k /\ \A d \in Callers \ {c} : Same(d)
           /\ \A k : Writes(c, k) => call'[c] = k /\ \A d \in Callers \ {c} : Same(d)
           /\ \A p : Goto(c, p) => /\ call'[c] = [call[c] EXCEPT !.pc = p]
                                   /\ \A d \in Callers \ {c} : Same(d)
           /\ \A k : call' = [call EXCEPT ![c] = k] =>
                  call'[c] = k /\ \A d \in Callers \ {c} : Same(d)
  <1>0. call \in [Callers -> Call]
    BY DEF TypeOK
  <1>1. ASSUME NEW k, call' = [call EXCEPT ![c] = k]
        PROVE  call'[c] = k /\ \A d \in Callers \ {c} : Same(d)
    BY <1>0, <1>1 DEF Same
  <1>2. ASSUME NEW k, NEW b, Overtaking(c, k, b)
        PROVE  call'[c] = k /\ \A d \in Callers \ {c} : Same(d)
    BY <1>0, <1>2 DEF Same, Overtaking, Call
  <1>3. ASSUME NEW k, Writes(c, k)
        PROVE  call'[c] = k /\ \A d \in Callers \ {c} : Same(d)
    BY <1>2, <1>3 DEF Writes
  <1>4. Done(c) => call'[c] = Idle /\ \A d \in Callers \ {c} : Same(d)
    BY <1>1 DEF Done
  <1>5. ASSUME NEW p, Goto(c, p)
        PROVE  call'[c] = [call[c] EXCEPT !.pc = p] /\ \A d \in Callers \ {c} : Same(d)
    BY <1>0, <1>5 DEF Goto, Same
  <1> QED
    BY <1>1, <1>2, <1>3, <1>4, <1>5

\* A call that ends holds nothing.
LEMMA EndsLeaves ==
    ASSUME Inv, NEW c \in Callers, UNCHANGED <<definition, version, history>>,
           call'[c] = Idle, \A d \in Callers \ {c} : Same(d)
    PROVE  Leaves(c)
  <1>1. Idle.pc = "idle" /\ Idle.prior = 0
    BY DEF Idle
  <1>2. version \in Nat
    BY DEF Inv, TypeOK
  <1> QED
    BY <1>1, <1>2 DEF Leaves, At, HoldsVersion

\* Every action keeps the numbers.
LEMMA NumberedStep ==
    ASSUME Inv, [Next]_vars
    PROVE  Ops' /\ Numbered'
  <1> USE Bounds
  <1>0. /\ call \in [Callers -> Call] /\ TypeOK /\ Ops /\ Numbered
        /\ Users \subseteq Callers /\ Renewers \subseteq Callers
        /\ version \in Nat /\ version >= 1 /\ Idle.pc = "idle" /\ Idle.prior = 0
        /\ \A c \in Callers : call[c] \in Call /\ call[c].prior \in Nat
    BY DEF Inv, TypeOK, Callers, Idle, Call
  <1>1. CASE UNCHANGED <<definition, version, history, call>>
    BY <1>0, <1>1 DEF Ops, Numbered, At, HoldsVersion
  <1>2. ASSUME NEW c \in Users, NEW save \in Definitions \union {Keep}, NEW toggle \in Toggles,
               Update(c, save, toggle)
        PROVE  Leaves(c)
    <2> DEFINE read == [Idle EXCEPT !.save = save, !.toggle = toggle]
               k == IF toggle = Keep THEN read ELSE [read EXCEPT !.was = active, !.had = definition]
               next == [k EXCEPT !.pc = FirstPoint(k)]
    <2>1. k \in Call /\ k.op = "update" /\ k.save = save /\ k.prior = 0
      BY <1>0, <1>2, Empties DEF Call, TypeOK, Idle
    <2>2. call' = [call EXCEPT ![c] = next] /\ UNCHANGED <<definition, version, history>>
      BY <1>2 DEF Update, workflow
    <2> HIDE DEF k
    <2>3. /\ next.op = "update" /\ next.save = save /\ next.prior = 0
          /\ save # Keep => next.pc = "prior"
          /\ next.pc = FirstPoint(k) /\ FirstPoint(k) # "insert"
      BY <2>1, PointTypes DEF Call, FirstPoint, AfterVersion, AfterStop
    <2> HIDE DEF next
    <2>4. call'[c] = next /\ \A d \in Callers \ {c} : Same(d)
      BY <1>0, <2>2, OthersSame
    <2> QED
      BY <1>0, <2>2, <2>3, <2>4 DEF Leaves, At, HoldsVersion
  <1>3. ASSUME NEW c \in Users, Plain(c) PROVE Leaves(c)
    BY <1>0, <1>3, OthersSame, EndsLeaves DEF Plain
  <1>4. ASSUME NEW c \in Users, ReadPrior(c) PROVE Leaves(c)
    <2>1. CASE ~exists
      BY <1>0, <1>4, <2>1, OthersSame, EndsLeaves DEF ReadPrior, workflow
    <2>2. CASE exists
      <3> DEFINE next == [call[c] EXCEPT !.pc = "insert", !.prior = version]
      <3>1. next.pc = "insert" /\ next.prior = version /\ next.op = "update"
        BY <1>0, <1>4 DEF ReadPrior, At, Ops, Call
      <3>2. call' = [call EXCEPT ![c] = next] /\ UNCHANGED <<definition, version, history>>
            /\ version < MaxVersion
        BY <1>4, <2>2 DEF ReadPrior, workflow
      <3> HIDE DEF next
      <3>3. call'[c] = next /\ \A d \in Callers \ {c} : Same(d)
        BY <1>0, <3>2, OthersSame
      <3> QED
        BY <1>0, <3>1, <3>2, <3>3 DEF Leaves, At, HoldsVersion
    <2> QED
      BY <2>1, <2>2
  <1>5. ASSUME NEW c \in Users, InsertVersion(c) PROVE Ops' /\ Numbered'
    <2>0. UNCHANGED <<definition, version, history>> /\ call[c].op = "update"
      BY <1>0, <1>5 DEF InsertVersion, workflow, At, Ops
    <2>1. CASE Done(c)
      BY <1>0, <2>0, <2>1, OthersSame, EndsLeaves, LeavesStep
    <2>2. CASE exists /\ ~VersionTaken(c) /\ Goto(c, AfterVersion(call[c]))
      <3> DEFINE p == AfterVersion(call[c])
      <3>1. p \in {"find", "subscribe", "commit"}
        BY <1>0, PointTypes
      <3>2. /\ call'[c] = [call[c] EXCEPT !.pc = p]
            /\ \A d \in Callers \ {c} : Same(d)
        BY <1>0, <2>2, OthersSame
      <3>3. call'[c].pc = p /\ call'[c].op = "update" /\ call'[c].prior = call[c].prior
        BY <1>0, <2>0, <3>2 DEF Call
      <3> HIDE DEF p
      <3>4. call[c].prior = version
        <4>1. call[c].prior + 1 \notin 1 .. version
          BY <1>0, <2>2 DEF VersionTaken, TypeOK
        <4>2. call[c].prior <= version
          BY <1>0 DEF Numbered
        <4> QED
          BY <1>0, <4>1, <4>2
      <3>5. call[c].prior < MaxVersion
        BY <1>0, <1>5 DEF Numbered, InsertVersion
      <3>6. \A d \in Callers \ {c} : ~HoldsVersion(d)
        BY <1>0, <1>5, <3>4 DEF Numbered, InsertVersion, VersionFree
      <3>7. \A d \in Callers \ {c} : ~HoldsVersion(d)' /\ At(d, "insert")' = At(d, "insert")
        BY <3>2, <3>6 DEF Same, At, HoldsVersion
      <3>8. Ops'
        BY <1>0, <3>2, <3>3 DEF Ops, Same
      <3>9. \A d \in Callers : call'[d].prior = call[d].prior
        BY <3>2, <3>3 DEF Same
      <3>10. Numbered'
        BY <1>0, <2>0, <3>4, <3>5, <3>7, <3>9 DEF Numbered
      <3> QED
        BY <3>8, <3>10
    <2> QED
      BY <1>5, <2>1, <2>2 DEF InsertVersion
  <1>6. ASSUME NEW c \in Users, Subscribe(c) PROVE Leaves(c)
    <2> PICK id : call' = [call EXCEPT ![c] = [call[c] EXCEPT !.pc = "upsert", !.id = id]]
      BY <1>6 DEF Subscribe
    <2> DEFINE next == [call[c] EXCEPT !.pc = "upsert", !.id = id]
    <2>1. next.pc = "upsert" /\ next.op = "update" /\ next.prior = call[c].prior
             /\ next.save = call[c].save
      BY <1>0, <1>6 DEF Subscribe, At, Ops, Call
    <2>2. call' = [call EXCEPT ![c] = next] /\ UNCHANGED <<definition, version, history>>
      BY <1>6 DEF Subscribe, workflow
    <2> HIDE DEF next
    <2>3. call'[c] = next /\ \A d \in Callers \ {c} : Same(d)
      BY <1>0, <2>2, OthersSame
    <2> QED
      BY <1>0, <1>6, <2>1, <2>2, <2>3 DEF Subscribe, Leaves, At, HoldsVersion, Ops, Numbered
  <1>7. ASSUME NEW c \in Users, Upsert(c) PROVE Leaves(c)
    <2>1. UNCHANGED <<definition, version, history>>
      BY <1>7 DEF Upsert, workflow
    <2>2. CASE Done(c)
      BY <1>0, <2>1, <2>2, OthersSame, EndsLeaves
    <2>3. CASE Goto(c, "commit")
      <3>1. /\ call'[c] = [call[c] EXCEPT !.pc = "commit"]
            /\ \A d \in Callers \ {c} : Same(d)
        BY <1>0, <2>3, OthersSame
      <3>2. call'[c].pc = "commit" /\ call'[c].op = "update" /\ call'[c].prior = call[c].prior
               /\ call'[c].save = call[c].save
        BY <1>0, <1>7, <3>1 DEF Upsert, At, Ops, Call
      <3> QED
        BY <1>0, <1>7, <2>1, <3>1, <3>2 DEF Upsert, Leaves, At, HoldsVersion, Ops, Numbered
    <2> QED
      BY <1>7, <2>2, <2>3 DEF Upsert
  <1>8. ASSUME NEW c \in Users, Commit(c) PROVE Ops' /\ Numbered'
    <2>0. call'[c] = Idle /\ \A d \in Callers \ {c} : Same(d)
      BY <1>0, <1>8, OthersSame DEF Commit
    <2>1. CASE ~exists \/ call[c].save = Keep
      <3>1. UNCHANGED <<definition, version, history>>
        BY <1>8, <2>1 DEF Commit, Saved
      <3> QED
        BY <1>0, <2>0, <3>1, EndsLeaves, LeavesStep
    <2>2. CASE exists /\ call[c].save # Keep
      <3>1. HoldsVersion(c)
        BY <1>0, <1>8, <2>2 DEF Commit, At, HoldsVersion, Ops
      <3>2. /\ version' = version + 1 /\ definition' = call[c].save
            /\ history' = [v \in 1 .. (version + 1) |->
                              IF v = version + 1 THEN call[c].save ELSE history[v]]
        BY <1>0, <1>8, <2>2, <3>1 DEF Commit, Saved, Numbered
      <3>3. history'[version'] = definition'
        BY <1>0, <3>2
      <3>4. \A d \in Callers : ~HoldsVersion(d)'
        BY <1>0, <2>0, <3>1 DEF Numbered, HoldsVersion, Same
      <3>5. \A d \in Callers : call'[d].prior <= version'
        BY <1>0, <2>0, <3>2 DEF Numbered, Same
      <3>6. \A d \in Callers : At(d, "insert")' => call'[d].prior < MaxVersion
        BY <1>0, <2>0 DEF Numbered, Same, At
      <3>7. Ops'
        BY <1>0, <2>0 DEF Ops, Same
      <3>8. Numbered'
        BY <3>3, <3>4, <3>5, <3>6 DEF Numbered
      <3> QED
        BY <3>7, <3>8
    <2> QED
      BY <2>1, <2>2
  <1>9. ASSUME NEW c \in Users, FindRows(c) PROVE Leaves(c)
    <2> DEFINE t == Target(call[c].had)
               next == [call[c] EXCEPT !.pc = IF t = None THEN "delete" ELSE "stop",
                                       !.found = {n \in Nodes : rows[n] # None}, !.target = t]
    <2>1. next.pc \in {"delete", "stop"} /\ next.op = call[c].op /\ next.prior = call[c].prior
             /\ next.save = call[c].save
      BY <1>0 DEF Call
    <2>2. call' = [call EXCEPT ![c] = next] /\ UNCHANGED <<definition, version, history>>
      BY <1>9 DEF FindRows, workflow
    <2> HIDE DEF next
    <2>3. call'[c] = next /\ \A d \in Callers \ {c} : Same(d)
      BY <1>0, <2>2, OthersSame
    <2> QED
      BY <1>0, <1>9, <2>1, <2>2, <2>3 DEF FindRows, Leaves, At, HoldsVersion, Numbered
  <1>10. ASSUME NEW c \in Users, DeleteRows(c) PROVE Leaves(c)
    <2>1. UNCHANGED <<definition, version, history>>
      BY <1>10 DEF DeleteRows, workflow
    <2>2. CASE Writes(c, Idle)
      BY <1>0, <2>1, <2>2, OthersSame, EndsLeaves
    <2>3. CASE call[c].op = "update" /\ Goto(c, "commit")
      <3>1. /\ call'[c] = [call[c] EXCEPT !.pc = "commit"]
            /\ \A d \in Callers \ {c} : Same(d)
        BY <1>0, <2>3, OthersSame
      <3>2. call'[c].pc = "commit" /\ call'[c].op = "update" /\ call'[c].prior = call[c].prior
               /\ call'[c].save = call[c].save
        BY <1>0, <2>3, <3>1 DEF Call
      <3> QED
        BY <1>0, <1>10, <2>1, <2>3, <3>1, <3>2 DEF DeleteRows, Leaves, At, HoldsVersion, Numbered
    <2>4. CASE Writes(c, [call[c] EXCEPT !.pc = "remove", !.found = Idle.found])
      <3> DEFINE next == [call[c] EXCEPT !.pc = "remove", !.found = Idle.found]
      <3>1. next.pc = "remove" /\ next.prior = call[c].prior
        BY <1>0 DEF Call
      <3>2. call'[c] = next /\ \A d \in Callers \ {c} : Same(d)
        BY <1>0, <2>4, OthersSame
      <3> HIDE DEF next
      <3> QED
        BY <1>0, <2>1, <3>1, <3>2 DEF Leaves, At, HoldsVersion, Numbered
    <2> QED
      BY <1>10, <2>2, <2>3, <2>4 DEF DeleteRows
  <1>11. ASSUME NEW c \in Users, Remove(c) PROVE Leaves(c)
    <2> DEFINE k == [Idle EXCEPT !.op = "remove", !.was = active, !.had = definition]
               next == [k EXCEPT !.pc = IF active /\ HasPush(definition) THEN "find" ELSE "remove"]
    <2>1. next.pc \in {"find", "remove"} /\ next.prior = 0 /\ next.op = "remove"
      BY DEF Idle
    <2>2. call' = [call EXCEPT ![c] = next] /\ UNCHANGED <<definition, version, history>>
      BY <1>11 DEF Remove, workflow
    <2> HIDE DEF next
    <2>3. call'[c] = next /\ \A d \in Callers \ {c} : Same(d)
      BY <1>0, <2>2, OthersSame
    <2> QED
      BY <1>0, <2>1, <2>2, <2>3 DEF Leaves, At, HoldsVersion
  <1>12. ASSUME NEW c \in Users, DeleteWorkflow(c) PROVE Leaves(c)
    BY <1>0, <1>12, OthersSame, EndsLeaves DEF DeleteWorkflow
  <1>13. ASSUME NEW c \in Renewers, NEW n \in Nodes, StartRenewal(c, n)
         PROVE  Ops' /\ Numbered'
    <2> DEFINE k == [Idle EXCEPT !.pc = "stop", !.op = "renew", !.was = TRUE, !.had = definition,
                               !.found = {n}, !.target = rows[n]]
    <2>1. k.pc = "stop" /\ k.op = "renew" /\ k.prior = 0
      BY DEF Idle
    <2> HIDE DEF k
    <2>2. UNCHANGED <<definition, version, history>>
      BY <1>13 DEF StartRenewal, workflow
    <2>3. CASE UNCHANGED call
      BY <1>1, <2>2, <2>3
    <2>4. CASE call' = [call EXCEPT ![c] = k]
      <3>1. call'[c] = k /\ \A d \in Callers \ {c} : Same(d)
        BY <1>0, <2>4, OthersSame
      <3>2. Leaves(c)
        BY <1>0, <2>1, <2>2, <3>1 DEF Leaves, At, HoldsVersion
      <3> QED
        BY <1>0, <3>2, LeavesStep
    <2> QED
      BY <1>13, <2>3, <2>4 DEF StartRenewal, k
  <1>14. ASSUME NEW c \in Renewers, Resubscribe(c) PROVE Leaves(c)
    <2>2. UNCHANGED <<definition, version, history>>
      BY <1>14 DEF Resubscribe, workflow
    <2>3. CASE Done(c)
      BY <1>0, <2>2, <2>3, OthersSame, EndsLeaves
    <2>4. ASSUME NEW id, call' = [call EXCEPT ![c] = [call[c] EXCEPT !.pc = "write", !.id = id]]
          PROVE  Leaves(c)
      <3> DEFINE next == [call[c] EXCEPT !.pc = "write", !.id = id]
      <3>0. next.pc = "write" /\ next.prior = call[c].prior
        BY <1>0 DEF Call
      <3> HIDE DEF next
      <3>1. call'[c] = next /\ \A d \in Callers \ {c} : Same(d)
        BY <1>0, <2>4, OthersSame DEF next
      <3> QED
        BY <1>0, <2>2, <3>0, <3>1 DEF Leaves, At, HoldsVersion, Numbered
    <2> QED
      BY <1>14, <2>3, <2>4 DEF Resubscribe
  <1>15. ASSUME NEW c \in Renewers, WriteRenewal(c) PROVE Leaves(c)
    BY <1>0, <1>15, OthersSame, EndsLeaves DEF WriteRenewal, workflow
  <1>16. ASSUME NEW c \in Callers, Fail(c) PROVE Leaves(c)
    BY <1>0, <1>16, OthersSame, EndsLeaves DEF Fail, workflow
  <1>17. ASSUME NEW i \in Ids, ComesDue(i) \/ Expire(i) PROVE Ops' /\ Numbered'
    BY <1>1, <1>17 DEF ComesDue, Expire, workflow
  <1>18. CASE UNCHANGED vars
    BY <1>1, <1>18 DEF vars, workflow
  <1>19. ASSUME NEW c \in Callers, Leaves(c) PROVE Ops' /\ Numbered'
    BY <1>19, LeavesStep
  <1>20. ASSUME NEW c \in Callers, NEW obeyed \in BOOLEAN, StopTarget(c, obeyed) PROVE Leaves(c)
    <2> DEFINE next == [call[c] EXCEPT !.pc = IF call[c].op = "renew" THEN "renew" ELSE "delete",
                                       !.target = None]
    <2>1. /\ next.pc \in {"renew", "delete"} /\ next.op = call[c].op
          /\ next.prior = call[c].prior /\ next.save = call[c].save
      BY <1>0 DEF Call
    <2>2. /\ call'[c] = next /\ \A d \in Callers \ {c} : Same(d)
          /\ UNCHANGED <<definition, version, history>>
      BY <1>0, <1>20 DEF StopTarget, Same, workflow, Call
    <2> HIDE DEF next
    <2> QED
      BY <1>0, <1>20, <2>1, <2>2 DEF StopTarget, Leaves, At, HoldsVersion, Numbered
  <1> QED
    BY <1>0, <1>2, <1>3, <1>4, <1>5, <1>6, <1>7, <1>8, <1>9, <1>10, <1>11, <1>12, <1>13, <1>14,
       <1>15, <1>16, <1>17, <1>18, <1>19, <1>20 DEF Next, UserStep, RenewerStep

\* At first there is one version and no call.
LEMMA InitInv ==
    ASSUME Init
    PROVE  Inv
  <1>1. \A c \in Callers : call[c] = Idle
    BY DEF Init
  <1>2. Idle.pc = "idle" /\ Idle.prior = 0
    BY DEF Idle
  <1>3. TypeOK
    <2>1. call \in [Callers -> Call]
      BY Empties DEF Init
    <2>2. subs \in [Ids -> Sub]
      BY Empties DEF Init
    <2>3. version \in 1 .. MaxVersion /\ history \in [1 .. version -> Definitions]
      BY Bounds DEF Init
    <2>4. rows \in [Nodes -> Ids \union {None}] /\ faults \in 0 .. MaxFaults
      BY Bounds DEF Init
    <2> QED
      BY <2>1, <2>2, <2>3, <2>4, Bounds DEF Init, TypeOK, Sub
  <1>4. Ops
    BY <1>1, <1>2 DEF Ops
  <1>5. Numbered
    BY <1>1, <1>2 DEF Init, Numbered, At, HoldsVersion
  <1> QED
    BY <1>3, <1>4, <1>5 DEF Inv

\* No action, and no stuttering, breaks it.
LEMMA InvStep == Inv /\ [Next]_vars => Inv'
  BY TypedStep, NumberedStep DEF Inv

\* So the invariant holds in every behaviour.
LEMMA InvAlways == Spec => []Inv
  BY InitInv, InvStep, PTL DEF Spec

-----------------------------------------------------------------------------------
(* The theorems                                                                   *)

\* Only the commit of a save touches the versions, and it adds the next one.
LEMMA NothingRewritten ==
    ASSUME Inv, [Next]_vars
    PROVE  \A v \in 1 .. version : v <= version' /\ history'[v] = history[v]
  <1>0. version \in Nat /\ call \in [Callers -> Call] /\ Users \subseteq Callers
    BY Bounds DEF Inv, TypeOK, Callers
  <1>1. CASE UNCHANGED <<version, history>>
    BY <1>0, <1>1
  <1>2. ASSUME NEW c \in Users, Commit(c), ~UNCHANGED <<version, history>>
        PROVE  \A v \in 1 .. version : v <= version' /\ history'[v] = history[v]
    <2>1. exists /\ call[c].save # Keep
      BY <1>2 DEF Commit
    <2>2. call[c].prior = version
      BY <1>0, <1>2, <2>1 DEF Commit, At, HoldsVersion, Inv, Ops, Numbered
    <2>3. /\ version' = version + 1
          /\ history' = [v \in 1 .. (version + 1) |->
                            IF v = version + 1 THEN call[c].save ELSE history[v]]
      BY <1>2, <2>1, <2>2 DEF Commit
    <2> QED
      BY <1>0, <2>3
  <1>3. ASSUME NEW c \in Users, UserStep(c)
        PROVE  Commit(c) \/ UNCHANGED <<version, history>>
    BY <1>3 DEF UserStep, Update, Plain, ReadPrior, InsertVersion, Subscribe, Upsert, FindRows,
                StopTarget, DeleteRows, Remove, DeleteWorkflow, workflow
  <1>4. ASSUME NEW c \in Renewers, RenewerStep(c)
        PROVE  UNCHANGED <<version, history>>
    BY <1>4 DEF RenewerStep, StartRenewal, StopTarget, Resubscribe, WriteRenewal, workflow
  <1>5. ASSUME \/ \E c \in Callers : Fail(c)
               \/ \E i \in Ids : ComesDue(i) \/ Expire(i)
               \/ UNCHANGED vars
        PROVE  UNCHANGED <<version, history>>
    BY <1>5 DEF Fail, ComesDue, Expire, workflow, vars
  <1> QED
    BY <1>1, <1>2, <1>3, <1>4, <1>5 DEF Next

\* Every reachable state is well typed: among others, the versions are numbered from 1 to
\* the workflow's current one.
THEOREM TypeCorrect == Spec => []TypeOK
  <1>1. Inv => TypeOK
    BY DEF Inv
  <1> QED BY <1>1, InvAlways, PTL

\* However many saves race, whatever breaks off, and whatever else the transactions do, the
\* versions have no gaps, the newest is what the workflow runs, and none is written over.
THEOREM HistoryStaysFaithful == Spec => HistoryIsFaithful
  <1> DEFINE Faithful ==
        /\ DOMAIN history' = 1 .. version' /\ history'[version'] = definition'
        /\ \A v \in 1 .. version : v <= version' /\ history'[v] = history[v]
  <1>1. ASSUME Inv, Inv', [Next]_vars PROVE Faithful
    <2>1. DOMAIN history' = 1 .. version' /\ history'[version'] = definition'
      BY <1>1 DEF Inv, TypeOK, Numbered
    <2> QED
      BY <1>1, <2>1, NothingRewritten
  <1>2. Inv /\ Inv' /\ [Next]_vars => [Faithful]_vars
    BY <1>1
  <1> QED
    BY <1>2, InvAlways, PTL DEF Spec, HistoryIsFaithful

-----------------------------------------------------------------------------------
(* What a call knows.  Where a call is says what it has done so far (Shaped); one    *)
(* that nobody has overtaken still knows the workflow and its rows (Informed); and   *)
(* what it has subscribed is live, its own, and in no row yet (Held).                *)

\* Where a call is says what it is, what it has found and what it has subscribed.
Shaped(k) ==
    /\ k.pc = "idle" => k = Idle
    /\ k.pc \in {"prior", "insert", "plain", "subscribe", "upsert", "commit"} => k.op = "update"
    /\ k.pc \in {"find", "stop", "delete"} =>
          (k.op = "update" => WillDeactivate(k)) /\ HasPush(k.had)
    /\ k.pc \in {"find", "delete"} => k.op # "renew"
    /\ k.pc = "stop" => NodeOf[k.had] \in k.found
    /\ k.target # None <=> k.pc = "stop"
    /\ k.pc \in {"subscribe", "upsert"} => WillActivate(k) /\ HasPush(NewDefinition(k))
    /\ k.pc = "plain" => k.toggle # Keep /\ ~WillActivate(k) /\ ~WillDeactivate(k)
    /\ k.pc = "remove" => k.op = "remove"
    /\ k.pc \in {"renew", "write"} => k.op = "renew" /\ HasPush(k.had)
    /\ k.id # None <=>
          \/ k.pc \in {"upsert", "write"}
          \/ k.pc = "commit" /\ WillActivate(k) /\ HasPush(NewDefinition(k))
    /\ k.robbed => k.id # None
    /\ k.found # {} => \/ k.pc \in {"stop", "delete"} \/ k.op = "renew"
                       \/ k.pc = "commit" /\ WillDeactivate(k)
    /\ k.op = "update" /\ k.toggle = Keep => ~k.overtaken

\* The nodes with a row; a deactivation that has listed them and not yet ended.
Listed == {n \in Nodes : rows[n] # None}
Deactivating(c) ==
    \/ At(c, "delete")
    \/ At(c, "stop") /\ call[c].op # "renew"
    \/ At(c, "commit") /\ WillDeactivate(call[c]) /\ HasPush(call[c].had)

\* A call that decides by what it read, and is not overtaken, still reads the same.
Informed(c) ==
    Deciding(c) /\ ~call[c].overtaken =>
        /\ exists /\ call[c].was = active /\ call[c].had = definition
        /\ Deactivating(c) => call[c].found = Listed
        /\ At(c, "stop") => call[c].target = rows[NodeOf[definition]]
        /\ call[c].op = "renew" => NodeOf[definition] \in Listed

\* A transaction that has written a row keeps the workflow from going.
Holding(c) == At(c, "commit") /\ (call[c].found # {} \/ call[c].id # None) => exists

\* What a call has subscribed lives unless another has stopped it, and is of the kind its
\* trigger subscribes.  An id of its own is nobody else's.
KindHeld(k) ==
    IF k.op = "update" THEN KindOf[NewDefinition(k)] ELSE ByProvider(KindOf[k.had])
Fresh(kind) == [live |-> TRUE, kind |-> kind, age |-> "new"]
Held(c) ==
    LET i == call[c].id IN
    i # None =>
        /\ call[c].robbed \/ subs[i] = Fresh(KindHeld(call[c]))
        /\ i = Mailbox => KindHeld(call[c]) = "gmail"
        /\ subs[i].live => subs[i].age = "new"
        /\ i # Mailbox => /\ \A n \in Nodes : rows[n] # i
                          /\ \A d \in Callers \ {c} : call[d].id # i

Knows(c) == Shaped(call[c]) /\ Informed(c) /\ Holding(c) /\ Held(c)

\* A workflow that is gone is off and has no row; only what lives grows old; what the mailbox's
\* watch is, and nothing else, is Gmail's.
Gone == ~exists => ~active /\ Listed = {}
Aged == \A i \in Ids : subs[i].age # "new" => subs[i].live
Watched == \A i \in Ids : subs[i].live => (subs[i].kind = "gmail" <=> i = Mailbox)

Known == Gone /\ Aged /\ Watched /\ \A c \in Callers : Knows(c)

\* What happens to a call by another's step: it is overtaken if what it read has changed.
Changed == <<exists, active, definition, rows>>' # <<exists, active, definition, rows>>
Told(d) ==
    /\ call'[d].pc = call[d].pc /\ call'[d].op = call[d].op
    /\ call'[d].save = call[d].save /\ call'[d].toggle = call[d].toggle
    /\ call'[d].was = call[d].was /\ call'[d].had = call[d].had
    /\ call'[d].found = call[d].found /\ call'[d].id = call[d].id
    /\ call'[d].target = call[d].target
    /\ call[d].robbed => call'[d].robbed
    /\ call'[d].robbed => call[d].robbed \/ call[d].id # None
    /\ ~call'[d].overtaken => ~call[d].overtaken /\ ~(Deciding(d) /\ Changed)
    /\ ~Deciding(d) => call'[d] = call[d]
Kept(d) == Told(d) /\ call'[d].robbed = call[d].robbed

\* The calls after each way of going on.
LEMMA CallsAfter ==
    ASSUME TypeOK, NEW c \in Callers
    PROVE  /\ \A k : ~Changed /\ call' = [call EXCEPT ![c] = k] =>
                  call'[c] = k /\ \A d \in Callers \ {c} : Kept(d)
           /\ ~Changed /\ Done(c) => call'[c] = Idle /\ \A d \in Callers \ {c} : Kept(d)
           /\ \A p : ~Changed /\ Goto(c, p) =>
                  call'[c] = [call[c] EXCEPT !.pc = p] /\ \A d \in Callers \ {c} : Kept(d)
           /\ \A k, b : Overtaking(c, k, b) /\ (Changed => b) =>
                  call'[c] = k /\ \A d \in Callers \ {c} : Kept(d)
           /\ \A k : Writes(c, k) => call'[c] = k /\ \A d \in Callers \ {c} : Kept(d)
  <1>0. /\ call \in [Callers -> Call]
        /\ \A d \in Callers : call[d] \in Call /\ call[d].overtaken \in BOOLEAN
    BY DEF TypeOK, Call
  <1>1. ASSUME NEW k, ~Changed, call' = [call EXCEPT ![c] = k]
        PROVE  call'[c] = k /\ \A d \in Callers \ {c} : Kept(d)
    <2>1. call'[c] = k /\ \A d \in Callers \ {c} : call'[d] = call[d]
      BY <1>0, <1>1
    <2> QED BY <1>0, <1>1, <2>1 DEF Told, Kept
  <1>2. ASSUME NEW k, NEW b, Overtaking(c, k, b), Changed => b
        PROVE  call'[c] = k /\ \A d \in Callers \ {c} : Kept(d)
    <2>1. call'[c] = k
      BY <1>2 DEF Overtaking
    <2>2. ASSUME NEW d \in Callers \ {c} PROVE Kept(d)
      <3>1. CASE ~Deciding(d)
        <4>1. call'[d] = call[d]
          BY <1>2, <3>1 DEF Overtaking
        <4> QED BY <1>0, <3>1, <4>1 DEF Told, Kept
      <3>2. CASE Deciding(d)
        <4>1. call'[d] = [call[d] EXCEPT !.overtaken = @ \/ b]
          BY <1>2, <3>2 DEF Overtaking
        <4>2. /\ call'[d].pc = call[d].pc /\ call'[d].op = call[d].op
              /\ call'[d].save = call[d].save /\ call'[d].toggle = call[d].toggle
              /\ call'[d].was = call[d].was /\ call'[d].had = call[d].had
              /\ call'[d].found = call[d].found /\ call'[d].id = call[d].id
              /\ call'[d].target = call[d].target /\ call'[d].robbed = call[d].robbed
              /\ call'[d].overtaken = (call[d].overtaken \/ b)
          BY <1>0, <4>1 DEF Call
        <4> QED BY <1>0, <1>2, <3>2, <4>2 DEF Told, Kept
      <3> QED BY <3>1, <3>2
    <2> QED BY <2>1, <2>2
  <1>3. ASSUME NEW k, Writes(c, k) PROVE call'[c] = k /\ \A d \in Callers \ {c} : Kept(d)
    <2>1. Overtaking(c, k, Changed)
      BY <1>3 DEF Writes, Changed
    <2> QED BY <1>2, <2>1
  <1>4. ~Changed /\ Done(c) => call'[c] = Idle /\ \A d \in Callers \ {c} : Kept(d)
    BY <1>1 DEF Done
  <1>5. ASSUME NEW p, ~Changed, Goto(c, p)
        PROVE  call'[c] = [call[c] EXCEPT !.pc = p] /\ \A d \in Callers \ {c} : Kept(d)
    <2>1. call' = [call EXCEPT ![c] = [call[c] EXCEPT !.pc = p]]
      BY <1>0, <1>5 DEF Goto
    <2> QED BY <1>1, <1>5, <2>1
  <1> QED BY <1>1, <1>2, <1>3, <1>4, <1>5

\* What a step of one call may do to what the others know.
Spares(c) ==
    /\ \A d \in Callers \ {c} : Told(d)
    /\ exists' = exists \/ \A n \in Nodes : RowFree(c, n)
    /\ \A d \in Callers \ {c} : call[d].id # None =>
          /\ \/ subs'[call[d].id] = subs[call[d].id]
             \/ call[d].id = Mailbox /\ subs'[call[d].id] = Fresh("gmail")
             \/ call'[d].robbed /\ ~subs'[call[d].id].live
          /\ call[d].id # Mailbox => call'[c].id # call[d].id
    /\ \A n \in Nodes : rows'[n] \in {rows[n], None} \/ (rows'[n] = call[c].id /\ call[c].id # None)

\* So what the others know stays true.
LEMMA OthersKnow ==
    ASSUME Inv, Known, NEW c \in Callers, Spares(c), NEW d \in Callers \ {c}
    PROVE  Knows(d)'
  <1> DEFINE k == call[d]
  <1>0. k \in Call /\ Told(d) /\ Knows(d) /\ k.overtaken \in BOOLEAN
    BY DEF Inv, TypeOK, Call, Known, Spares
  <1>1. /\ WillActivate(call'[d]) = WillActivate(k) /\ WillDeactivate(call'[d]) = WillDeactivate(k)
        /\ NewDefinition(call'[d]) = NewDefinition(k) /\ KindHeld(call'[d]) = KindHeld(k)
        /\ \A p : At(d, p)' = At(d, p)
        /\ Deciding(d)' = Deciding(d)
    BY <1>0 DEF Told, WillActivate, WillDeactivate, NewDefinition, KindHeld, At, Deciding
  <1>2. Shaped(call'[d])
    <2>1. CASE ~Deciding(d)
      BY <1>0, <2>1 DEF Told, Knows
    <2>2. CASE Deciding(d)
      <3>1. k.pc # "idle" /\ ~(k.op = "update" /\ k.toggle = Keep)
        BY <2>2 DEF Deciding, At
      <3> QED BY <1>0, <1>1, <3>1 DEF Told, Knows, Shaped
    <2> QED BY <2>1, <2>2
  <1>3. Informed(d)'
    <2> SUFFICES ASSUME Deciding(d), ~call'[d].overtaken
                 PROVE  /\ exists' /\ call'[d].was = active' /\ call'[d].had = definition'
                        /\ Deactivating(d)' => call'[d].found = Listed'
                        /\ At(d, "stop")' => call'[d].target = rows'[NodeOf[definition']]
                        /\ call'[d].op = "renew" => NodeOf[definition'] \in Listed'
      BY <1>1 DEF Informed
    <2>1. ~k.overtaken /\ ~Changed
      BY <1>0 DEF Told
    <2>2. UNCHANGED <<exists, active, definition, rows>>
      BY <2>1 DEF Changed
    <2>3. Listed' = Listed /\ Deactivating(d)' = Deactivating(d)
      BY <1>0, <1>1, <2>2 DEF Listed, Deactivating, Told
    <2>4. Informed(d) /\ Deciding(d) /\ ~k.overtaken
      BY <1>0, <2>1 DEF Knows
    <2>5. At(d, "stop")' => call'[d].target = rows'[NodeOf[definition']]
      BY <1>0, <1>1, <2>2, <2>4 DEF Informed, Told
    <2> QED BY <1>0, <2>2, <2>3, <2>4, <2>5 DEF Informed, Told
  <1>4. Holding(d)'
    <2> SUFFICES ASSUME At(d, "commit"), k.found # {} \/ k.id # None PROVE exists'
      BY <1>0, <1>1 DEF Holding, Told
    <2>1. exists
      BY <1>0 DEF Knows, Holding
    <2>2. k.op = "update" /\ (k.id # None => NodeOf[NewDefinition(k)] \in Nodes) /\ k.found \subseteq Nodes
      BY <1>0, PointTypes, ActivationAssumption DEF Knows, Shaped, At, HasPush, Call
    <2>3. \E n \in Nodes : HoldsRow(d, n)
      BY <2>2 DEF HoldsRow
    <2> QED BY <2>1, <2>3 DEF Spares, RowFree
  <1>5. Held(d)'
    <2> SUFFICES ASSUME k.id # None
                 PROVE  /\ call'[d].robbed \/ subs'[k.id] = Fresh(KindHeld(k))
                        /\ k.id = Mailbox => KindHeld(k) = "gmail"
                        /\ subs'[k.id].live => subs'[k.id].age = "new"
                        /\ k.id # Mailbox => /\ \A n \in Nodes : rows'[n] # k.id
                                             /\ \A e \in Callers \ {d} : call'[e].id # k.id
      BY <1>0, <1>1 DEF Held, Told
    <2>1. /\ k.robbed \/ subs[k.id] = Fresh(KindHeld(k))
          /\ k.id = Mailbox => KindHeld(k) = "gmail"
          /\ subs[k.id].live => subs[k.id].age = "new"
          /\ k.id # Mailbox => /\ \A n \in Nodes : rows[n] # k.id
                               /\ \A e \in Callers \ {d} : call[e].id # k.id
      BY <1>0 DEF Knows, Held
    <2>2. /\ \/ subs'[k.id] = subs[k.id]
             \/ k.id = Mailbox /\ subs'[k.id] = Fresh("gmail")
             \/ call'[d].robbed /\ ~subs'[k.id].live
          /\ k.id # Mailbox => call'[c].id # k.id
      BY DEF Spares
    <2>3. /\ call'[d].robbed \/ subs'[k.id] = Fresh(KindHeld(k))
          /\ subs'[k.id].live => subs'[k.id].age = "new"
      <3>1. CASE subs'[k.id] = subs[k.id]
        BY <1>0, <2>1, <3>1 DEF Told
      <3>2. CASE k.id = Mailbox /\ subs'[k.id] = Fresh("gmail")
        <4>1. KindHeld(k) = "gmail"
          BY <2>1, <3>2
        <4>2. subs'[k.id] = Fresh(KindHeld(k))
          BY <3>2, <4>1
        <4>3. Fresh(KindHeld(k)).age = "new"
          BY DEF Fresh
        <4> QED BY <4>2, <4>3
      <3>3. CASE call'[d].robbed /\ ~subs'[k.id].live
        BY <3>3
      <3> QED BY <2>2, <3>1, <3>2, <3>3
    <2>4. ASSUME k.id # Mailbox PROVE \A n \in Nodes : rows'[n] # k.id
      BY <2>1, <2>4 DEF Spares
    <2>5. ASSUME k.id # Mailbox, NEW e \in Callers \ {d} PROVE call'[e].id # k.id
      BY <2>1, <2>2, <2>5 DEF Spares, Told
    <2> QED BY <2>1, <2>3, <2>4, <2>5
  <1> QED BY <1>2, <1>3, <1>4, <1>5 DEF Knows

\* A place where nothing runs knows nothing, and needs not.
LEMMA IdleKnows == ASSUME NEW c \in Callers, call'[c] = Idle PROVE Knows(c)'
  <1>1. /\ Idle.pc = "idle" /\ Idle.id = None /\ Idle.found = {} /\ Idle.op = "update"
        /\ ~Idle.overtaken /\ Idle.target = None /\ ~Idle.robbed
    BY DEF Idle
  <1> QED BY <1>1 DEF Knows, Shaped, Informed, Deciding, Holding, Held, At

\* With the caller's own part and the rest, the whole.
LEMMA KnownAfter ==
    ASSUME Inv, Known, NEW c \in Callers, Spares(c), Knows(c)', Gone', Aged', Watched'
    PROVE  Known'
  BY OthersKnow DEF Known

\* A step that leaves workflow, rows and subscriptions alone, and takes the call from one
\* point to another.
LEMMA QuietStep ==
    ASSUME Inv, Known, NEW c \in Callers, UNCHANGED <<exists, active, definition, rows, subs>>,
           NEW k, call' = [call EXCEPT ![c] = k], k.id \in {None, call[c].id}, Knows(c)'
    PROVE  Known'
  <1>1. ~Changed
    BY DEF Changed
  <1>2. call'[c] = k /\ \A d \in Callers \ {c} : Told(d)
    BY <1>1, CallsAfter DEF Inv, Kept
  <1>3. Spares(c)
    BY <1>2 DEF Spares, Known, Knows, Held
  <1>4. Gone' /\ Aged' /\ Watched'
    BY DEF Known, Gone, Aged, Watched, Listed
  <1> QED BY <1>3, <1>4, KnownAfter

\* A call knows enough where it has arrived.
LEMMA KnowsAs ==
    ASSUME NEW c \in Callers, NEW k, call'[c] = k, Shaped(k),
           k.pc # "idle" /\ (k.op = "update" => k.toggle # Keep) /\ ~k.overtaken =>
               /\ exists' /\ k.was = active' /\ k.had = definition'
               /\ k.pc = "delete" \/ (k.pc = "stop" /\ k.op # "renew")
                    \/ (k.pc = "commit" /\ WillDeactivate(k) /\ HasPush(k.had)) => k.found = Listed'
               /\ k.pc = "stop" => k.target = rows'[NodeOf[definition']]
               /\ k.op = "renew" => NodeOf[definition'] \in Listed',
           k.pc = "commit" /\ (k.found # {} \/ k.id # None) => exists',
           k.id # None =>
               /\ k.robbed \/ subs'[k.id] = Fresh(KindHeld(k))
               /\ k.id = Mailbox => KindHeld(k) = "gmail"
               /\ subs'[k.id].live => subs'[k.id].age = "new"
               /\ k.id # Mailbox => /\ \A n \in Nodes : rows'[n] # k.id
                                    /\ \A d \in Callers \ {c} : call'[d].id # k.id
    PROVE  Knows(c)'
  <1>1. Informed(c)'
    BY DEF Informed, Deciding, Deactivating, At
  <1>2. Holding(c)'
    BY DEF Holding, At
  <1>3. Held(c)'
    BY DEF Held
  <1> QED BY <1>1, <1>2, <1>3 DEF Knows

\* A step of the provider alone, which leaves what the calls hold as it is.
LEMMA ProviderStep ==
    ASSUME Inv, Known, UNCHANGED <<exists, active, definition, rows, call>>, Aged', Watched',
           \A c \in Callers : call[c].id # None => subs'[call[c].id] = subs[call[c].id]
    PROVE  Known'
  <1>1. Gone' /\ Listed' = Listed
    BY DEF Known, Gone, Listed
  <1>2. ASSUME NEW c \in Callers PROVE Knows(c)'
    <2>1. Knows(c) BY DEF Known
    <2>2. Shaped(call[c])' BY <2>1 DEF Knows
    <2>3. Informed(c)'
      BY <1>1, <2>1 DEF Knows, Informed, Deciding, Deactivating, At
    <2>4. Holding(c)'
      BY <2>1 DEF Knows, Holding, At
    <2>5. Held(c)'
      BY <2>1 DEF Knows, Held
    <2> QED BY <2>2, <2>3, <2>4, <2>5 DEF Knows
  <1> QED BY <1>1, <1>2 DEF Known

\* A call that a write ends.
LEMMA WriteEnds ==
    ASSUME Inv, Known, NEW c \in Callers, UNCHANGED subs,
           call'[c] = Idle, \A d \in Callers \ {c} : Told(d),
           exists' = exists \/ \A n \in Nodes : RowFree(c, n),
           \A n \in Nodes : rows'[n] \in {rows[n], None} \/ (rows'[n] = call[c].id /\ call[c].id # None),
           Gone'
    PROVE  Known'
  <1>1. Idle.id = None
    BY DEF Idle
  <1>2. Spares(c)
    <2>1. \A d \in Callers \ {c} : call[d].id # None => call'[c].id # call[d].id
      BY <1>1
    <2> QED BY <2>1 DEF Spares
  <1>3. Aged' /\ Watched'
    BY DEF Known, Aged, Watched
  <1> QED BY <1>2, <1>3, IdleKnows, KnownAfter

\* The places an update goes on to fit what it will do.
LEMMA GoesOn ==
    ASSUME NEW k \in Call, k.op = "update", k.found = {}, k.id = None, k.target = None, ~k.robbed,
           k.toggle = Keep => ~k.overtaken,
           NEW p, p = AfterVersion(k) \/ (p = FirstPoint(k) /\ (k.save # Keep \/ k.toggle # Keep)),
           NEW next, next = [k EXCEPT !.pc = p]
    PROVE  /\ Shaped(next) /\ next \in Call
           /\ next.pc = p /\ next.op = "update" /\ next.found = {} /\ next.id = None
           /\ next.toggle = k.toggle /\ next.was = k.was /\ next.had = k.had
           /\ next.overtaken = k.overtaken
           /\ p \notin {"delete", "stop"} /\ (p = "commit" => ~(WillDeactivate(next) /\ HasPush(next.had)))
  <1>1. next.pc = p /\ next.op = "update" /\ next.found = {} /\ next.id = None
        /\ next.toggle = k.toggle /\ next.was = k.was /\ next.had = k.had /\ next.save = k.save
        /\ next.overtaken = k.overtaken /\ next.target = None /\ ~next.robbed
    BY DEF Call
  <1>2. /\ WillActivate(next) = WillActivate(k) /\ WillDeactivate(next) = WillDeactivate(k)
        /\ NewDefinition(next) = NewDefinition(k)
    BY <1>1 DEF WillActivate, WillDeactivate, NewDefinition
  <1>3. /\ p \in {"prior", "find", "subscribe", "commit", "plain"}
        /\ p = "find" => WillDeactivate(k) /\ HasPush(k.had)
        /\ p = "subscribe" => WillActivate(k) /\ HasPush(NewDefinition(k))
        /\ p = "commit" => ~(WillActivate(k) /\ HasPush(NewDefinition(k)))
                           /\ ~(WillDeactivate(k) /\ HasPush(k.had))
        /\ p = "plain" => k.toggle # Keep /\ ~WillActivate(k) /\ ~WillDeactivate(k)
    BY DEF AfterVersion, AfterStop, FirstPoint
  <1>4. p \in Points
    BY <1>3 DEF Points
  <1>5. Shaped(next)
    BY <1>1, <1>2, <1>3 DEF Shaped
  <1>6. next \in Call
    BY <1>4, FieldTypes
  <1> HIDE DEF Shaped
  <1> QED BY <1>1, <1>2, <1>3, <1>5, <1>6

\* The types of the parts that the lemmas below work on.
LEMMA RowTypes ==
    ASSUME Inv
    PROVE  /\ call \in [Callers -> Call] /\ rows \in [Nodes -> Ids \union {None}]
           /\ subs \in [Ids -> Sub] /\ Users \subseteq Callers /\ Renewers \subseteq Callers
           /\ exists \in BOOLEAN /\ active \in BOOLEAN /\ definition \in Definitions
           /\ \A c \in Callers : call[c] \in Call /\ call[c].id \in Ids \union {None}
                                 /\ call[c].overtaken \in BOOLEAN /\ call[c].found \subseteq Nodes
  BY DEF Inv, TypeOK, Sub, Call, Callers

\* A new subscription renews the mailbox's watch or takes an id that no row and no call has, and
\* leaves the others alone.
LEMMA NewSub ==
    ASSUME Inv, Known, NEW kind, NEW id \in NewIds(kind)
    PROVE  /\ id \in Ids /\ id # None /\ (id = Mailbox <=> kind = "gmail")
           /\ id # Mailbox => /\ ~subs[id].live /\ \A n \in Nodes : rows[n] # id
                              /\ \A c \in Callers : call[c].id # id
           /\ Subscribed(id, kind)[id] = Fresh(kind)
           /\ \A i \in Ids : i # id => Subscribed(id, kind)[i] = subs[i]
           /\ \A i \in Ids : Subscribed(id, kind)[i].age # "new" => Subscribed(id, kind)[i].live
           /\ \A i \in Ids : Subscribed(id, kind)[i].live =>
                 (Subscribed(id, kind)[i].kind = "gmail" <=> i = Mailbox)
  <1>1. /\ id \in Ids /\ (id = Mailbox <=> kind = "gmail")
        /\ id # Mailbox => Unused(id)
    BY Bounds DEF NewIds
  <1>2. id # None
    BY <1>1, Bounds
  <1>3. /\ Subscribed(id, kind)[id] = Fresh(kind)
        /\ \A i \in Ids : i # id => Subscribed(id, kind)[i] = subs[i]
    BY <1>1, RowTypes DEF Subscribed, Fresh
  <1> HIDE DEF Subscribed
  <1>4. Fresh(kind).live /\ Fresh(kind).kind = kind /\ Fresh(kind).age = "new"
    BY DEF Fresh
  <1>5. \A i \in Ids : Subscribed(id, kind)[i].age # "new" => Subscribed(id, kind)[i].live
    BY <1>3, <1>4 DEF Known, Aged
  <1>6. \A i \in Ids : Subscribed(id, kind)[i].live =>
            (Subscribed(id, kind)[i].kind = "gmail" <=> i = Mailbox)
    BY <1>1, <1>3, <1>4 DEF Known, Watched
  <1>7. id # Mailbox => /\ ~subs[id].live /\ \A n \in Nodes : rows[n] # id
                        /\ \A c \in Callers : call[c].id # id
    BY <1>1 DEF Unused
  <1> QED BY <1>1, <1>2, <1>3, <1>5, <1>6, <1>7

\* An update reads the row, so at first it knows the workflow; it goes to the provider only for
\* a deactivation or an activation it read as one.
LEMMA KnownUpdate ==
    ASSUME Inv, Known, NEW c \in Users, NEW save \in Definitions \union {Keep},
           NEW toggle \in Toggles, Update(c, save, toggle)
    PROVE  Known'
  <1> DEFINE read == [Idle EXCEPT !.save = save, !.toggle = toggle]
             k == IF toggle = Keep THEN read ELSE [read EXCEPT !.was = active, !.had = definition]
             p == FirstPoint(k)
             next == [k EXCEPT !.pc = p]
  <1>0. c \in Callers
    BY RowTypes
  <1>1. /\ k \in Call /\ k.op = "update" /\ k.found = {} /\ k.id = None /\ ~k.overtaken
        /\ k.save = save /\ k.toggle = toggle
        /\ toggle # Keep => k.was = active /\ k.had = definition
    <2>1. active \in BOOLEAN /\ definition \in Definitions
      BY RowTypes
    <2>2. k \in Call
      BY <2>1, Empties DEF Call
    <2>3. k.op = "update" /\ k.found = {} /\ k.id = None /\ ~k.overtaken
      BY DEF Idle
    <2>4. k.save = save /\ k.toggle = toggle /\ (toggle # Keep => k.was = active /\ k.had = definition)
      BY DEF Idle
    <2> QED BY <2>2, <2>3, <2>4
  <1>1a. k.target = None /\ ~k.robbed
    BY DEF Idle
  <1>2. exists /\ (save # Keep \/ toggle # Keep) /\ call' = [call EXCEPT ![c] = next]
        /\ UNCHANGED <<exists, active, definition, rows, subs>>
    BY DEF Update, workflow
  <1> HIDE DEF k
  <1>3. /\ Shaped(next) /\ next.pc = p /\ next.op = "update" /\ next.found = {} /\ next.id = None
        /\ next.toggle = toggle /\ next.was = k.was /\ next.had = k.had /\ ~next.overtaken
        /\ p \notin {"delete", "stop"} /\ (p = "commit" => ~(WillDeactivate(next) /\ HasPush(next.had)))
    BY <1>1, <1>1a, <1>2, GoesOn
  <1> HIDE DEF next, p
  <1>4. call'[c] = next
    BY <1>0, <1>2, RowTypes
  <1>5. Knows(c)'
    BY <1>0, <1>1, <1>2, <1>3, <1>4, KnowsAs
  <1> QED BY <1>0, <1>2, <1>3, <1>5, QuietStep

\* Writing isActive as the request has it.
LEMMA KnownPlain == ASSUME Inv, Known, NEW c \in Users, Plain(c) PROVE Known'
  <1>0. c \in Callers
    BY RowTypes
  <1>1. UNCHANGED <<exists, rows, subs>> /\ active' = (exists /\ call[c].toggle = "on") /\ Writes(c, Idle)
    BY DEF Plain
  <1>2. call'[c] = Idle /\ \A d \in Callers \ {c} : Told(d)
    BY <1>0, <1>1, CallsAfter DEF Inv, Kept
  <1>3. Gone'
    BY <1>1 DEF Known, Gone, Listed
  <1> QED BY <1>0, <1>1, <1>2, <1>3, WriteEnds

\* Reading the newest version.
LEMMA KnownReadPrior == ASSUME Inv, Known, NEW c \in Users, ReadPrior(c) PROVE Known'
  <1>0. c \in Callers /\ UNCHANGED <<exists, active, definition, rows, subs>>
    BY RowTypes DEF ReadPrior, workflow
  <1>1. CASE ~exists
    <2>1. call' = [call EXCEPT ![c] = Idle]
      BY <1>1 DEF ReadPrior, Done
    <2>2. call'[c] = Idle /\ Idle.id = None
      BY <1>0, <2>1, RowTypes DEF Idle
    <2> QED BY <1>0, <2>1, <2>2, IdleKnows, QuietStep
  <1>2. CASE exists
    <2> DEFINE k == call[c]
               next == [k EXCEPT !.pc = "insert", !.prior = version]
    <2>1. call' = [call EXCEPT ![c] = next]
      BY <1>2 DEF ReadPrior
    <2>2. k \in Call /\ k.pc = "prior" /\ Shaped(k) /\ Informed(c)
      BY <1>0, RowTypes DEF ReadPrior, At, Known, Knows
    <2>3. /\ next.pc = "insert" /\ next.op = k.op /\ next.toggle = k.toggle /\ next.was = k.was
          /\ next.had = k.had /\ next.id = k.id /\ next.found = k.found
          /\ next.overtaken = k.overtaken /\ next.target = k.target
          /\ next.robbed = k.robbed
      BY <2>2 DEF Call
    <2> HIDE DEF next
    <2>4. k.id = None /\ k.target = None /\ ~k.robbed /\ k.found = {} /\ k.op = "update" /\ (k.toggle = Keep => ~k.overtaken)
      BY <2>2 DEF Shaped
    <2>5. Shaped(next)
      BY <2>3, <2>4 DEF Shaped
    <2>6. call'[c] = next
      BY <1>0, <2>1, RowTypes
    <2>7. Knows(c)'
      BY <1>0, <2>2, <2>3, <2>4, <2>5, <2>6, KnowsAs DEF Informed, Deciding, At
    <2> QED BY <1>0, <2>1, <2>3, <2>7, QuietStep
  <1> QED BY <1>1, <1>2

\* Inserting a version.
LEMMA KnownInsertVersion == ASSUME Inv, Known, NEW c \in Users, InsertVersion(c) PROVE Known'
  <1>0. c \in Callers /\ UNCHANGED <<exists, active, definition, rows, subs>>
    BY RowTypes DEF InsertVersion, workflow
  <1>1. CASE Done(c)
    <2>1. call' = [call EXCEPT ![c] = Idle]
      BY <1>1 DEF Done
    <2>2. call'[c] = Idle /\ Idle.id = None
      BY <1>0, <2>1, RowTypes DEF Idle
    <2> QED BY <1>0, <2>1, <2>2, IdleKnows, QuietStep
  <1>2. CASE exists /\ Goto(c, AfterVersion(call[c]))
    <2> DEFINE k == call[c]
               p == AfterVersion(k)
               next == [k EXCEPT !.pc = p]
    <2>1. call' = [call EXCEPT ![c] = next]
      BY <1>0, <1>2, RowTypes DEF Goto
    <2>2. k \in Call /\ k.pc = "insert" /\ Shaped(k) /\ Informed(c)
      BY <1>0, RowTypes DEF InsertVersion, At, Known, Knows
    <2>3. k.id = None /\ k.target = None /\ ~k.robbed /\ k.found = {} /\ k.op = "update"
             /\ (k.toggle = Keep => ~k.overtaken)
      BY <2>2 DEF Shaped
    <2>4. /\ Shaped(next) /\ next.pc = p /\ next.op = "update" /\ next.found = {} /\ next.id = None
          /\ next.toggle = k.toggle /\ next.was = k.was /\ next.had = k.had
          /\ next.overtaken = k.overtaken
          /\ p \notin {"delete", "stop"} /\ (p = "commit" => ~(WillDeactivate(next) /\ HasPush(next.had)))
      BY <2>2, <2>3, GoesOn
    <2> HIDE DEF next, p
    <2>5. call'[c] = next
      BY <1>0, <2>1, RowTypes
    <2>6. k.toggle # Keep /\ ~k.overtaken => exists /\ k.was = active /\ k.had = definition
      BY <2>2, <2>3 DEF Informed, Deciding, At
    <2>7. Knows(c)'
      BY <1>0, <2>4, <2>5, <2>6, KnowsAs
    <2> QED BY <1>0, <2>1, <2>4, <2>7, QuietStep
  <1> QED BY <1>1, <1>2 DEF InsertVersion

\* What onActivate subscribes is the call's own.
LEMMA KnownSubscribe == ASSUME Inv, Known, NEW c \in Users, Subscribe(c) PROVE Known'
  <1> DEFINE k == call[c]
             kind == KindOf[NewDefinition(k)]
  <1> PICK id \in NewIds(kind) :
             /\ subs' = Subscribed(id, kind)
             /\ call' = [call EXCEPT ![c] = [call[c] EXCEPT !.pc = "upsert", !.id = id]]
    BY DEF Subscribe
  <1> DEFINE next == [k EXCEPT !.pc = "upsert", !.id = id]
  <1>0. c \in Callers /\ UNCHANGED <<exists, active, definition, rows>>
        /\ subs' = Subscribed(id, kind) /\ call' = [call EXCEPT ![c] = next]
    BY RowTypes DEF Subscribe, workflow
  <1>1. k \in Call /\ k.pc = "subscribe" /\ Shaped(k) /\ Informed(c)
    BY <1>0, RowTypes DEF Subscribe, At, Known, Knows
  <1>2. /\ id \in Ids /\ id # None /\ (id = Mailbox <=> kind = "gmail")
        /\ id # Mailbox => /\ \A n \in Nodes : rows[n] # id
                           /\ \A d \in Callers : call[d].id # id
        /\ subs'[id] = Fresh(kind)
        /\ \A i \in Ids : i # id => subs'[i] = subs[i]
        /\ Aged' /\ Watched'
    BY <1>0, NewSub DEF Aged, Watched
  <1>3. /\ next.pc = "upsert" /\ next.op = k.op /\ next.toggle = k.toggle /\ next.was = k.was
        /\ next.had = k.had /\ next.id = id /\ next.found = k.found /\ next.save = k.save
        /\ next.overtaken = k.overtaken /\ next.target = k.target
    BY <1>1 DEF Call
  <1> HIDE DEF next
  <1>4. k.found = {} /\ k.op = "update" /\ WillActivate(k) /\ HasPush(NewDefinition(k)) /\ k.toggle # Keep
        /\ k.target = None
    BY <1>1 DEF Shaped, WillActivate, Keep
  <1>5. /\ WillActivate(next) = WillActivate(k) /\ WillDeactivate(next) = WillDeactivate(k)
        /\ NewDefinition(next) = NewDefinition(k) /\ KindHeld(next) = kind
    BY <1>3, <1>4 DEF WillActivate, WillDeactivate, NewDefinition, KindHeld
  <1> HIDE DEF kind
  <1>6. Shaped(next)
    BY <1>2, <1>3, <1>4, <1>5 DEF Shaped
  <1>7. ~Changed
    BY <1>0 DEF Changed
  <1>8. call'[c] = next /\ \A d \in Callers \ {c} : Told(d)
    BY <1>0, <1>7, CallsAfter DEF Inv, Kept
  <1>9. Knows(c)'
    <2>1. ~k.overtaken => exists /\ k.was = active /\ k.had = definition
      BY <1>1, <1>4 DEF Informed, Deciding, At
    <2>2. id # Mailbox => \A d \in Callers \ {c} : call'[d].id # id
      BY <1>2, <1>8 DEF Told
    <2>3. id # Mailbox => \A n \in Nodes : rows'[n] # id
      BY <1>0, <1>2
    <2>4. subs'[id].age = "new"
      BY <1>2 DEF Fresh
    <2> QED BY <1>0, <1>2, <1>3, <1>4, <1>5, <1>6, <1>8, <2>1, <2>2, <2>3, <2>4, KnowsAs
  <1>10. Spares(c)
    <2>1. ASSUME NEW d \in Callers \ {c}, call[d].id # None
          PROVE  /\ \/ subs'[call[d].id] = subs[call[d].id]
                    \/ call[d].id = Mailbox /\ subs'[call[d].id] = Fresh("gmail")
                 /\ call[d].id # Mailbox => call'[c].id # call[d].id
      BY <1>2, <1>3, <1>8, <2>1, RowTypes
    <2> QED BY <1>0, <1>8, <2>1 DEF Spares
  <1>11. Gone'
    BY <1>0 DEF Known, Gone, Listed
  <1> QED BY <1>0, <1>2, <1>9, <1>10, <1>11, KnownAfter

\* The row's upsert keeps what was subscribed.
LEMMA KnownUpsert == ASSUME Inv, Known, NEW c \in Users, Upsert(c) PROVE Known'
  <1>0. c \in Callers /\ UNCHANGED <<exists, active, definition, rows, subs>>
    BY RowTypes DEF Upsert, workflow
  <1>1. CASE Done(c)
    <2>1. call' = [call EXCEPT ![c] = Idle]
      BY <1>1 DEF Done
    <2>2. call'[c] = Idle /\ Idle.id = None
      BY <1>0, <2>1, RowTypes DEF Idle
    <2> QED BY <1>0, <2>1, <2>2, IdleKnows, QuietStep
  <1>2. CASE exists /\ Goto(c, "commit")
    <2> DEFINE k == call[c]
               next == [k EXCEPT !.pc = "commit"]
    <2>1. call' = [call EXCEPT ![c] = next]
      BY <1>0, <1>2, RowTypes DEF Goto
    <2>2. k \in Call /\ k.pc = "upsert" /\ Shaped(k) /\ Informed(c) /\ Held(c)
      BY <1>0, RowTypes DEF Upsert, At, Known, Knows
    <2>3. /\ next.pc = "commit" /\ next.op = k.op /\ next.toggle = k.toggle /\ next.was = k.was
          /\ next.had = k.had /\ next.id = k.id /\ next.found = k.found /\ next.save = k.save
          /\ next.overtaken = k.overtaken /\ next.target = k.target /\ next.robbed = k.robbed
      BY <2>2 DEF Call
    <2> HIDE DEF next
    <2>4. k.found = {} /\ k.op = "update" /\ WillActivate(k) /\ HasPush(NewDefinition(k))
          /\ k.id # None /\ k.target = None
      BY <2>2 DEF Shaped
    <2>4a. k.toggle # Keep /\ ~WillDeactivate(k)
      BY <2>4 DEF WillActivate, WillDeactivate, Keep
    <2>5. /\ WillActivate(next) = WillActivate(k) /\ WillDeactivate(next) = WillDeactivate(k)
          /\ NewDefinition(next) = NewDefinition(k) /\ KindHeld(next) = KindHeld(k)
      BY <2>3 DEF WillActivate, WillDeactivate, NewDefinition, KindHeld
    <2>6. Shaped(next)
      BY <2>3, <2>4, <2>4a, <2>5 DEF Shaped
    <2>7. call'[c] = next /\ \A d \in Callers \ {c} : call'[d] = call[d]
      BY <1>0, <2>1, RowTypes
    <2>8. ~k.overtaken => exists /\ k.was = active /\ k.had = definition
      BY <2>2, <2>4, <2>4a DEF Informed, Deciding, At
    <2>9. /\ k.robbed \/ subs'[k.id] = Fresh(KindHeld(k))
          /\ k.id = Mailbox => KindHeld(k) = "gmail"
          /\ subs'[k.id].live => subs'[k.id].age = "new"
          /\ k.id # Mailbox => /\ \A n \in Nodes : rows'[n] # k.id
                               /\ \A d \in Callers \ {c} : call'[d].id # k.id
      BY <1>0, <2>2, <2>4, <2>7 DEF Held
    <2>10. Knows(c)'
      BY <1>0, <1>2, <2>3, <2>4, <2>4a, <2>5, <2>6, <2>7, <2>8, <2>9, KnowsAs
    <2> QED BY <1>0, <2>1, <2>3, <2>10, QuietStep
  <1> QED BY <1>1, <1>2 DEF Upsert

\* The commit publishes the rows, and overtakes those who read before it.
LEMMA KnownCommit == ASSUME Inv, Known, NEW c \in Users, Commit(c) PROVE Known'
  <1> DEFINE k == call[c]
  <1>0. c \in Callers /\ UNCHANGED <<exists, subs>> /\ k.pc = "commit" /\ Shaped(k)
    BY RowTypes DEF Commit, At, Known, Knows
  <1>1. CASE ~exists
    <2>1. call' = [call EXCEPT ![c] = Idle] /\ UNCHANGED <<exists, active, definition, rows, subs>>
      BY <1>0, <1>1 DEF Commit, Done
    <2>2. call'[c] = Idle /\ Idle.id = None
      BY <1>0, <2>1, RowTypes DEF Idle
    <2> QED BY <1>0, <2>1, <2>2, IdleKnows, QuietStep
  <1>2. CASE exists
    <2>1. \A n \in Nodes : rows'[n] \in {rows[n], None} \/ (rows'[n] = k.id /\ k.id # None)
      BY <1>2 DEF Commit, RowsAfter
    <2>2. call'[c] = Idle /\ \A d \in Callers \ {c} : Told(d)
      <3>1. Overtaking(c, Idle, <<active, definition, rows>>' # <<active, definition, rows>>)
        BY <1>2 DEF Commit
      <3>2. Changed => <<active, definition, rows>>' # <<active, definition, rows>>
        BY <1>0 DEF Changed
      <3> QED BY <1>0, <3>1, <3>2, CallsAfter DEF Inv, Kept
    <2>3. Gone'
      BY <1>0, <1>2 DEF Gone
    <2> QED BY <1>0, <2>1, <2>2, <2>3, WriteEnds
  <1> QED BY <1>1, <1>2, RowTypes

\* The deactivation lists the rows there are, and reads what to stop.
LEMMA KnownFindRows == ASSUME Inv, Known, NEW c \in Users, FindRows(c) PROVE Known'
  <1> DEFINE k == call[c]
             t == Target(k.had)
             p == IF t = None THEN "delete" ELSE "stop"
             next == [k EXCEPT !.pc = p, !.found = Listed, !.target = t]
  <1>0. c \in Callers /\ UNCHANGED <<exists, active, definition, rows, subs>>
        /\ call' = [call EXCEPT ![c] = next]
    BY RowTypes DEF FindRows, workflow, Listed
  <1>1. k \in Call /\ k.pc = "find" /\ Shaped(k) /\ Informed(c) /\ k.had \in Definitions
    BY <1>0, RowTypes, PointTypes DEF FindRows, At, Known, Knows
  <1>2. /\ next.pc = p /\ next.op = k.op /\ next.toggle = k.toggle /\ next.was = k.was
        /\ next.had = k.had /\ next.id = k.id /\ next.found = Listed /\ next.save = k.save
        /\ next.overtaken = k.overtaken /\ next.target = t /\ next.robbed = k.robbed
    BY <1>1 DEF Call
  <1> HIDE DEF next
  <1>3. k.id = None /\ k.op # "renew" /\ (k.op = "update" => WillDeactivate(k)) /\ HasPush(k.had)
        /\ ~k.robbed
    BY <1>1 DEF Shaped
  <1>4. k.op = "update" => k.toggle # Keep
    BY <1>3 DEF WillDeactivate, Keep
  <1>5. /\ p \in {"delete", "stop"} /\ (t # None <=> p = "stop") /\ t = rows[NodeOf[k.had]]
        /\ p = "stop" => NodeOf[k.had] \in Listed
    <2>1. NodeOf[k.had] \in Nodes
      BY <1>1, <1>3, ActivationAssumption DEF HasPush
    <2> QED BY <1>3, <2>1 DEF Target, Listed
  <1> HIDE DEF p, t
  <1>6. Shaped(next)
    <2>1. WillDeactivate(next) = WillDeactivate(k) /\ HasPush(next.had)
      BY <1>2, <1>3 DEF WillDeactivate
    <2> QED BY <1>2, <1>3, <1>4, <1>5, <2>1 DEF Shaped
  <1>7. call'[c] = next /\ Listed' = Listed
    BY <1>0, RowTypes DEF Listed
  <1>8. Knows(c)'
    <2>1. ~k.overtaken => exists /\ k.was = active /\ k.had = definition
      BY <1>1, <1>3, <1>4 DEF Informed, Deciding, At
    <2>2. next.pc # "commit" /\ next.id = None /\ next.found = Listed'
      BY <1>2, <1>3, <1>5, <1>7
    <2>3. ~next.overtaken => next.target = rows'[NodeOf[definition']]
      BY <1>0, <1>2, <1>5, <2>1
    <2> QED BY <1>0, <1>2, <1>3, <1>6, <1>7, <2>1, <2>2, <2>3, KnowsAs
  <1> QED BY <1>0, <1>2, <1>8, QuietStep

\* What a stop means for the other calls.
LEMMA StopTells ==
    ASSUME Inv, Known, NEW c \in Callers, NEW obeyed \in BOOLEAN, StopTarget(c, obeyed),
           NEW d \in Callers \ {c}
    PROVE  Told(d) /\ (obeyed /\ call[d].id \in Stopped(call[c]) => call'[d].robbed)
  <1> DEFINE S == Stopped(call[c])
             b == obeyed /\ call[d].id \in S
  <1>1. /\ UNCHANGED <<exists, active, definition, rows>> /\ S \subseteq Ids
        /\ call[d] \in Call /\ call[d].robbed \in BOOLEAN /\ b \in BOOLEAN
        /\ call'[d] = [call[d] EXCEPT !.robbed = @ \/ b]
    BY RowTypes DEF StopTarget, workflow, Stopped, Call
  <1>2. b => call[d].id # None
    BY <1>1, Bounds
  <1> HIDE DEF b
  <1>3. /\ call'[d].pc = call[d].pc /\ call'[d].op = call[d].op
        /\ call'[d].save = call[d].save /\ call'[d].toggle = call[d].toggle
        /\ call'[d].was = call[d].was /\ call'[d].had = call[d].had
        /\ call'[d].found = call[d].found /\ call'[d].id = call[d].id
        /\ call'[d].target = call[d].target /\ call'[d].robbed = (call[d].robbed \/ b)
        /\ call'[d].overtaken = call[d].overtaken
        /\ ~b => call'[d] = call[d]
    BY <1>1 DEF Call
  <1>4. ~Deciding(d) => ~b
    <2>1. Shaped(call[d])
      BY DEF Known, Knows
    <2> QED BY <1>2, <2>1 DEF Shaped, Deciding, At, WillActivate, Keep
  <1>5. ~Changed
    BY <1>1 DEF Changed
  <1>6. (call[d].robbed => call'[d].robbed) /\ (call'[d].robbed => call[d].robbed \/ call[d].id # None)
    BY <1>1, <1>2, <1>3
  <1>7. Told(d)
    BY <1>3, <1>4, <1>5, <1>6 DEF Told
  <1>8. b => call'[d].robbed
    BY <1>1, <1>3
  <1> QED BY <1>7, <1>8 DEF b

\* Who stops what it has listed robs those who have subscribed it since; the others keep what they
\* hold.
LEMMA KnownStopTarget ==
    ASSUME Inv, Known, NEW c \in Callers, NEW obeyed \in BOOLEAN, StopTarget(c, obeyed) PROVE Known'
  <1> DEFINE k == call[c]
             S == Stopped(k)
             p == IF k.op = "renew" THEN "renew" ELSE "delete"
             next == [k EXCEPT !.pc = p, !.target = None]
  <1>0. /\ UNCHANGED <<exists, active, definition, rows>>
        /\ call'[c] = next
        /\ \A d \in Callers \ {c} :
              call'[d] = [call[d] EXCEPT !.robbed = @ \/ (obeyed /\ call[d].id \in S)]
        /\ subs' = IF obeyed THEN Stop(S) ELSE subs
    BY DEF StopTarget, workflow
  <1>1. k \in Call /\ k.pc = "stop" /\ Shaped(k) /\ Informed(c)
    BY RowTypes DEF StopTarget, At, Known, Knows
  <1>2. /\ next.pc = p /\ next.op = k.op /\ next.toggle = k.toggle /\ next.was = k.was
        /\ next.had = k.had /\ next.id = k.id /\ next.found = k.found /\ next.save = k.save
        /\ next.overtaken = k.overtaken /\ next.target = None /\ next.robbed = k.robbed
    BY <1>1 DEF Call
  <1> HIDE DEF next
  <1>3. k.id = None /\ (k.op = "update" => WillDeactivate(k)) /\ HasPush(k.had) /\ ~k.robbed
    BY <1>1 DEF Shaped
  <1>4. k.op = "update" => k.toggle # Keep
    BY <1>3 DEF WillDeactivate, Keep
  <1>5. p \in {"renew", "delete"} /\ (p = "renew" <=> k.op = "renew")
    OBVIOUS
  <1> HIDE DEF p
  <1>6. Shaped(next)
    <2>1. WillDeactivate(next) = WillDeactivate(k) /\ HasPush(next.had)
      BY <1>2, <1>3 DEF WillDeactivate
    <2> QED BY <1>1, <1>2, <1>3, <1>4, <1>5, <2>1 DEF Shaped
  <1>7. S \subseteq Ids /\ Listed' = Listed
    BY <1>0 DEF Stopped, Listed
  <1> HIDE DEF S
  <1>8. Knows(c)'
    <2>1. ~k.overtaken => /\ exists /\ k.was = active /\ k.had = definition
                          /\ k.op # "renew" => k.found = Listed
                          /\ k.op = "renew" => NodeOf[definition] \in Listed
      BY <1>1, <1>3, <1>4 DEF Informed, Deciding, Deactivating, At
    <2>2. next.pc # "commit" /\ next.pc # "stop" /\ next.id = None
      BY <1>2, <1>3, <1>5
    <2> QED BY <1>0, <1>2, <1>5, <1>6, <1>7, <2>1, <2>2, KnowsAs
  <1>9. \A d \in Callers \ {c} : Told(d) /\ (obeyed /\ call[d].id \in S => call'[d].robbed)
    BY StopTells DEF S
  <1>10. /\ \A i \in Ids : subs'[i] = subs[i] \/ (obeyed /\ i \in S /\ ~subs'[i].live /\ subs'[i].age = "new")
    BY <1>0 DEF Stop, Unsubscribed
  <1>11. Aged' /\ Watched'
    BY <1>10 DEF Known, Aged, Watched
  <1>12. Spares(c)
    <2>1. ASSUME NEW d \in Callers \ {c}, call[d].id # None
          PROVE  /\ \/ subs'[call[d].id] = subs[call[d].id]
                    \/ call'[d].robbed /\ ~subs'[call[d].id].live
                 /\ call'[c].id # call[d].id
      BY <1>0, <1>2, <1>3, <1>9, <1>10, <2>1, RowTypes
    <2> QED BY <1>0, <1>9, <2>1 DEF Spares
  <1>13. Gone'
    BY <1>0, <1>7 DEF Known, Gone
  <1> QED BY <1>8, <1>11, <1>12, <1>13, KnownAfter

\* The deletion of the rows listed: the list is what an update commits later.
LEMMA KnownDeleteRows == ASSUME Inv, Known, NEW c \in Users, DeleteRows(c) PROVE Known'
  <1> DEFINE k == call[c]
  <1>0. c \in Callers /\ UNCHANGED <<exists, active, definition, subs>>
    BY RowTypes DEF DeleteRows, workflow
  <1>1. k \in Call /\ k.pc = "delete" /\ Shaped(k) /\ Informed(c)
    BY <1>0, RowTypes DEF DeleteRows, At, Known, Knows
  <1>2. k.id = None /\ k.target = None /\ ~k.robbed /\ k.op # "renew" /\ (k.op = "update" => WillDeactivate(k)) /\ HasPush(k.had)
    BY <1>1 DEF Shaped
  <1>3. ~k.overtaken /\ (k.op = "update" => k.toggle # Keep) =>
            exists /\ k.was = active /\ k.had = definition /\ k.found = Listed
    BY <1>1 DEF Informed, Deciding, Deactivating, At
  <1>4. CASE rows' = rows /\ Writes(c, Idle)
    <2>1. call'[c] = Idle /\ \A d \in Callers \ {c} : Told(d)
      BY <1>0, <1>4, CallsAfter DEF Inv, Kept
    <2>2. Gone'
      BY <1>0, <1>4 DEF Known, Gone, Listed
    <2> QED BY <1>0, <1>4, <2>1, <2>2, WriteEnds
  <1>5. CASE /\ k.op = "update" /\ Goto(c, "commit") /\ rows' = rows
             /\ \A n \in k.found : rows[n] # None
    <2> DEFINE next == [k EXCEPT !.pc = "commit"]
    <2>1. call' = [call EXCEPT ![c] = next]
      BY <1>0, <1>5, RowTypes DEF Goto
    <2>2. /\ next.pc = "commit" /\ next.op = k.op /\ next.toggle = k.toggle /\ next.was = k.was
          /\ next.had = k.had /\ next.id = k.id /\ next.found = k.found /\ next.save = k.save
          /\ next.overtaken = k.overtaken /\ next.target = k.target
          /\ next.robbed = k.robbed
      BY <1>1 DEF Call
    <2> HIDE DEF next
    <2>3. k.toggle # Keep /\ ~WillActivate(k) /\ ~WillActivate(next) /\ WillDeactivate(next)
      BY <1>2, <1>5, <2>2 DEF WillActivate, WillDeactivate, Keep
    <2>4. Shaped(next)
      BY <1>2, <1>5, <2>2, <2>3 DEF Shaped
    <2>5. call'[c] = next
      BY <1>0, <2>1, RowTypes
    <2>6. k.found # {} => exists
      BY <1>0, <1>5, RowTypes DEF Known, Gone, Listed
    <2>7. Listed' = Listed
      BY <1>5 DEF Listed
    <2>8. Knows(c)'
      BY <1>0, <1>2, <1>3, <1>5, <2>2, <2>3, <2>4, <2>5, <2>6, <2>7, KnowsAs
    <2> QED BY <1>0, <1>2, <1>5, <2>1, <2>2, <2>8, QuietStep
  <1>6. CASE /\ k.op # "update" /\ Writes(c, [k EXCEPT !.pc = "remove", !.found = Idle.found])
             /\ rows' = [n \in Nodes |-> IF n \in k.found THEN None ELSE rows[n]]
    <2> DEFINE next == [k EXCEPT !.pc = "remove", !.found = Idle.found]
    <2>1. call'[c] = next /\ \A d \in Callers \ {c} : Told(d)
      BY <1>0, <1>6, CallsAfter DEF Inv, Kept
    <2>2. /\ next.pc = "remove" /\ next.op = k.op /\ next.toggle = k.toggle /\ next.was = k.was
          /\ next.had = k.had /\ next.id = k.id /\ next.found = {} /\ next.save = k.save
          /\ next.overtaken = k.overtaken /\ next.target = k.target
          /\ next.robbed = k.robbed
      BY <1>1 DEF Call, Idle
    <2> HIDE DEF next
    <2>3. k.op = "remove"
      BY <1>1, <1>2, <1>6 DEF Call
    <2>4. Shaped(next)
      BY <1>2, <2>2, <2>3 DEF Shaped
    <2>5. Knows(c)'
      BY <1>0, <1>2, <1>3, <2>1, <2>2, <2>3, <2>4, KnowsAs
    <2>6. Spares(c)
      <3>1. \A d \in Callers \ {c} : call[d].id # None => call'[c].id # call[d].id
        BY <1>2, <2>1, <2>2
      <3> QED BY <1>0, <1>6, <2>1, <3>1 DEF Spares
    <2>7. Gone' /\ Aged' /\ Watched'
      BY <1>0, <1>6 DEF Known, Gone, Aged, Watched, Listed
    <2> QED BY <1>0, <2>5, <2>6, <2>7, KnownAfter
  <1> QED BY <1>4, <1>5, <1>6 DEF DeleteRows

\* A removal reads the row, like an update.
LEMMA KnownRemove == ASSUME Inv, Known, NEW c \in Users, Remove(c) PROVE Known'
  <1> DEFINE p == IF active /\ HasPush(definition) THEN "find" ELSE "remove"
             k == [Idle EXCEPT !.op = "remove", !.was = active, !.had = definition]
             next == [k EXCEPT !.pc = p]
  <1>0. c \in Callers /\ UNCHANGED <<exists, active, definition, rows, subs>> /\ exists
        /\ call' = [call EXCEPT ![c] = next]
    BY RowTypes DEF Remove, workflow
  <1>1. /\ next.pc = p /\ next.op = "remove" /\ next.was = active
        /\ next.had = definition /\ next.id = None /\ next.found = {} /\ ~next.overtaken
        /\ next.target = None /\ ~next.robbed
    BY DEF Idle
  <1> HIDE DEF next
  <1>2. p \in {"find", "remove"} /\ (p = "find" => HasPush(definition))
    OBVIOUS
  <1> HIDE DEF p
  <1>3. Shaped(next)
    BY <1>1, <1>2 DEF Shaped
  <1>4. call'[c] = next
    BY <1>0, RowTypes
  <1>5. Knows(c)'
    BY <1>0, <1>1, <1>2, <1>3, <1>4, KnowsAs
  <1> QED BY <1>0, <1>1, <1>5, QuietStep

\* The workflow goes only when no transaction holds a row.
LEMMA KnownDeleteWorkflow == ASSUME Inv, Known, NEW c \in Users, DeleteWorkflow(c) PROVE Known'
  <1>0. c \in Callers /\ UNCHANGED subs /\ \A n \in Nodes : RowFree(c, n)
    BY RowTypes DEF DeleteWorkflow
  <1>1. call'[c] = Idle /\ \A d \in Callers \ {c} : Told(d)
    BY <1>0, CallsAfter DEF Inv, Kept, DeleteWorkflow
  <1>2. rows' = [n \in Nodes |-> None] /\ active' = FALSE
    BY DEF DeleteWorkflow
  <1>3. Gone'
    BY <1>2 DEF Gone, Listed
  <1>4. \A n \in Nodes : rows'[n] \in {rows[n], None}
    BY <1>2
  <1> QED BY <1>0, <1>1, <1>3, <1>4, WriteEnds

\* The renewal picks a row, and ages its subscription.
LEMMA KnownStartRenewal ==
    ASSUME Inv, Known, NEW c \in Renewers, NEW n \in Nodes, StartRenewal(c, n) PROVE Known'
  <1> DEFINE i == rows[n]
             next == [Idle EXCEPT !.pc = "stop", !.op = "renew", !.was = TRUE, !.had = definition,
                                 !.found = {n}, !.target = i]
  <1>0. c \in Callers /\ UNCHANGED <<exists, active, definition, rows>>
        /\ i \in Ids /\ i # None /\ (subs[i].age = "due" \/ ~subs[i].live) /\ subs' = Passed(i)
    <2>1. c \in Callers /\ UNCHANGED <<exists, active, definition, rows>> /\ i \in Ids
      BY RowTypes DEF StartRenewal, workflow
    <2> QED BY <2>1 DEF StartRenewal, Known, Aged
  <1>1. /\ Aged' /\ Watched'
        /\ \A j \in Ids : j # i \/ ~subs[i].live => subs'[j] = subs[j]
    <2>1. CASE ~subs[i].live
      BY <1>0, <2>1 DEF Passed, Known, Aged, Watched
    <2>2. CASE subs[i].live
      <3>1. \A j \in Ids : j # i => subs'[j] = subs[j]
        BY <1>0, <2>2, RowTypes DEF Passed
      <3>2. subs'[i].live /\ subs'[i].kind = subs[i].kind
        BY <1>0, <2>2, RowTypes DEF Passed, Sub
      <3> QED BY <2>2, <3>1, <3>2 DEF Known, Aged, Watched
    <2> QED BY <2>1, <2>2
  <1>2. ASSUME NEW d \in Callers, call[d].id # None PROVE subs'[call[d].id] = subs[call[d].id]
    <2>1. call[d].id \in Ids /\ (subs[call[d].id].live => subs[call[d].id].age = "new")
      BY <1>2, RowTypes DEF Known, Knows, Held
    <2> QED BY <1>0, <1>1, <2>1
  <1>3. CASE UNCHANGED call
    BY <1>0, <1>1, <1>2, <1>3, ProviderStep
  <1>4. CASE active /\ NodeOf[definition] = n /\ call' = [call EXCEPT ![c] = next]
    <2>1. /\ next.pc = "stop" /\ next.op = "renew" /\ next.was = TRUE /\ next.had = definition
          /\ next.id = None /\ next.found = {n} /\ ~next.overtaken /\ next.target = i
          /\ ~next.robbed
      BY DEF Idle
    <2> HIDE DEF next
    <2>2. HasPush(definition)
      BY <1>4, ActivationAssumption DEF HasPush
    <2>3. Shaped(next)
      BY <1>0, <1>4, <2>1, <2>2 DEF Shaped
    <2>4. ~Changed
      BY <1>0 DEF Changed
    <2>5. call'[c] = next /\ \A d \in Callers \ {c} : Told(d)
      BY <1>0, <1>4, <2>4, CallsAfter DEF Inv, Kept
    <2>6. exists /\ active' = TRUE /\ definition' = definition /\ NodeOf[definition] \in Listed'
          /\ i = rows'[NodeOf[definition]]
      BY <1>0, <1>4, RowTypes DEF Known, Gone, Listed
    <2>7. Knows(c)'
      BY <1>0, <2>1, <2>3, <2>5, <2>6, KnowsAs
    <2>8. Spares(c)
      <3>1. \A d \in Callers \ {c} : call[d].id # None => call'[c].id # call[d].id
        BY <2>1, <2>5
      <3> QED BY <1>0, <1>2, <2>5, <3>1 DEF Spares
    <2>9. Gone'
      BY <1>0 DEF Known, Gone, Listed
    <2> QED BY <1>0, <1>1, <2>7, <2>8, <2>9, KnownAfter
  <1> QED BY <1>3, <1>4 DEF StartRenewal

\* The renewal's new subscription is its own, of the provider's kind.
LEMMA KnownResubscribe == ASSUME Inv, Known, NEW c \in Renewers, Resubscribe(c) PROVE Known'
  <1> DEFINE k == call[c]
             kind == ByProvider(KindOf[k.had])
  <1>0. c \in Callers /\ UNCHANGED <<exists, active, definition, rows>>
    BY RowTypes DEF Resubscribe, workflow
  <1>1. k \in Call /\ k.pc = "renew" /\ Shaped(k) /\ Informed(c)
    BY <1>0, RowTypes DEF Resubscribe, At, Known, Knows
  <1>2. CASE Done(c) /\ UNCHANGED subs
    <2>1. call' = [call EXCEPT ![c] = Idle]
      BY <1>2 DEF Done
    <2>2. call'[c] = Idle /\ Idle.id = None
      BY <1>0, <2>1, RowTypes DEF Idle
    <2> QED BY <1>0, <1>2, <2>1, <2>2, IdleKnows, QuietStep
  <1>3. ASSUME NEW id \in NewIds(kind), subs' = Subscribed(id, kind),
               call' = [call EXCEPT ![c] = [k EXCEPT !.pc = "write", !.id = id]]
        PROVE  Known'
    <2> DEFINE next == [k EXCEPT !.pc = "write", !.id = id]
    <2>1. /\ id \in Ids /\ id # None /\ (id = Mailbox <=> kind = "gmail")
          /\ id # Mailbox => /\ \A n \in Nodes : rows[n] # id
                             /\ \A d \in Callers : call[d].id # id
          /\ subs'[id] = Fresh(kind)
          /\ \A i \in Ids : i # id => subs'[i] = subs[i]
          /\ Aged' /\ Watched'
      BY <1>3, NewSub DEF Aged, Watched
    <2>2. /\ next.pc = "write" /\ next.op = k.op /\ next.toggle = k.toggle /\ next.was = k.was
          /\ next.had = k.had /\ next.id = id /\ next.found = k.found /\ next.save = k.save
          /\ next.overtaken = k.overtaken /\ next.target = k.target
      BY <1>1 DEF Call
    <2>3. k.op = "renew" /\ HasPush(k.had) /\ k.target = None
      BY <1>1 DEF Shaped
    <2>4. ~Changed
      BY <1>0 DEF Changed
    <2>5. call'[c] = next /\ \A d \in Callers \ {c} : Told(d)
      BY <1>0, <1>3, <2>4, CallsAfter DEF Inv, Kept
    <2> HIDE DEF next
    <2>6. KindHeld(next) = kind
      BY <2>2, <2>3 DEF KindHeld
    <2> HIDE DEF kind
    <2>7. Shaped(next)
      BY <2>1, <2>2, <2>3 DEF Shaped
    <2>8. Listed' = Listed
      BY <1>0 DEF Listed
    <2>9. Knows(c)'
      <3>1. ~k.overtaken => /\ exists /\ k.was = active /\ k.had = definition
                            /\ NodeOf[definition] \in Listed
        BY <1>1, <2>3 DEF Informed, Deciding, At
      <3>2. id # Mailbox => \A d \in Callers \ {c} : call'[d].id # id
        BY <2>1, <2>5 DEF Told
      <3>3. id # Mailbox => \A n \in Nodes : rows'[n] # id
        BY <1>0, <2>1
      <3>4. subs'[id].age = "new"
        BY <2>1 DEF Fresh
      <3> QED BY <1>0, <2>1, <2>2, <2>3, <2>5, <2>6, <2>7, <2>8, <3>1, <3>2, <3>3, <3>4, KnowsAs
    <2>10. Spares(c)
      <3>1. ASSUME NEW d \in Callers \ {c}, call[d].id # None
            PROVE  /\ \/ subs'[call[d].id] = subs[call[d].id]
                      \/ call[d].id = Mailbox /\ subs'[call[d].id] = Fresh("gmail")
                   /\ call[d].id # Mailbox => call'[c].id # call[d].id
        BY <2>1, <2>2, <2>5, <3>1, RowTypes
      <3> QED BY <1>0, <2>5, <3>1 DEF Spares
    <2>11. Gone'
      BY <1>0, <2>8 DEF Known, Gone
    <2> QED BY <1>0, <2>1, <2>9, <2>10, <2>11, KnownAfter
  <1> QED BY <1>2, <1>3 DEF Resubscribe

\* The renewal writes the id into the row, if that is still there.
LEMMA KnownWriteRenewal == ASSUME Inv, Known, NEW c \in Renewers, WriteRenewal(c) PROVE Known'
  <1> DEFINE k == call[c]
             n == NodeOf[k.had]
  <1>0. c \in Callers /\ UNCHANGED <<exists, active, definition, subs>>
        /\ rows' = [rows EXCEPT ![n] = IF rows[n] = None THEN None ELSE k.id]
    BY RowTypes DEF WriteRenewal, workflow
  <1>1. k.pc = "write" /\ Shaped(k)
    BY <1>0 DEF WriteRenewal, At, Known, Knows
  <1>2. k.id # None /\ n \in Nodes
    BY <1>0, <1>1, RowTypes, PointTypes, ActivationAssumption DEF Shaped, HasPush
  <1>3. call'[c] = Idle /\ \A d \in Callers \ {c} : Told(d)
    <2>1. Overtaking(c, Idle, rows[n] # None)
      BY DEF WriteRenewal
    <2>2. Changed => rows[n] # None
      <3> HIDE DEF n
      <3>1. rows[n] = None => rows' = rows
        BY <1>0, <1>2, RowTypes
      <3> QED BY <1>0, <3>1 DEF Changed
    <2> QED BY <1>0, <2>1, <2>2, CallsAfter DEF Inv, Kept
  <1>4. /\ \A m \in Nodes : m # n => rows'[m] = rows[m]
        /\ rows[n] = None => rows'[n] = None
        /\ rows[n] # None => rows'[n] = k.id
    <2> HIDE DEF n
    <2> QED BY <1>0, <1>2, RowTypes
  <1> HIDE DEF n
  <1>5. Gone'
    BY <1>0, <1>2, <1>4 DEF Known, Gone, Listed
  <1>6. \A m \in Nodes : rows'[m] \in {rows[m], None} \/ (rows'[m] = call[c].id /\ call[c].id # None)
    BY <1>2, <1>4
  <1> QED BY <1>0, <1>3, <1>5, <1>6, WriteEnds

\* A call that breaks off.
LEMMA KnownFail == ASSUME Inv, Known, NEW c \in Callers, Fail(c) PROVE Known'
  <1>1. call' = [call EXCEPT ![c] = Idle] /\ UNCHANGED <<exists, active, definition, rows, subs>>
    BY DEF Fail, Done, workflow
  <1>2. call'[c] = Idle /\ Idle.id = None
    BY <1>1, RowTypes DEF Idle
  <1> QED BY <1>1, <1>2, IdleKnows, QuietStep

\* What the provider does by itself, to subscriptions that a row has or that are over.
LEMMA KnownProvider ==
    ASSUME Inv, Known, NEW i \in Ids, ComesDue(i) \/ Expire(i) PROVE Known'
  <1>1. /\ UNCHANGED <<exists, active, definition, rows, call>>
        /\ \A j \in Ids : j # i => subs'[j] = subs[j]
        /\ subs'[i].age # "new" => subs'[i].live
        /\ subs'[i].live => subs[i].live /\ subs'[i].kind = subs[i].kind
    <2>1. CASE ComesDue(i)
      BY <2>1, RowTypes DEF ComesDue, workflow, Sub
    <2>2. CASE Expire(i)
      BY <2>2, RowTypes DEF Expire, workflow, Sub, Unsubscribed
    <2> QED BY <2>1, <2>2
  <1>2. Aged' /\ Watched'
    BY <1>1 DEF Known, Aged, Watched
  <1>3. ASSUME NEW d \in Callers, call[d].id # None PROVE subs'[call[d].id] = subs[call[d].id]
    <2>1. call[d].id \in Ids /\ (subs[call[d].id].live => subs[call[d].id].age = "new")
      BY <1>3, RowTypes DEF Known, Knows, Held
    <2>2. (\A e \in Callers : call[e].id # i) \/ subs[i].age = "passed"
      BY DEF ComesDue, Expire
    <2>3. call[d].id # i
      BY <2>1, <2>2 DEF Known, Aged
    <2> QED BY <1>1, <2>1, <2>3
  <1> QED BY <1>1, <1>2, <1>3, ProviderStep

\* At first nobody is under way and nothing is subscribed.
LEMMA KnownInit == ASSUME Init PROVE Known
  <1>1. /\ Idle.pc = "idle" /\ Idle.id = None /\ Idle.found = {} /\ Idle.op = "update"
        /\ ~Idle.overtaken /\ Idle.target = None /\ ~Idle.robbed
    BY DEF Idle
  <1>2. \A c \in Callers : Knows(c)
    BY <1>1 DEF Init, Knows, Shaped, Informed, Deciding, Holding, Held, At
  <1>3. Gone /\ Aged /\ Watched
    BY DEF Init, Gone, Aged, Watched, Unsubscribed
  <1> QED BY <1>2, <1>3 DEF Known

\* No action, and no stuttering, takes away what the calls know.
LEMMA KnownStep == Inv /\ Known /\ [Next]_vars => Known'
  <1> SUFFICES ASSUME Inv, Known, [Next]_vars PROVE Known'
    OBVIOUS
  <1>1. CASE UNCHANGED vars
    <2>1. UNCHANGED <<exists, active, definition, rows, call, subs>>
      BY <1>1 DEF vars, workflow
    <2>2. Aged' /\ Watched'
      BY <2>1 DEF Known, Aged, Watched
    <2> QED BY <2>1, <2>2, ProviderStep
  <1>2. ASSUME NEW c \in Users, UserStep(c) PROVE Known'
    BY <1>2, KnownUpdate, KnownPlain, KnownReadPrior, KnownInsertVersion, KnownSubscribe,
       KnownUpsert, KnownCommit, KnownFindRows, KnownStopTarget, KnownDeleteRows, KnownRemove, KnownDeleteWorkflow, RowTypes
       DEF UserStep
  <1>3. ASSUME NEW c \in Renewers, RenewerStep(c) PROVE Known'
    BY <1>3, KnownStartRenewal, KnownStopTarget, KnownResubscribe, KnownWriteRenewal,
       RowTypes DEF RenewerStep
  <1> QED BY <1>1, <1>2, <1>3, KnownFail, KnownProvider DEF Next

\* So the calls know it in every behaviour.
LEMMA KnownAlways == Spec => []Known
  BY InitInv, InvAlways, KnownInit, KnownStep, PTL DEF Spec

\* An activation or a deactivation by somebody who still knows the workflow writes a row with a
\* live subscription of the right kind, unless it is robbed of it, or takes all the rows away.
LEMMA HealingStep ==
    ASSUME Inv, Known, Known', NEW c \in Users, Commit(c), exists, ~call[c].overtaken
    PROVE  /\ WillActivate(call[c]) /\ HasPush(definition') /\ ~call[c].robbed => Heard'
           /\ WillDeactivate(call[c]) /\ HasPush(definition) => rows' = [n \in Nodes |-> None]
  <1> DEFINE k == call[c]
  <1>0. /\ c \in Callers /\ k \in Call /\ k.pc = "commit" /\ k.op = "update"
        /\ Shaped(k) /\ Informed(c) /\ Held(c)
        /\ definition' = Saved(k) /\ rows' = RowsAfter(k) /\ UNCHANGED subs
    BY RowTypes DEF Commit, At, Known, Knows, Shaped
  <1>1. ASSUME WillActivate(k), HasPush(definition'), ~k.robbed PROVE Heard'
    <2>1. k.toggle # Keep /\ ~WillDeactivate(k)
      BY <1>1 DEF WillActivate, WillDeactivate, Keep
    <2>2. k.had = definition
      BY <1>0, <2>1 DEF Informed, Deciding, At
    <2>3. definition' = NewDefinition(k)
      BY <1>0, <2>2 DEF Saved, NewDefinition
    <2>4. k.id # None /\ k.found = {}
      BY <1>0, <1>1, <2>1, <2>3 DEF Shaped
    <2>5. NodeOf[definition'] \in Nodes
      BY <1>0, <1>1, <2>3, PointTypes, ActivationAssumption DEF HasPush
    <2>6. rows'[NodeOf[definition']] = k.id
      BY <1>0, <2>3, <2>4, <2>5 DEF RowsAfter
    <2>7. subs'[k.id] = Fresh(KindOf[definition'])
      BY <1>0, <1>1, <2>3, <2>4 DEF Held, KindHeld
    <2> QED BY <1>1, <2>4, <2>6, <2>7 DEF Heard, HasPush, Fresh
  <1>2. ASSUME WillDeactivate(k), HasPush(definition) PROVE rows' = [n \in Nodes |-> None]
    <2>1. k.toggle # Keep /\ ~WillActivate(k)
      BY <1>2 DEF WillActivate, WillDeactivate, Keep
    <2>2. k.had = definition
      BY <1>0, <2>1 DEF Informed, Deciding, At
    <2>3. k.found = Listed
      BY <1>0, <1>2, <2>1, <2>2 DEF Informed, Deciding, Deactivating, At
    <2>4. k.id = None
      BY <1>0, <2>1 DEF Shaped
    <2> QED BY <1>0, <2>3, <2>4 DEF RowsAfter, Listed
  <1> QED BY <1>1, <1>2

\* Whatever broke off, was refused or was written by a stale call before: who switches the
\* workflow on without being overtaken makes it heard, unless another has stopped the watch it had
\* just made, and who switches it off leaves no row.
THEOREM SwitchingAlwaysHeals == Spec => SwitchingHeals
  <1>1. Inv /\ Known /\ Known' /\ [Next]_vars =>
            [\A c \in Users : Commit(c) /\ exists /\ ~call[c].overtaken =>
                /\ WillActivate(call[c]) /\ HasPush(definition') /\ ~call[c].robbed => Heard'
                /\ WillDeactivate(call[c]) /\ HasPush(definition) =>
                       rows' = [n \in Nodes |-> None]]_vars
    BY HealingStep
  <1> QED BY <1>1, InvAlways, KnownAlways, PTL DEF Spec, SwitchingHeals

-----------------------------------------------------------------------------------
(* When all goes well.  Nothing excuses a row that does not fit, and no call that is  *)
(* bound to write has been overtaken (Calm).  Then the only row there may be is that   *)
(* of the trigger that is on, with a subscription of its kind or one that a call is    *)
(* about to undo or to replace, and every live one is in a row or held by a call       *)
(* (Good).  A call that stays calm in spite of a write by another has nothing to undo. *)

\* The calls that are bound to write, or to leave at the provider, what they have decided.
Bound(c) ==
    \/ call[c].pc \in {"plain", "stop", "subscribe", "upsert", "remove", "renew", "write"}
    \/ call[c].pc \in {"delete", "commit"} /\ (call[c].found # {} \/ call[c].id # None)
Calm == faults = 0 /\ ~excused /\ \A c \in Callers : Bound(c) => ~call[c].overtaken

\* The calls that stop what is subscribed, or have stopped it and have not finished.
Undoing(c) ==
    \/ call[c].pc \in {"delete", "remove", "renew", "write"}
    \/ At(c, "commit") /\ WillDeactivate(call[c])

\* A row is that of the trigger that is on.
Fits == \A n \in Listed : active /\ HasPush(definition) /\ n = NodeOf[definition]
\* A live subscription is in a row, or is held by a call that will write it.
Owned ==
    \A i \in Ids : subs[i].live =>
        (\E n \in Nodes : rows[n] = i) \/ (\E c \in Callers : call[c].id = i)
\* What lives behind a row is of the trigger's kind, and one that a renewal passes by is one that
\* it is about to stop.
Matches ==
    \A n \in Listed : subs[rows[n]].live =>
        /\ subs[rows[n]].kind = KindOf[definition]
        /\ subs[rows[n]].age = "passed" => \E d \in Renewers : At(d, "stop")
\* A workflow that is on is heard, unless somebody is stopping it or renewing it.
Hears == active /\ HasPush(definition) => Heard \/ \E c \in Callers : Undoing(c)
\* Who has stopped it and knows the workflow has left nothing live behind a row, but for what
\* another has subscribed since.
Taken(i) == \E d \in Callers : call[d].id = i
Silenced(c) ==
    ~call[c].overtaken =>
        /\ Undoing(c) => \A n \in Listed : subs[rows[n]].live => Taken(rows[n])
        /\ At(c, "remove") => Listed = {}
\* Who is robbed is so by a call that will overtake it if it is not overtaken first.
Robbed(c) == call[c].robbed => \E d \in Callers \ {c} : Undoing(d) /\ Bound(d)
Good == Fits /\ Owned /\ Matches /\ Hears /\ \A c \in Callers : Silenced(c) /\ Robbed(c)

\* registry.getByProvider finds the trigger itself again by its provider.
OwnTriggers == \A d \in Definitions : HasPush(d) => ByProvider(KindOf[d]) = KindOf[d]

\* The inductive invariant of the reconciliation.
Reconciling == Calm => Good

\* What a step of one call means for what the others are about to do.
LEMMA OthersUndo ==
    ASSUME Inv, Known, NEW d \in Callers, Told(d)
    PROVE  /\ Undoing(d)' = Undoing(d) /\ At(d, "remove")' = At(d, "remove")
           /\ At(d, "stop")' = At(d, "stop")
           /\ Bound(d)' = Bound(d) /\ call'[d].id = call[d].id
           /\ Bound(d) => Deciding(d)
           /\ ~call'[d].overtaken => ~call[d].overtaken
           /\ ~call'[d].overtaken /\ (Undoing(d) \/ At(d, "remove")) => ~Changed
  <1>1. Shaped(call[d]) /\ call[d].overtaken \in BOOLEAN
    BY RowTypes DEF Known, Knows
  <1>2. Undoing(d)' = Undoing(d) /\ At(d, "remove")' = At(d, "remove") /\ Bound(d)' = Bound(d)
        /\ At(d, "stop")' = At(d, "stop")
    BY DEF Told, Undoing, Bound, At, WillDeactivate
  <1>3. Undoing(d) \/ At(d, "remove") => Deciding(d)
    BY <1>1 DEF Undoing, At, Deciding, Shaped, WillDeactivate, Keep
  <1>4. Bound(d) => Deciding(d)
    BY <1>1 DEF Bound, At, Deciding, Shaped, WillDeactivate, WillActivate, Keep
  <1> QED BY <1>1, <1>2, <1>3, <1>4 DEF Told

\* A step of a call under which all stays calm.
LEMMA CalmBefore ==
    ASSUME Inv, Known, Calm', NEW c \in Callers, \A d \in Callers \ {c} : Told(d),
           faults' = faults, excused => excused',
           Bound(c) /\ call[c].overtaken => excused' \/ (Bound(c)' /\ call'[c].overtaken)
    PROVE  Calm
  <1>1. \A d \in Callers \ {c} : Bound(d) => ~call[d].overtaken
    BY OthersUndo DEF Calm
  <1>2. Bound(c) => ~call[c].overtaken
    BY DEF Calm
  <1> QED BY <1>1, <1>2 DEF Calm

\* A step that has overtaken all the others who decide by what they read.
Warned(c) == \A d \in Callers \ {c} : Deciding(d) => call'[d].overtaken

\* A step that changes what they read does.
LEMMA Warns ==
    ASSUME Inv, NEW c \in Callers, \A d \in Callers \ {c} : Told(d), Changed
    PROVE  Warned(c)
  BY RowTypes DEF Told, Warned

\* Who writes calmly has not been robbed: the robber would have been overtaken.
LEMMA NotRobbed ==
    ASSUME Inv, Known, Calm', NEW c \in Callers, \A d \in Callers \ {c} : Told(d), Warned(c), Robbed(c)
    PROVE  ~call[c].robbed
  <1> SUFFICES ASSUME NEW d \in Callers \ {c}, Bound(d) PROVE FALSE
    BY DEF Robbed
  <1>1. Bound(d)' /\ call'[d].overtaken
    BY OthersUndo DEF Warned
  <1> QED BY <1>1 DEF Calm

\* A robber is about to overtake as long as it is under way, and does so when it ends.
LEMMA RobbedAfter ==
    ASSUME Inv, Known, Known', Calm', NEW c \in Callers, \A d \in Callers \ {c} : Kept(d),
           \A d \in Callers : Robbed(d),
           Undoing(c) /\ Bound(c) => (Undoing(c)' /\ Bound(c)') \/ Warned(c),
           call'[c].id # None => call'[c].robbed = call[c].robbed
    PROVE  \A d \in Callers : Robbed(d)'
  <1>0. \A d \in Callers \ {c} : Told(d) /\ call'[d].robbed = call[d].robbed
    BY DEF Kept
  <1> SUFFICES ASSUME NEW d \in Callers, call'[d].robbed
               PROVE  \E e \in Callers \ {d} : Undoing(e)' /\ Bound(e)'
    BY DEF Robbed
  <1>1. call'[d].id # None
    <2>1. Shaped(call'[d])
      BY DEF Known, Knows
    <2> QED BY <2>1 DEF Shaped
  <1>2. call[d].robbed
    BY <1>0, <1>1
  <1>3. PICK e \in Callers \ {d} : Undoing(e) /\ Bound(e)
    BY <1>2 DEF Robbed
  <1>4. CASE e # c
    BY <1>0, <1>3, <1>4, OthersUndo
  <1>5. CASE e = c
    <2>1. ASSUME Warned(c) PROVE FALSE
      <3>1. Shaped(call[d])
        BY DEF Known, Knows
      <3>2. call[d].id # None
        BY <1>2, <3>1 DEF Shaped
      <3>3. Bound(d)
        BY <3>1, <3>2 DEF Bound, Shaped
      <3>4. Bound(d)' /\ call'[d].overtaken
        BY <1>0, <1>3, <1>5, <2>1, <3>3, OthersUndo DEF Warned
      <3> QED BY <3>4 DEF Calm
    <2> QED BY <1>3, <1>5, <2>1
  <1> QED BY <1>4, <1>5

\* A step that only moves the call on.
LEMMA GoodMove ==
    ASSUME Inv, Known, Known', Calm', Good, NEW c \in Callers, \A d \in Callers \ {c} : Kept(d),
           UNCHANGED <<active, definition, rows, subs>>,
           call[c].id \in {None, call'[c].id}, ~At(c, "stop"),
           Undoing(c) => Undoing(c)' \/ ~(active /\ HasPush(definition)),
           Undoing(c) /\ Bound(c) => (Undoing(c)' /\ Bound(c)') \/ Warned(c),
           Undoing(c)' /\ ~call'[c].overtaken =>
               \A n \in Listed : subs[rows[n]].live => Taken(rows[n]),
           At(c, "remove")' /\ ~call'[c].overtaken => Listed = {},
           call'[c].id # None => call'[c].robbed = call[c].robbed
    PROVE  Good'
  <1>0. \A d \in Callers \ {c} : Told(d)
    BY DEF Kept
  <1>1. Listed' = Listed /\ Fits' /\ Heard' = Heard
    BY DEF Good, Fits, Listed, Heard, HasPush
  <1>2. \A i \in Ids : Taken(i) => Taken(i)'
    <2> SUFFICES ASSUME NEW i \in Ids, NEW d \in Callers, call[d].id = i PROVE call'[d].id = i
      BY DEF Taken
    <2> QED BY <1>0, Bounds, OthersUndo
  <1>3. Owned'
    BY <1>2 DEF Good, Owned, Taken
  <1>4. Matches'
    <2>1. \A d \in Renewers : At(d, "stop") => At(d, "stop")'
      BY <1>0, OthersUndo, RowTypes
    <2> QED BY <1>1, <2>1 DEF Good, Matches
  <1>5. Hears'
    BY <1>0, <1>1, OthersUndo DEF Good, Hears, HasPush
  <1>6. ASSUME NEW d \in Callers PROVE Silenced(d)'
    <2>1. \A n \in Listed : rows[n] \in Ids
      BY RowTypes DEF Listed
    <2>2. ~call'[d].overtaken /\ Undoing(d)' => \A n \in Listed : subs[rows[n]].live => Taken(rows[n])
      BY <1>0, OthersUndo DEF Good, Silenced
    <2>3. ~call'[d].overtaken /\ At(d, "remove")' => Listed = {}
      BY <1>0, OthersUndo DEF Good, Silenced
    <2> QED BY <1>1, <1>2, <2>1, <2>2, <2>3 DEF Silenced
  <1>7. \A d \in Callers : Robbed(d)'
    BY RobbedAfter DEF Good
  <1> QED BY <1>1, <1>3, <1>4, <1>5, <1>6, <1>7 DEF Good

\* A step after which no row is left.
LEMMA GoodEmptied ==
    ASSUME Inv, Known, Known', Calm', Good, NEW c \in Callers, \A d \in Callers \ {c} : Kept(d),
           UNCHANGED subs, call[c].id = None, Listed' = {},
           active' /\ HasPush(definition') => Undoing(c)',
           Undoing(c) /\ Bound(c) => (Undoing(c)' /\ Bound(c)') \/ Warned(c),
           \A n \in Listed : subs[rows[n]].live => Taken(rows[n]),
           call'[c].id # None => call'[c].robbed = call[c].robbed
    PROVE  Good'
  <1>0. \A d \in Callers \ {c} : Told(d)
    BY DEF Kept
  <1>1. Fits' /\ Matches' /\ \A d \in Callers : Silenced(d)'
    BY DEF Fits, Matches, Silenced
  <1>2. Hears'
    BY DEF Hears, HasPush
  <1>3. Owned'
    <2> SUFFICES ASSUME NEW i \in Ids, subs[i].live PROVE \E d \in Callers : call'[d].id = i
      BY DEF Owned
    <2>1. i # None
      BY Bounds
    <2>2. PICK d \in Callers : call[d].id = i
      <3>1. CASE \E n \in Nodes : rows[n] = i
        BY <2>1, <3>1 DEF Listed, Taken
      <3> QED BY <3>1 DEF Good, Owned
    <2> QED BY <1>0, <2>1, <2>2, OthersUndo
  <1>4. \A d \in Callers : Robbed(d)'
    BY RobbedAfter DEF Good
  <1> QED BY <1>1, <1>2, <1>3, <1>4 DEF Good

\* A step that subscribes, when the workflow is off or to replace what it is heard by.
LEMMA GoodSubscribed ==
    ASSUME Inv, Known, Known', Calm', Good, NEW c \in Callers, \A d \in Callers \ {c} : Kept(d),
           UNCHANGED <<active, definition, rows>>, NEW kind, NEW id \in NewIds(kind),
           subs' = Subscribed(id, kind), call[c].id = None, call'[c].id = id,
           ~At(c, "remove")', ~At(c, "stop"), call'[c].robbed = call[c].robbed,
           Undoing(c) /\ Bound(c) => Undoing(c)' /\ Bound(c)',
           \/ ~active
           \/ /\ Undoing(c) /\ Undoing(c)' /\ (~call'[c].overtaken => ~call[c].overtaken)
              /\ kind = KindOf[definition]
    PROVE  Good'
  <1>0. \A d \in Callers \ {c} : Told(d)
    BY DEF Kept
  <1>1. /\ id # None /\ subs'[id] = Fresh(kind) /\ \A i \in Ids : i # id => subs'[i] = subs[i]
    BY NewSub
  <1>2. Listed' = Listed /\ \A n \in Listed : rows'[n] = rows[n] /\ rows[n] \in Ids
    BY RowTypes DEF Listed
  <1>3. ~active => Listed = {}
    BY DEF Good, Fits
  <1>4. Fits'
    BY <1>2 DEF Good, Fits, HasPush
  <1>5. Matches'
    <2>1. \A d \in Renewers : At(d, "stop") => At(d, "stop")'
      BY <1>0, OthersUndo, RowTypes
    <2>2. ASSUME NEW n \in Listed, subs'[rows[n]].live
          PROVE  /\ subs'[rows[n]].kind = KindOf[definition]
                 /\ subs'[rows[n]].age = "passed" => \E d \in Renewers : At(d, "stop")
      <3>1. CASE rows[n] = id
        BY <1>1, <1>3, <3>1 DEF Fresh
      <3>2. CASE rows[n] # id
        BY <1>1, <1>2, <2>2, <3>2 DEF Good, Matches
      <3> QED BY <3>1, <3>2
    <2> QED BY <1>2, <2>1, <2>2 DEF Matches
  <1>6. \A i \in Ids : Taken(i) \/ i = id => Taken(i)'
    <2>1. Taken(id)'
      BY DEF Taken
    <2>2. ASSUME NEW i \in Ids, NEW d \in Callers, call[d].id = i PROVE Taken(i)'
      <3>1. d # c
        BY <2>2, Bounds
      <3> QED BY <1>0, <2>2, <3>1, OthersUndo DEF Taken
    <2> QED BY <2>1, <2>2 DEF Taken
  <1>7. Owned'
    BY <1>1, <1>6 DEF Good, Owned, Taken
  <1>8. Hears'
    <2>1. ASSUME active, HasPush(definition) PROVE Undoing(c)'
      BY <2>1
    <2> QED BY <2>1 DEF Hears, HasPush
  <1>9. ASSUME NEW d \in Callers PROVE Silenced(d)'
    <2>1. CASE ~active
      BY <1>2, <1>3, <2>1 DEF Silenced
    <2>2. CASE active
      <3>1. Undoing(d)' /\ ~call'[d].overtaken => Undoing(d) /\ ~call[d].overtaken
        BY <1>0, <2>2, OthersUndo
      <3>2. At(d, "remove")' /\ ~call'[d].overtaken => At(d, "remove") /\ ~call[d].overtaken
        BY <1>0, OthersUndo
      <3>3. ASSUME Undoing(d)', ~call'[d].overtaken, NEW n \in Listed, subs'[rows[n]].live
            PROVE  Taken(rows[n])'
        BY <1>1, <1>2, <1>6, <3>1, <3>3 DEF Good, Silenced
      <3> QED BY <1>2, <3>2, <3>3 DEF Good, Silenced
    <2> QED BY <2>1, <2>2
  <1>10. \A d \in Callers : Robbed(d)'
    BY RobbedAfter DEF Good
  <1> QED BY <1>4, <1>5, <1>7, <1>8, <1>9, <1>10 DEF Good

\* A write of a new subscription into the one row there may be.
LEMMA GoodWritten ==
    ASSUME Inv, Known, Known', Calm', Good, NEW c \in Callers, \A d \in Callers \ {c} : Kept(d),
           UNCHANGED subs, call'[c] = Idle, Warned(c), active', HasPush(definition'),
           NodeOf[definition'] \in Nodes, call[c].id # None,
           rows'[NodeOf[definition']] = call[c].id,
           \A n \in Nodes : n # NodeOf[definition'] => rows'[n] = None,
           subs[call[c].id] = Fresh(KindOf[definition']),
           \A n \in Listed : subs[rows[n]].live => Taken(rows[n])
    PROVE  Good'
  <1> DEFINE s == NodeOf[definition']
             i == call[c].id
  <1>0. \A d \in Callers \ {c} : Told(d)
    BY DEF Kept
  <1>1. Listed' = {s}
    BY DEF Listed
  <1>2. Idle.pc = "idle" /\ Idle.id = None
    BY DEF Idle
  <1>3. subs[i].live /\ subs[i].kind = KindOf[definition'] /\ subs[i].age = "new"
    BY DEF Fresh
  <1>4. Fits' /\ Matches'
    BY <1>1, <1>3 DEF Fits, Matches, HasPush
  <1>5. Hears'
    BY <1>3 DEF Hears, Heard, HasPush
  <1>6. Owned'
    <2> SUFFICES ASSUME NEW j \in Ids, subs[j].live, j # i PROVE \E d \in Callers : call'[d].id = j
      BY DEF Owned
    <2>1. j # None
      BY Bounds
    <2>2. PICK d \in Callers : call[d].id = j
      <3>1. CASE \E n \in Nodes : rows[n] = j
        BY <2>1, <3>1 DEF Listed, Taken
      <3> QED BY <3>1 DEF Good, Owned
    <2> QED BY <1>0, <2>2, OthersUndo
  <1>7. ASSUME NEW d \in Callers PROVE Silenced(d)'
    <2>1. CASE d = c
      BY <1>2, <2>1 DEF Silenced, Undoing, At
    <2>2. CASE d # c
      <3>1. Undoing(d)' \/ At(d, "remove")' => Undoing(d)
        BY <1>0, <2>2, OthersUndo DEF Undoing, At
      <3>2. Shaped(call[d])
        BY DEF Known, Knows
      <3>3. Undoing(d) => Deciding(d)
        BY <3>2 DEF Undoing, At, Deciding, Shaped, WillDeactivate, Keep
      <3> QED BY <2>2, <3>1, <3>3 DEF Silenced, Warned
    <2> QED BY <2>1, <2>2
  <1>8. \A d \in Callers : Robbed(d)'
    BY <1>2, RobbedAfter DEF Good
  <1> QED BY <1>4, <1>5, <1>6, <1>7, <1>8 DEF Good

\* Where a call is that ends.
LEMMA Ended ==
    ASSUME NEW c \in Callers, call'[c] = Idle
    PROVE  /\ ~Undoing(c)' /\ ~At(c, "remove")' /\ call'[c].id = None
  <1>1. Idle.pc = "idle" /\ Idle.id = None
    BY DEF Idle
  <1> QED BY <1>1 DEF Undoing, At

\* A call that ends without having decided anything.
LEMMA GoodEnd ==
    ASSUME Inv, Known, Known', Calm', Good, NEW c \in Callers, call' = [call EXCEPT ![c] = Idle],
           UNCHANGED <<exists, active, definition, rows, subs>>,
           call[c].id = None, ~At(c, "stop"), ~Undoing(c) \/ (~Bound(c) /\ ~active)
    PROVE  Good'
  <1>1. ~Changed
    BY DEF Changed
  <1>2. call'[c] = Idle /\ \A d \in Callers \ {c} : Kept(d)
    BY <1>1, CallsAfter DEF Inv
  <1> QED BY <1>2, Ended, GoodMove

\* An update that has only read; if it has nothing to stop, there was no row.
LEMMA GoodUpdate ==
    ASSUME Inv, Known, Known', Reconciling, Calm', NEW c \in Users, NEW save \in Definitions \union {Keep},
           NEW toggle \in Toggles, Update(c, save, toggle)
    PROVE  Good'
  <1> DEFINE read == [Idle EXCEPT !.save = save, !.toggle = toggle]
             k == IF toggle = Keep THEN read ELSE [read EXCEPT !.was = active, !.had = definition]
             p == FirstPoint(k)
             next == [k EXCEPT !.pc = p]
  <1>0. c \in Callers
    BY RowTypes
  <1>1. /\ k \in Call /\ k.op = "update" /\ k.found = {} /\ k.id = None /\ ~k.overtaken /\ k.target = None /\ ~k.robbed
        /\ k.save = save /\ k.toggle = toggle
        /\ toggle # Keep => k.was = active /\ k.had = definition
    <2>1. active \in BOOLEAN /\ definition \in Definitions
      BY RowTypes
    <2>2. k \in Call
      BY <2>1, Empties DEF Call
    <2>3. k.op = "update" /\ k.found = {} /\ k.id = None /\ ~k.overtaken /\ k.target = None /\ ~k.robbed
      BY DEF Idle
    <2>4. k.save = save /\ k.toggle = toggle /\ (toggle # Keep => k.was = active /\ k.had = definition)
      BY DEF Idle
    <2> QED BY <2>2, <2>3, <2>4
  <1>2. /\ save # Keep \/ toggle # Keep
        /\ call' = [call EXCEPT ![c] = next] /\ call[c].pc = "idle"
        /\ UNCHANGED <<exists, active, definition, rows, subs, faults, excused>>
    BY DEF Update, workflow, excuses, At
  <1> HIDE DEF k
  <1>3. /\ next.pc = p /\ next.id = None
        /\ next.toggle = toggle /\ next.was = k.was /\ next.had = k.had
        /\ p \notin {"delete", "remove", "renew", "write"}
        /\ p = "commit" => ~(WillDeactivate(next) /\ HasPush(next.had))
    <2>1. p \in {"prior", "find", "subscribe", "commit", "plain"}
      BY DEF FirstPoint, AfterVersion, AfterStop
    <2>2. /\ next.pc = p /\ next.toggle = toggle /\ next.was = k.was /\ next.had = k.had
          /\ next.id = None /\ (p = "commit" => ~(WillDeactivate(next) /\ HasPush(next.had)))
      BY <1>1, <1>2, GoesOn
    <2> QED BY <2>1, <2>2
  <1> HIDE DEF next, p
  <1>4. ~Changed
    BY <1>2 DEF Changed
  <1>5. call'[c] = next /\ \A d \in Callers \ {c} : Kept(d)
    BY <1>0, <1>2, <1>4, CallsAfter DEF Inv
  <1>6. call[c] = Idle /\ Idle.id = None /\ ~At(c, "stop")
    BY <1>0, <1>2 DEF Known, Knows, Shaped, Idle, At
  <1>7. ~Bound(c) /\ ~Undoing(c)
    BY <1>2 DEF Bound, Undoing, At
  <1>8. Good
    BY <1>0, <1>2, <1>5, <1>7, CalmBefore DEF Reconciling, Kept
  <1>9. ~At(c, "remove")'
    BY <1>3, <1>5 DEF At
  <1>10. ASSUME Undoing(c)' PROVE Listed = {}
    <2>1. WillDeactivate(next) /\ p = "commit"
      BY <1>3, <1>5, <1>10 DEF Undoing, At
    <2>2. toggle # Keep
      BY <1>3, <2>1 DEF WillDeactivate, Keep
    <2>3. ~HasPush(definition)
      BY <1>1, <1>3, <2>1, <2>2
    <2> QED BY <1>8, <2>3 DEF Good, Fits
  <1>11. call'[c].id = None /\ call[c].id = None
    BY <1>3, <1>5, <1>6
  <1> QED BY <1>0, <1>2, <1>5, <1>6, <1>7, <1>8, <1>9, <1>10, <1>11, GoodMove

\* Writing isActive when nothing is to be switched changes nothing, unless the call is stale.
LEMMA GoodPlain ==
    ASSUME Inv, Known, Known', Reconciling, Calm', NEW c \in Users, Plain(c) PROVE Good'
  <1> DEFINE k == call[c]
  <1>0. c \in Callers /\ UNCHANGED <<exists, definition, rows, subs, faults>>
        /\ active' = (exists /\ k.toggle = "on") /\ Writes(c, Idle) /\ k.pc = "plain"
    BY RowTypes DEF Plain, At
  <1>1. excused' = (excused \/ k.overtaken)
    BY <1>0 DEF Writes
  <1>2. ~k.overtaken /\ ~excused'
    BY <1>1, RowTypes DEF Calm
  <1>3. Shaped(k) /\ Informed(c) /\ k \in Call
    BY <1>0, RowTypes DEF Known, Knows
  <1>4. k.toggle # Keep /\ ~WillActivate(k) /\ ~WillDeactivate(k) /\ k.id = None
    BY <1>0, <1>3 DEF Shaped
  <1>5. exists /\ k.was = active
    BY <1>0, <1>2, <1>4, <1>3 DEF Informed, Deciding, At
  <1>6. active' = active
    BY <1>0, <1>3, <1>4, <1>5 DEF WillActivate, WillDeactivate, Call, Toggles
  <1>7. call'[c] = Idle /\ \A d \in Callers \ {c} : Kept(d)
    BY <1>0, CallsAfter DEF Inv
  <1>8. Good
    BY <1>0, <1>1, <1>2, <1>7, CalmBefore DEF Reconciling, Kept
  <1>9. ~Undoing(c) /\ ~At(c, "stop")
    BY <1>0 DEF Undoing, At
  <1> QED BY <1>0, <1>4, <1>6, <1>7, <1>8, <1>9, Ended, GoodMove

\* Reading the newest version.
LEMMA GoodReadPrior ==
    ASSUME Inv, Known, Known', Reconciling, Calm', NEW c \in Users, ReadPrior(c) PROVE Good'
  <1> DEFINE k == call[c]
             next == [k EXCEPT !.pc = "insert", !.prior = version]
  <1>0. c \in Callers /\ UNCHANGED <<exists, active, definition, rows, subs, faults, excused>>
        /\ k.pc = "prior" /\ k \in Call
    BY RowTypes DEF ReadPrior, workflow, excuses, At
  <1>1. k.id = None
    BY <1>0 DEF Known, Knows, Shaped
  <1>2. ~Changed /\ ~Bound(c) /\ ~Undoing(c) /\ ~At(c, "stop")
    BY <1>0 DEF Changed, Bound, Undoing, At
  <1>3. call' = [call EXCEPT ![c] = Idle] \/ call' = [call EXCEPT ![c] = next]
    BY DEF ReadPrior, Done
  <1>4. next.pc = "insert" /\ next.id = k.id /\ next.id = None
    BY <1>0, <1>1 DEF Call
  <1> HIDE DEF next
  <1>5. (call'[c] = Idle \/ call'[c] = next) /\ \A d \in Callers \ {c} : Kept(d)
    BY <1>0, <1>2, <1>3, CallsAfter DEF Inv
  <1>6. ~Undoing(c)' /\ ~At(c, "remove")'
    BY <1>0, <1>4, <1>5, Ended DEF Undoing, At
  <1>7. Good
    BY <1>0, <1>2, <1>5, CalmBefore DEF Reconciling, Kept
  <1>8. call'[c].id = None
    BY <1>0, <1>4, <1>5, Ended
  <1> QED BY <1>0, <1>1, <1>2, <1>5, <1>6, <1>7, <1>8, GoodMove

\* Inserting a version; a deactivation of a workflow without a push trigger has no row to find.
LEMMA GoodInsertVersion ==
    ASSUME Inv, Known, Known', Reconciling, Calm', NEW c \in Users, InsertVersion(c) PROVE Good'
  <1> DEFINE k == call[c]
             p == AfterVersion(k)
             next == [k EXCEPT !.pc = p]
  <1>0. c \in Callers /\ UNCHANGED <<exists, active, definition, rows, subs, faults, excused>>
        /\ k.pc = "insert" /\ k \in Call /\ Shaped(k) /\ Informed(c)
    BY RowTypes DEF InsertVersion, workflow, excuses, At, Known, Knows
  <1>1. k.id = None /\ k.found = {} /\ k.op = "update" /\ k.target = None /\ ~k.robbed /\ (k.toggle = Keep => ~k.overtaken)
    BY <1>0 DEF Shaped
  <1>2. ~Changed /\ ~Bound(c) /\ ~Undoing(c) /\ ~At(c, "stop")
    BY <1>0 DEF Changed, Bound, Undoing, At
  <1>3. call' = [call EXCEPT ![c] = Idle] \/ call' = [call EXCEPT ![c] = next]
    BY <1>0, RowTypes DEF InsertVersion, Done, Goto
  <1>4. /\ next.pc = p /\ next.id = None /\ next.toggle = k.toggle /\ next.had = k.had
        /\ next.overtaken = k.overtaken
        /\ p = "commit" => ~(WillDeactivate(next) /\ HasPush(next.had))
    BY <1>0, <1>1, GoesOn
  <1>5. p \in {"find", "subscribe", "commit"}
    BY <1>0, PointTypes
  <1> HIDE DEF next, p
  <1>6. (call'[c] = Idle \/ call'[c] = next) /\ \A d \in Callers \ {c} : Kept(d)
    BY <1>0, <1>2, <1>3, CallsAfter DEF Inv
  <1>7. Good
    BY <1>0, <1>2, <1>6, CalmBefore DEF Reconciling, Kept
  <1>8. ~At(c, "remove")'
    BY <1>0, <1>4, <1>5, <1>6, Ended DEF At
  <1>9. ASSUME Undoing(c)', ~call'[c].overtaken PROVE Listed = {}
    <2>1. call'[c] = next
      BY <1>0, <1>6, <1>9, Ended
    <2>2. WillDeactivate(next) /\ p = "commit"
      BY <1>4, <1>5, <1>9, <2>1 DEF Undoing, At
    <2>3. k.toggle # Keep /\ ~k.overtaken
      BY <1>4, <1>9, <2>1, <2>2 DEF WillDeactivate, Keep
    <2>4. ~HasPush(definition)
      BY <1>0, <1>1, <1>4, <2>2, <2>3 DEF Informed, Deciding, At
    <2> QED BY <1>7, <2>4 DEF Good, Fits
  <1>10. call'[c].id = None
    BY <1>0, <1>4, <1>6, Ended
  <1> QED BY <1>0, <1>1, <1>2, <1>6, <1>7, <1>8, <1>9, <1>10, GoodMove

\* An activation subscribes only while the workflow is off, so no row hides the new one.
LEMMA GoodSubscribe ==
    ASSUME Inv, Known, Known', Reconciling, Calm', NEW c \in Users, Subscribe(c) PROVE Good'
  <1> DEFINE k == call[c]
             kind == KindOf[NewDefinition(k)]
  <1> PICK id \in NewIds(kind) :
             /\ subs' = Subscribed(id, kind)
             /\ call' = [call EXCEPT ![c] = [call[c] EXCEPT !.pc = "upsert", !.id = id]]
    BY DEF Subscribe
  <1> DEFINE next == [k EXCEPT !.pc = "upsert", !.id = id]
  <1>0. c \in Callers /\ UNCHANGED <<exists, active, definition, rows, faults, excused>>
        /\ subs' = Subscribed(id, kind) /\ call' = [call EXCEPT ![c] = next]
    BY RowTypes DEF Subscribe, workflow, excuses
  <1>1. k \in Call /\ k.pc = "subscribe" /\ Shaped(k) /\ Informed(c)
    BY <1>0, RowTypes DEF Subscribe, At, Known, Knows
  <1>2. next.pc = "upsert" /\ next.id = id /\ next.overtaken = k.overtaken /\ next.robbed = k.robbed
    BY <1>1 DEF Call
  <1> HIDE DEF next
  <1>3. k.op = "update" /\ WillActivate(k) /\ k.toggle # Keep /\ k.id = None
    BY <1>1 DEF Shaped, WillActivate, Keep
  <1>4. ~Changed
    BY <1>0 DEF Changed
  <1>5. call'[c] = next /\ \A d \in Callers \ {c} : Kept(d)
    BY <1>0, <1>4, CallsAfter DEF Inv
  <1>6. id # None
    BY NewSub
  <1>7. Bound(c)' /\ ~At(c, "remove")' /\ ~At(c, "stop") /\ ~Undoing(c)
    BY <1>1, <1>2, <1>5 DEF Bound, Undoing, At
  <1>8. Good
    BY <1>0, <1>2, <1>5, <1>7, CalmBefore DEF Reconciling, Kept
  <1>9. ~call[c].overtaken
    BY <1>0, <1>2, <1>5, <1>7 DEF Calm
  <1>10. ~active
    BY <1>1, <1>3, <1>9, RowTypes DEF Informed, Deciding, At, WillActivate
  <1> HIDE DEF kind
  <1> QED BY <1>0, <1>2, <1>3, <1>5, <1>7, <1>8, <1>10, GoodSubscribed

\* The row's upsert, unless the workflow is gone.
LEMMA GoodUpsert ==
    ASSUME Inv, Known, Known', Reconciling, Calm', NEW c \in Users, Upsert(c) PROVE Good'
  <1> DEFINE k == call[c]
             next == [k EXCEPT !.pc = "commit"]
  <1>0. c \in Callers /\ UNCHANGED <<exists, active, definition, rows, subs, faults>>
        /\ excused' = (excused \/ ~exists)
    BY RowTypes DEF Upsert, workflow
  <1>1. exists /\ ~excused
    BY <1>0, RowTypes DEF Calm
  <1>2. call' = [call EXCEPT ![c] = next]
    BY <1>0, <1>1, RowTypes DEF Upsert, Goto
  <1>3. k \in Call /\ k.pc = "upsert" /\ Shaped(k)
    BY <1>0, RowTypes DEF Upsert, At, Known, Knows
  <1>4. /\ next.pc = "commit" /\ next.toggle = k.toggle /\ next.was = k.was
        /\ next.id = k.id /\ next.overtaken = k.overtaken /\ next.robbed = k.robbed
    BY <1>3 DEF Call
  <1> HIDE DEF next
  <1>5. WillActivate(k) /\ k.id # None
    BY <1>3 DEF Shaped
  <1>6. ~WillDeactivate(next)
    BY <1>4, <1>5 DEF WillActivate, WillDeactivate
  <1>7. ~Changed
    BY <1>0 DEF Changed
  <1>8. call'[c] = next /\ \A d \in Callers \ {c} : Kept(d)
    BY <1>0, <1>2, <1>7, CallsAfter DEF Inv
  <1>9. Bound(c)' /\ ~Undoing(c)' /\ ~At(c, "remove")' /\ ~Undoing(c) /\ ~At(c, "stop")
    BY <1>3, <1>4, <1>5, <1>6, <1>8 DEF Bound, Undoing, At
  <1>10. Good
    BY <1>0, <1>1, <1>4, <1>8, <1>9, CalmBefore DEF Reconciling, Kept
  <1> QED BY <1>0, <1>4, <1>8, <1>9, <1>10, GoodMove

\* The commit: an activation writes the only row, a deactivation has found and stopped them all,
\* and any other update leaves the trigger alone unless the workflow is off.
LEMMA GoodCommit ==
    ASSUME Inv, Known, Known', Reconciling, Calm', NEW c \in Users, Commit(c) PROVE Good'
  <1> DEFINE k == call[c]
  <1>0. c \in Callers /\ UNCHANGED <<exists, subs, faults>> /\ k.pc = "commit" /\ k \in Call
        /\ Shaped(k) /\ Informed(c) /\ Holding(c) /\ ~At(c, "stop")
    BY RowTypes DEF Commit, At, Known, Knows
  <1>1. CASE ~exists
    <2>1. /\ call' = [call EXCEPT ![c] = Idle]
          /\ UNCHANGED <<exists, active, definition, rows, subs, faults, excused>>
      BY <1>0, <1>1 DEF Commit, Done
    <2>2. k.found = {} /\ k.id = None
      BY <1>0, <1>1 DEF Holding, At
    <2>3. ~Bound(c)
      BY <1>0, <2>2 DEF Bound
    <2>4. ~Changed
      BY <2>1 DEF Changed
    <2>5. \A d \in Callers \ {c} : Kept(d)
      BY <1>0, <2>1, <2>4, CallsAfter DEF Inv
    <2>6. Good
      BY <1>0, <2>1, <2>3, <2>5, CalmBefore DEF Reconciling, Kept
    <2>7. ~active
      BY <1>1 DEF Known, Gone
    <2> QED BY <1>0, <2>1, <2>2, <2>3, <2>6, <2>7, GoodEnd
  <1>2. CASE exists
    <2>0. /\ active' = (IF k.toggle = Keep THEN active ELSE k.toggle = "on")
          /\ definition' = Saved(k) /\ rows' = RowsAfter(k)
          /\ excused' = (excused \/ (k.toggle # Keep /\ k.overtaken)
                          \/ (active' /\ ~WillActivate(k) /\ definition' # definition))
          /\ Overtaking(c, Idle, <<active, definition, rows>>' # <<active, definition, rows>>)
      <3>1. /\ active' = (IF k.toggle = Keep THEN active ELSE k.toggle = "on")
            /\ definition' = Saved(k) /\ rows' = RowsAfter(k)
        BY <1>2 DEF Commit
      <3>2. excused' = (excused \/ (k.toggle # Keep /\ k.overtaken)
                          \/ (active' /\ ~WillActivate(k) /\ definition' # definition))
        BY <1>2, Zenon DEF Commit
      <3>3. Overtaking(c, Idle, <<active, definition, rows>>' # <<active, definition, rows>>)
        BY <1>2 DEF Commit
      <3> QED BY <3>1, <3>2, <3>3
    <2>1. /\ ~(active' /\ ~WillActivate(k) /\ definition' # definition)
          /\ k.toggle # Keep => ~k.overtaken
          /\ excused => excused'
      <3>1. excused \in BOOLEAN /\ k.overtaken \in BOOLEAN /\ ~excused'
        BY <1>0, RowTypes DEF Calm, Inv, TypeOK
      <3> QED BY <2>0, <3>1
    <2>2. call'[c] = Idle /\ \A d \in Callers \ {c} : Kept(d)
      <3> DEFINE b == <<active, definition, rows>>' # <<active, definition, rows>>
      <3>1. b = Changed
        BY <1>0 DEF Changed
      <3>2. Overtaking(c, Idle, b)
        BY <2>0
      <3> HIDE DEF b
      <3> QED BY <1>0, <3>1, <3>2, CallsAfter DEF Inv
    <2>3. Good
      <3>1. Bound(c) => ~k.overtaken
        BY <1>0, <2>1 DEF Shaped
      <3> QED BY <1>0, <2>1, <2>2, <3>1, CalmBefore DEF Reconciling, Kept
    <2>4. k.toggle # Keep => k.was = active /\ k.had = definition
      BY <1>0, <2>1 DEF Informed, Deciding, At
    <2>5. ~active => Listed = {}
      BY <2>3 DEF Good, Fits
    <2>6. ~HasPush(definition) => Listed = {}
      BY <2>3 DEF Good, Fits
    <2>7. call'[c].id = None /\ ~Undoing(c)'
      BY <1>0, <2>2, Ended
    <2>8. Changed => Warned(c)
      BY <1>0, <2>2, Warns DEF Kept
    <2>9. CASE WillActivate(k)
      <3>1. k.toggle = "on" /\ k.toggle # Keep /\ ~active /\ ~WillDeactivate(k)
        BY <2>4, <2>9 DEF WillActivate, WillDeactivate, Keep
      <3>2. Listed = {} /\ active' /\ definition' = NewDefinition(k) /\ k.found = {}
        BY <1>0, <2>0, <2>4, <2>5, <3>1 DEF Shaped, Saved, NewDefinition
      <3>3. \A n \in Nodes : rows[n] = None
        BY <3>2 DEF Listed
      <3>4. ~Undoing(c)
        BY <1>0, <3>1 DEF Undoing, At
      <3>5. Warned(c)
        BY <2>8, <3>1, <3>2 DEF Changed
      <3>6. CASE HasPush(NewDefinition(k))
        <4>1. k.id # None /\ NodeOf[definition'] \in Nodes
          BY <1>0, <2>9, <3>2, <3>6, PointTypes, ActivationAssumption DEF Shaped, HasPush
        <4>2. /\ rows'[NodeOf[definition']] = k.id
              /\ \A n \in Nodes : n # NodeOf[definition'] => rows'[n] = None
          BY <2>0, <3>2, <3>3, <4>1 DEF RowsAfter
        <4>3. ~k.robbed
          BY <1>0, <2>2, <2>3, <3>5, NotRobbed DEF Good, Kept
        <4>4. subs[k.id] = Fresh(KindOf[definition'])
          <5>1. subs[k.id] = Fresh(KindHeld(k))
            BY <1>0, <4>1, <4>3 DEF Known, Knows, Held
          <5>2. KindHeld(k) = KindOf[definition']
            BY <1>0, <3>2 DEF Shaped, KindHeld
          <5> QED BY <5>1, <5>2
        <4>5. HasPush(definition')
          BY <3>2, <3>6 DEF HasPush
        <4> QED BY <1>0, <2>2, <2>3, <3>2, <3>5, <4>1, <4>2, <4>4, <4>5, GoodWritten
      <3>7. CASE ~HasPush(NewDefinition(k))
        <4>1. k.id = None
          BY <1>0, <3>7 DEF Shaped
        <4>2. Listed' = {}
          BY <2>0, <3>2, <3>3, <4>1 DEF RowsAfter, Listed
        <4>3. ~HasPush(definition')
          BY <3>2, <3>7 DEF HasPush
        <4> QED BY <1>0, <2>2, <2>3, <2>7, <3>2, <3>4, <4>1, <4>2, <4>3, GoodEmptied
      <3> QED BY <3>6, <3>7
    <2>10. CASE WillDeactivate(k)
      <3>1. k.toggle # Keep /\ ~active' /\ active /\ ~WillActivate(k)
        BY <2>0, <2>4, <2>10 DEF WillActivate, WillDeactivate, Keep
      <3>2. k.id = None
        BY <1>0, <3>1 DEF Shaped
      <3>3. HasPush(definition) => k.found = Listed
        BY <1>0, <2>1, <2>4, <2>10, <3>1 DEF Informed, Deciding, Deactivating, At
      <3>4. Listed' = {}
        BY <2>0, <2>6, <3>2, <3>3 DEF RowsAfter, Listed
      <3>5. Undoing(c)
        BY <1>0, <2>10 DEF Undoing, At
      <3>6. \A n \in Listed : subs[rows[n]].live => Taken(rows[n])
        BY <1>0, <2>1, <2>3, <3>1, <3>5 DEF Good, Silenced
      <3>7. Warned(c)
        BY <2>8, <3>1 DEF Changed
      <3> QED BY <1>0, <2>2, <2>3, <2>7, <3>1, <3>2, <3>4, <3>6, <3>7, GoodEmptied
    <2>11. CASE ~WillActivate(k) /\ ~WillDeactivate(k)
      <3>1. k.id = None /\ k.found = {} /\ ~Undoing(c)
        BY <1>0, <2>11 DEF Shaped, Undoing, At
      <3>2. rows' = rows
        BY <2>0, <3>1, RowTypes DEF RowsAfter
      <3>3. active' = active
        BY <1>0, <2>0, <2>4, <2>11 DEF WillActivate, WillDeactivate, Call, Toggles
      <3>4. CASE definition' = definition
        BY <1>0, <2>2, <2>3, <2>7, <3>1, <3>2, <3>3, <3>4, Ended, GoodMove
      <3>5. CASE definition' # definition
        <4>1. ~active
          BY <2>1, <2>11, <3>3, <3>5
        <4>2. Listed = {} /\ Listed' = {}
          BY <2>5, <3>2, <4>1 DEF Listed
        <4> QED BY <1>0, <2>2, <2>3, <2>7, <3>1, <3>3, <4>1, <4>2, GoodEmptied
      <3> QED BY <3>4, <3>5
    <2> QED BY <2>9, <2>10, <2>11
  <1> QED BY <1>1, <1>2

\* The rows are read; without one to stop there is none to delete.
LEMMA GoodFindRows ==
    ASSUME Inv, Known, Known', Reconciling, Calm', NEW c \in Users, FindRows(c) PROVE Good'
  <1> DEFINE k == call[c]
             t == Target(k.had)
             p == IF t = None THEN "delete" ELSE "stop"
             next == [k EXCEPT !.pc = p, !.found = Listed, !.target = t]
  <1>0. c \in Callers /\ UNCHANGED <<exists, active, definition, rows, subs, faults, excused>>
        /\ call' = [call EXCEPT ![c] = next]
    BY RowTypes DEF FindRows, workflow, excuses, Listed
  <1>1. k \in Call /\ k.pc = "find" /\ Shaped(k) /\ Informed(c)
    BY <1>0, RowTypes DEF FindRows, At, Known, Knows
  <1>2. next.pc = p /\ next.id = k.id /\ next.overtaken = k.overtaken
    BY <1>1 DEF Call
  <1> HIDE DEF next
  <1>3. k.id = None /\ (k.op = "update" => WillDeactivate(k)) /\ HasPush(k.had)
    BY <1>1 DEF Shaped
  <1>4. k.op = "update" => k.toggle # Keep
    BY <1>3 DEF WillDeactivate, Keep
  <1>5. ~Changed /\ ~Bound(c) /\ ~Undoing(c) /\ ~At(c, "stop")
    BY <1>0, <1>1 DEF Changed, Bound, Undoing, At
  <1>6. call'[c] = next /\ \A d \in Callers \ {c} : Kept(d)
    BY <1>0, <1>5, CallsAfter DEF Inv
  <1>7. Good
    BY <1>0, <1>5, <1>6, CalmBefore DEF Reconciling, Kept
  <1>8. ~At(c, "remove")'
    BY <1>2, <1>6 DEF At
  <1>9. ASSUME Undoing(c)', ~call'[c].overtaken PROVE Listed = {}
    <2>1. p = "delete" /\ ~k.overtaken
      BY <1>2, <1>6, <1>9 DEF Undoing, At
    <2>2. k.had = definition
      BY <1>1, <1>4, <2>1 DEF Informed, Deciding, At
    <2>3. rows[NodeOf[definition]] = None
      BY <1>3, <2>1, <2>2 DEF Target
    <2> QED BY <1>7, <2>3 DEF Good, Fits, Listed
  <1> QED BY <1>0, <1>2, <1>3, <1>5, <1>6, <1>7, <1>8, <1>9, GoodMove

\* The provider stops what the row has, for its trigger is the one the row was subscribed with;
\* who holds the mailbox's watch is robbed of it, and will be overtaken.
LEMMA GoodStopTarget ==
    ASSUME OwnTriggers, Inv, Known, Known', Reconciling, Calm', NEW c \in Callers,
           NEW obeyed \in BOOLEAN, StopTarget(c, obeyed)
    PROVE  Good'
  <1> DEFINE k == call[c]
             S == Stopped(k)
             p == IF k.op = "renew" THEN "renew" ELSE "delete"
             next == [k EXCEPT !.pc = p, !.target = None]
  <1>0. /\ UNCHANGED <<exists, active, definition, rows, excused>>
        /\ call'[c] = next /\ k \in Call /\ k.pc = "stop" /\ Shaped(k) /\ Informed(c)
    BY RowTypes DEF StopTarget, workflow, At, Known, Knows
  <1>1. subs' = Stop(S) /\ faults' = faults
    <2>1. faults \in Nat
      BY Bounds DEF Inv, TypeOK
    <2> QED BY <2>1 DEF StopTarget, Calm
  <1>2. /\ next.pc = p /\ next.id = k.id /\ next.overtaken = k.overtaken /\ next.found = k.found
    BY <1>0 DEF Call
  <1> HIDE DEF next
  <1>3. /\ k.id = None /\ (k.op = "update" => WillDeactivate(k)) /\ HasPush(k.had)
        /\ k.target # None /\ k.found # {} /\ k.had \in Definitions
    BY <1>0, RowTypes, PointTypes DEF Shaped
  <1>4. \A d \in Callers \ {c} : Told(d)
    BY StopTells
  <1>5. Undoing(c)' /\ Bound(c)' /\ ~At(c, "remove")' /\ ~Undoing(c)
    BY <1>0, <1>2, <1>3 DEF Undoing, Bound, At
  <1>6. Good
    BY <1>0, <1>1, <1>2, <1>4, <1>5, CalmBefore DEF Reconciling
  <1>7. ~k.overtaken
    BY <1>0, <1>2, <1>5 DEF Calm
  <1>8. Deciding(c)
    BY <1>0, <1>3 DEF Deciding, At, WillDeactivate, Keep
  <1> DEFINE n == NodeOf[definition]
             i == rows[n]
  <1>9. k.had = definition /\ k.target = i /\ n \in Nodes /\ i \in Ids /\ i # None
    <2>1. k.had = definition /\ k.target = i
      BY <1>0, <1>7, <1>8 DEF Informed, At
    <2>2. n \in Nodes
      BY <1>3, <2>1, ActivationAssumption DEF HasPush
    <2> QED BY <1>3, <2>1, <2>2, RowTypes
  <1>10. Listed = {n} /\ active
    BY <1>6, <1>9 DEF Good, Fits, Listed
  <1>11. \A j \in Ids : subs'[j].live => j \notin S /\ subs'[j] = subs[j]
    <2> HIDE DEF S
    <2> QED BY <1>1 DEF Stop, Unsubscribed
  <1>12. ~subs'[i].live
    <2> SUFFICES ASSUME subs'[i].live PROVE FALSE
      OBVIOUS
    <2>1. i \notin S /\ subs[i].live
      BY <1>9, <1>11
    <2>2. subs[i].kind = KindOf[definition] /\ ByProvider(KindOf[definition]) = KindOf[definition]
      BY <1>3, <1>6, <1>9, <1>10, <2>1 DEF Good, Matches, OwnTriggers
    <2>3. KindOf[definition] = "gmail" => i = Mailbox
      BY <1>9, <2>1, <2>2 DEF Known, Watched
    <2>4. i \in S
      BY <1>9, <2>2, <2>3 DEF Stopped, Stops
    <2> QED BY <2>1, <2>4
  <1> HIDE DEF S, n, i
  <1>13. Listed' = Listed /\ rows' = rows /\ \A m \in Listed : ~subs'[rows[m]].live
    BY <1>0, <1>10, <1>12 DEF Listed, i
  <1>14. Fits' /\ Matches' /\ Hears'
    BY <1>0, <1>5, <1>6, <1>13 DEF Good, Fits, Matches, Hears, HasPush
  <1>15. Owned'
    <2> SUFFICES ASSUME NEW j \in Ids, subs'[j].live, \A m \in Nodes : rows[m] # j
                 PROVE  \E d \in Callers : call'[d].id = j
      BY <1>0 DEF Owned
    <2>1. subs[j].live /\ j # None
      BY <1>11, Bounds
    <2>2. PICK d \in Callers : call[d].id = j
      BY <1>6, <2>1 DEF Good, Owned
    <2> QED BY <1>3, <1>4, <2>1, <2>2, OthersUndo
  <1>16. ASSUME NEW d \in Callers PROVE Silenced(d)'
    <2>1. At(d, "remove")' /\ ~call'[d].overtaken => Listed = {}
      BY <1>4, <1>5, <1>6, OthersUndo DEF Good, Silenced
    <2> QED BY <1>13, <2>1 DEF Silenced
  <1>17. ASSUME NEW d \in Callers PROVE Robbed(d)'
    <2>1. CASE d # c
      BY <1>5, <2>1 DEF Robbed
    <2>2. CASE d = c
      <3>1. Shaped(call'[c])
        BY DEF Known, Knows
      <3> QED BY <1>0, <1>2, <1>3, <2>2, <3>1 DEF Shaped, Robbed
    <2> QED BY <2>1, <2>2
  <1> QED BY <1>14, <1>15, <1>16, <1>17 DEF Good

\* The rows deleted are all there are, and nothing lives behind them.
LEMMA GoodDeleteRows ==
    ASSUME Inv, Known, Known', Reconciling, Calm', NEW c \in Users, DeleteRows(c) PROVE Good'
  <1> DEFINE k == call[c]
  <1>0. c \in Callers /\ UNCHANGED <<exists, active, definition, subs, faults>>
    BY RowTypes DEF DeleteRows, workflow
  <1>1. k \in Call /\ k.pc = "delete" /\ Shaped(k) /\ Informed(c) /\ Undoing(c) /\ ~At(c, "stop")
    BY <1>0, RowTypes DEF DeleteRows, At, Known, Knows, Undoing
  <1>2. k.id = None /\ k.op # "renew" /\ (k.op = "update" => WillDeactivate(k)) /\ HasPush(k.had)
    BY <1>1 DEF Shaped
  <1>3. ~k.overtaken => k.found = Listed
    BY <1>1, <1>2 DEF Informed, Deciding, Deactivating, At, WillDeactivate, Keep
  <1>4. ASSUME NEW j, Writes(c, j) PROVE ~k.overtaken /\ excused' = excused
    <2>1. excused' = (excused \/ k.overtaken)
      BY <1>4 DEF Writes
    <2>2. ~excused' /\ excused \in BOOLEAN /\ k.overtaken \in BOOLEAN
      BY <1>0, RowTypes DEF Calm, Inv, TypeOK
    <2> QED BY <2>1, <2>2
  <1>5. CASE (\E n \in k.found : rows[n] = None) /\ Writes(c, Idle)
    BY <1>3, <1>4, <1>5 DEF Listed
  <1>6. CASE k.op = "update" /\ Goto(c, "commit") /\ rows' = rows /\ excused' = excused
    <2> DEFINE next == [k EXCEPT !.pc = "commit"]
    <2>1. call' = [call EXCEPT ![c] = next]
      BY <1>0, <1>6, RowTypes DEF Goto
    <2>2. /\ next.pc = "commit" /\ next.toggle = k.toggle /\ next.was = k.was
          /\ next.id = k.id /\ next.found = k.found /\ next.overtaken = k.overtaken
          /\ next.robbed = k.robbed
      BY <1>1 DEF Call
    <2> HIDE DEF next
    <2>3. ~Changed
      BY <1>0, <1>6 DEF Changed
    <2>4. call'[c] = next /\ \A d \in Callers \ {c} : Kept(d)
      BY <1>0, <2>1, <2>3, CallsAfter DEF Inv
    <2>5. Undoing(c)' /\ ~At(c, "remove")' /\ (Bound(c) => Bound(c)')
      BY <1>1, <1>2, <1>6, <2>2, <2>4 DEF Undoing, At, Bound, WillDeactivate
    <2>6. Good
      BY <1>0, <1>6, <2>2, <2>4, <2>5, CalmBefore DEF Reconciling, Kept
    <2>7. ~call'[c].overtaken => \A n \in Listed : subs[rows[n]].live => Taken(rows[n])
      BY <1>0, <1>1, <2>2, <2>4, <2>6 DEF Good, Silenced
    <2>8. call'[c].id = call[c].id /\ call'[c].robbed = call[c].robbed
      BY <2>2, <2>4
    <2>9. Bound(c) => Bound(c)'
      BY <2>5
    <2> QED BY <1>0, <1>1, <1>2, <1>6, <2>4, <2>5, <2>6, <2>7, <2>8, <2>9, GoodMove
  <1>7. CASE /\ Writes(c, [k EXCEPT !.pc = "remove", !.found = Idle.found])
             /\ rows' = [n \in Nodes |-> IF n \in k.found THEN None ELSE rows[n]]
    <2> DEFINE next == [k EXCEPT !.pc = "remove", !.found = Idle.found]
    <2>1. call'[c] = next /\ \A d \in Callers \ {c} : Kept(d)
      BY <1>0, <1>7, CallsAfter DEF Inv
    <2>2. next.pc = "remove" /\ next.id = k.id
      BY <1>1 DEF Call
    <2> HIDE DEF next
    <2>3. ~k.overtaken /\ excused' = excused
      BY <1>4, <1>7
    <2>4. Good
      BY <1>0, <2>1, <2>3, CalmBefore DEF Reconciling, Kept
    <2>5. Undoing(c)' /\ Bound(c)'
      BY <2>1, <2>2 DEF Undoing, Bound
    <2>6. Listed' = {}
      BY <1>3, <1>7, <2>3 DEF Listed
    <2>7. \A n \in Listed : subs[rows[n]].live => Taken(rows[n])
      BY <1>0, <1>1, <2>3, <2>4 DEF Good, Silenced
    <2>8. call'[c].id = None
      BY <1>2, <2>1, <2>2
    <2> QED BY <1>0, <1>2, <2>1, <2>4, <2>5, <2>6, <2>7, <2>8, GoodEmptied
  <1> QED BY <1>5, <1>6, <1>7 DEF DeleteRows

\* A removal that has only read; if it has nothing to stop, there is no row.
LEMMA GoodRemove ==
    ASSUME Inv, Known, Known', Reconciling, Calm', NEW c \in Users, Remove(c) PROVE Good'
  <1> DEFINE p == IF active /\ HasPush(definition) THEN "find" ELSE "remove"
             k == [Idle EXCEPT !.op = "remove", !.was = active, !.had = definition]
             next == [k EXCEPT !.pc = p]
  <1>0. c \in Callers
        /\ UNCHANGED <<exists, active, definition, rows, subs, faults, excused>>
        /\ call' = [call EXCEPT ![c] = next] /\ call[c].pc = "idle"
    BY RowTypes DEF Remove, workflow, excuses, At
  <1>1. next.pc = p /\ next.id = None
    BY DEF Idle
  <1> HIDE DEF next
  <1>2. p \in {"find", "remove"} /\ (p = "remove" => ~active \/ ~HasPush(definition))
    OBVIOUS
  <1> HIDE DEF p
  <1>3. ~Changed /\ ~Bound(c) /\ ~Undoing(c) /\ ~At(c, "stop")
    BY <1>0 DEF Changed, Bound, Undoing, At
  <1>4. call'[c] = next /\ \A d \in Callers \ {c} : Kept(d)
    BY <1>0, <1>3, CallsAfter DEF Inv
  <1>5. Good
    BY <1>0, <1>3, <1>4, CalmBefore DEF Reconciling, Kept
  <1>6. call[c].id = None
    BY <1>0 DEF Known, Knows, Shaped, Idle
  <1>7. Undoing(c)' \/ At(c, "remove")' => Listed = {}
    BY <1>1, <1>2, <1>4, <1>5 DEF Undoing, At, Good, Fits
  <1>8. call'[c].id = None
    BY <1>1, <1>4
  <1> QED BY <1>0, <1>3, <1>4, <1>5, <1>6, <1>7, <1>8, GoodMove

\* No row is left when the workflow goes, so none is taken along with its subscription.
LEMMA GoodDeleteWorkflow ==
    ASSUME Inv, Known, Known', Reconciling, Calm', NEW c \in Users, DeleteWorkflow(c) PROVE Good'
  <1> DEFINE k == call[c]
  <1>0. c \in Callers /\ UNCHANGED <<definition, subs, faults>> /\ k.pc = "remove" /\ exists' = FALSE
        /\ rows' = [n \in Nodes |-> None] /\ active' = FALSE /\ Writes(c, Idle) /\ Shaped(k) /\ Informed(c)
    BY RowTypes DEF DeleteWorkflow, At, Known, Knows
  <1>1. call'[c] = Idle /\ \A d \in Callers \ {c} : Kept(d)
    BY <1>0, CallsAfter DEF Inv
  <1>2. ~k.overtaken /\ excused' = excused
    <2>1. excused' = (excused \/ k.overtaken)
      BY <1>0 DEF Writes
    <2>2. ~excused' /\ excused \in BOOLEAN /\ k.overtaken \in BOOLEAN
      BY <1>0, RowTypes DEF Calm, Inv, TypeOK
    <2> QED BY <2>1, <2>2
  <1>3. Good
    BY <1>0, <1>1, <1>2, CalmBefore DEF Reconciling, Kept
  <1>4. k.id = None /\ k.op = "remove"
    BY <1>0 DEF Shaped
  <1>5. Listed = {} /\ Listed' = {}
    BY <1>0, <1>2, <1>3 DEF Good, Silenced, Listed, At
  <1>6. Warned(c)
    <2>1. exists
      BY <1>0, <1>2, <1>4 DEF Informed, Deciding, At
    <2>2. Changed
      BY <1>0, <2>1 DEF Changed
    <2> QED BY <1>0, <1>1, <2>2, Warns DEF Kept
  <1>7. call'[c].id = None
    BY <1>0, <1>1, Ended
  <1> QED BY <1>0, <1>1, <1>3, <1>4, <1>5, <1>6, <1>7, GoodEmptied

\* The renewal sets out to stop the one subscription there is.
LEMMA GoodStartRenewal ==
    ASSUME Inv, Known, Known', Reconciling, Calm', NEW c \in Renewers, NEW n \in Nodes,
           StartRenewal(c, n)
    PROVE  Good'
  <1> DEFINE i == rows[n]
             next == [Idle EXCEPT !.pc = "stop", !.op = "renew", !.was = TRUE, !.had = definition,
                                 !.found = {n}, !.target = i]
  <1>0. c \in Callers /\ UNCHANGED <<exists, active, definition, rows, faults, excused>>
        /\ i \in Ids /\ i # None /\ call[c].pc = "idle" /\ subs' = Passed(i)
    <2>1. c \in Callers /\ UNCHANGED <<exists, active, definition, rows, faults, excused>> /\ i \in Ids
      BY RowTypes DEF StartRenewal, workflow, excuses
    <2> QED BY <2>1 DEF StartRenewal, At
  <1>1. ~Bound(c) /\ ~Undoing(c) /\ ~Changed /\ call[c].id = None
    BY <1>0 DEF Bound, Undoing, At, Changed, Known, Knows, Shaped, Idle
  <1>2. call' = [call EXCEPT ![c] = next] \/ call' = [call EXCEPT ![c] = call[c]]
    BY <1>0, RowTypes DEF StartRenewal
  <1>3. next.pc = "stop" /\ next.id = None
    BY DEF Idle
  <1> HIDE DEF next
  <1>4. (call'[c] = next \/ call'[c] = call[c]) /\ \A d \in Callers \ {c} : Kept(d)
    BY <1>0, <1>1, <1>2, CallsAfter DEF Inv
  <1>5. \A d \in Callers \ {c} : Told(d)
    BY <1>4 DEF Kept
  <1>6. Good
    BY <1>0, <1>1, <1>5, CalmBefore DEF Reconciling
  <1>7. active /\ HasPush(definition) /\ n = NodeOf[definition] /\ Listed = {n}
    BY <1>0, <1>6 DEF Good, Fits, Listed
  <1>8. call'[c] = next
    <2>1. call' = [call EXCEPT ![c] = next]
      BY <1>7 DEF StartRenewal, next
    <2> QED BY <1>0, <2>1, RowTypes
  <1>9. /\ \A j \in Ids : subs'[j].live = subs[j].live /\ subs'[j].kind = subs[j].kind
        /\ Listed' = Listed /\ call'[c].id = None /\ At(c, "stop")'
    <2>1. \A j \in Ids : subs'[j].live = subs[j].live /\ subs'[j].kind = subs[j].kind
      BY <1>0, RowTypes DEF Passed, Sub
    <2> QED BY <1>0, <1>3, <1>8, <2>1 DEF Listed, At
  <1>10. ~Undoing(c)' /\ ~At(c, "remove")'
    BY <1>3, <1>8 DEF Undoing, At
  <1>11. \A j \in Ids : Taken(j) => Taken(j)'
    <2> SUFFICES ASSUME NEW j \in Ids, NEW d \in Callers, call[d].id = j PROVE call'[d].id = j
      BY DEF Taken
    <2> QED BY <1>1, <1>5, Bounds, OthersUndo
  <1>12. Fits' /\ Matches' /\ Owned'
    <2>1. Fits'
      BY <1>0, <1>6, <1>9 DEF Good, Fits, HasPush
    <2>2. Matches'
      BY <1>0, <1>6, <1>7, <1>9 DEF Good, Matches
    <2>3. Owned'
      BY <1>0, <1>6, <1>9, <1>11 DEF Good, Owned, Taken
    <2> QED BY <2>1, <2>2, <2>3
  <1>13. Hears'
    <2>1. ASSUME Heard PROVE Heard'
      BY <1>0, <1>7, <1>9, <2>1 DEF Heard, HasPush
    <2>2. \A d \in Callers : Undoing(d) => Undoing(d)'
      BY <1>1, <1>5, OthersUndo
    <2> QED BY <1>0, <1>6, <2>1, <2>2 DEF Good, Hears, HasPush
  <1>14. ASSUME NEW d \in Callers PROVE Silenced(d)'
    <2>1. CASE d = c
      BY <1>10, <2>1 DEF Silenced
    <2>2. CASE d # c
      BY <1>0, <1>5, <1>6, <1>7, <1>9, <1>11, <2>2, OthersUndo DEF Good, Silenced
    <2> QED BY <2>1, <2>2
  <1>15. \A d \in Callers : Robbed(d)'
    BY <1>0, <1>1, <1>4, <1>6, <1>9, RobbedAfter DEF Good
  <1> QED BY <1>12, <1>13, <1>14, <1>15 DEF Good

\* The renewal's new subscription, with nothing live in the row but what another has made.
LEMMA GoodResubscribe ==
    ASSUME OwnTriggers, Inv, Known, Known', Reconciling, Calm', NEW c \in Renewers, Resubscribe(c)
    PROVE  Good'
  <1> DEFINE k == call[c]
             kind == ByProvider(KindOf[k.had])
  <1>0. c \in Callers /\ UNCHANGED <<exists, active, definition, rows, faults, excused>>
    BY RowTypes DEF Resubscribe, workflow, excuses
  <1>1. k \in Call /\ k.pc = "renew" /\ Shaped(k) /\ Informed(c) /\ k.had \in Definitions
    BY <1>0, RowTypes, PointTypes DEF Resubscribe, At, Known, Knows
  <1>2. k.id = None /\ HasPush(k.had) /\ k.op = "renew"
    BY <1>1 DEF Shaped
  <1>3. kind = KindOf[k.had] /\ Accepts(kind, KindOf[k.had])
    BY <1>1, <1>2 DEF OwnTriggers, Accepts
  <1> HIDE DEF kind
  <1> PICK id \in NewIds(kind) :
             /\ subs' = Subscribed(id, kind)
             /\ call' = [call EXCEPT ![c] = [k EXCEPT !.pc = "write", !.id = id]]
    BY <1>3 DEF Resubscribe, kind
  <1> DEFINE next == [k EXCEPT !.pc = "write", !.id = id]
  <1>4. subs' = Subscribed(id, kind) /\ call' = [call EXCEPT ![c] = next]
    OBVIOUS
  <1>5. next.pc = "write" /\ next.id = id /\ next.overtaken = k.overtaken /\ next.robbed = k.robbed
    BY <1>1 DEF Call
  <1> HIDE DEF next
  <1>6. ~Changed
    BY <1>0 DEF Changed
  <1>7. call'[c] = next /\ \A d \in Callers \ {c} : Kept(d)
    BY <1>0, <1>4, <1>6, CallsAfter DEF Inv
  <1>8. Bound(c)' /\ Undoing(c) /\ Undoing(c)' /\ ~At(c, "remove")' /\ ~At(c, "stop")
    BY <1>1, <1>5, <1>7 DEF Bound, Undoing, At
  <1>9. Good
    BY <1>0, <1>5, <1>7, <1>8, CalmBefore DEF Reconciling, Kept
  <1>10. kind = KindOf[definition]
    <2>1. ~k.overtaken
      BY <1>0, <1>5, <1>7, <1>8 DEF Calm
    <2> QED BY <1>1, <1>2, <1>3, <2>1 DEF Informed, Deciding, At
  <1> QED BY <1>0, <1>2, <1>4, <1>5, <1>7, <1>8, <1>9, <1>10, GoodSubscribed

\* The renewal writes the row it read.
LEMMA GoodWriteRenewal ==
    ASSUME OwnTriggers, Inv, Known, Known', Reconciling, Calm', NEW c \in Renewers, WriteRenewal(c)
    PROVE  Good'
  <1> DEFINE k == call[c]
             n == NodeOf[k.had]
  <1>0. c \in Callers /\ UNCHANGED <<exists, active, definition, subs, faults>>
        /\ rows' = [rows EXCEPT ![n] = IF rows[n] = None THEN None ELSE k.id]
        /\ Overtaking(c, Idle, rows[n] # None) /\ excused' = (excused \/ k.overtaken)
        /\ k.pc = "write" /\ Shaped(k) /\ Informed(c) /\ Held(c)
    BY RowTypes DEF WriteRenewal, workflow, At, Known, Knows
  <1>1. k.id # None /\ n \in Nodes /\ k.op = "renew" /\ HasPush(k.had) /\ k.had \in Definitions
    BY <1>0, RowTypes, PointTypes, ActivationAssumption DEF Shaped, HasPush
  <1>2. call'[c] = Idle /\ \A d \in Callers \ {c} : Kept(d)
    <2>1. Changed => rows[n] # None
      <3> HIDE DEF n
      <3>1. rows[n] = None => rows' = rows
        BY <1>0, <1>1, RowTypes
      <3> QED BY <1>0, <3>1 DEF Changed
    <2> QED BY <1>0, <2>1, CallsAfter DEF Inv
  <1>3. ~k.overtaken /\ excused' = excused
    <2>1. ~excused' /\ excused \in BOOLEAN /\ k.overtaken \in BOOLEAN
      BY <1>0, RowTypes DEF Calm, Inv, TypeOK
    <2> QED BY <1>0, <2>1
  <1>4. Good
    BY <1>0, <1>2, <1>3, CalmBefore DEF Reconciling, Kept
  <1>5. k.had = definition /\ n \in Listed
    BY <1>0, <1>1, <1>3 DEF Informed, Deciding, At
  <1>6. active /\ \A m \in Nodes : m # n => rows[m] = None
    BY <1>4, <1>5 DEF Good, Fits, Listed
  <1>7. /\ \A m \in Nodes : m # n => rows'[m] = None
        /\ rows'[n] = k.id
    <2> HIDE DEF n
    <2> QED BY <1>0, <1>1, <1>5, <1>6, RowTypes DEF Listed
  <1>8. Warned(c)
    <2>1. Overtaking(c, Idle, TRUE)
      BY <1>0, <1>5 DEF Listed
    <2> SUFFICES ASSUME NEW d \in Callers \ {c}, Deciding(d) PROVE call'[d].overtaken
      BY DEF Warned
    <2>2. call'[d] = [call[d] EXCEPT !.overtaken = @ \/ TRUE] /\ call[d] \in Call
      BY <2>1, RowTypes DEF Overtaking
    <2> QED BY <2>2 DEF Call
  <1>9. ~k.robbed
    BY <1>0, <1>2, <1>4, <1>8, NotRobbed DEF Good, Kept
  <1>10. subs[k.id] = Fresh(KindOf[definition'])
    <2>1. subs[k.id] = Fresh(KindHeld(k))
      BY <1>0, <1>1, <1>9 DEF Held
    <2>2. KindHeld(k) = KindOf[definition']
      BY <1>0, <1>1, <1>5 DEF KindHeld, OwnTriggers
    <2> QED BY <2>1, <2>2
  <1>11. \A m \in Listed : subs[rows[m]].live => Taken(rows[m])
    BY <1>0, <1>3, <1>4 DEF Good, Silenced, Undoing
  <1>12. NodeOf[definition'] = n /\ HasPush(definition') /\ active'
    BY <1>0, <1>1, <1>5, <1>6 DEF HasPush
  <1> HIDE DEF n
  <1> QED BY <1>0, <1>1, <1>2, <1>4, <1>7, <1>8, <1>10, <1>11, <1>12, GoodWritten

\* A subscription comes due; none is left to expire.
LEMMA GoodProvider ==
    ASSUME Inv, Known, Known', Reconciling, Calm', NEW i \in Ids, ComesDue(i) \/ Expire(i) PROVE Good'
  <1>1. UNCHANGED <<exists, active, definition, rows, call, faults, excused>>
    BY DEF ComesDue, Expire, workflow, excuses
  <1>2. Good
    BY <1>1 DEF Reconciling, Calm, Bound
  <1>3. ~Expire(i)
    <2> SUFFICES ASSUME subs[i].age = "passed", \A d \in Renewers : ~At(d, "stop") PROVE FALSE
      BY DEF Expire, At
    <2>1. subs[i].live
      BY DEF Known, Aged
    <2>2. i # None
      BY Bounds
    <2>3. CASE \E n \in Nodes : rows[n] = i
      BY <1>2, <2>1, <2>2, <2>3 DEF Good, Matches, Listed
    <2>4. CASE \E c \in Callers : call[c].id = i
      <3>1. PICK c \in Callers : call[c].id = i
        BY <2>4
      <3>2. subs[i].age = "new"
        BY <2>1, <2>2, <3>1 DEF Known, Knows, Held
      <3> QED BY <3>2
    <2> QED BY <1>2, <2>1, <2>3, <2>4 DEF Good, Owned
  <1>4. /\ \A j \in Ids : j # i => subs'[j] = subs[j]
        /\ subs'[i].live = subs[i].live /\ subs'[i].kind = subs[i].kind /\ subs'[i].age = "due"
    BY <1>3, RowTypes DEF ComesDue, Sub
  <1>5. /\ \A j \in Ids : subs'[j].live = subs[j].live /\ subs'[j].kind = subs[j].kind
                          /\ (subs'[j].age = "passed" => subs[j].age = "passed")
        /\ Listed' = Listed /\ \A n \in Listed : rows[n] \in Ids
    BY <1>1, <1>4, RowTypes DEF Listed
  <1>6. \A c \in Callers : Undoing(c)' = Undoing(c) /\ At(c, "remove")' = At(c, "remove")
                            /\ At(c, "stop")' = At(c, "stop") /\ Bound(c)' = Bound(c)
    BY <1>1 DEF Undoing, At, Bound
  <1>7. Fits' /\ Owned' /\ Matches'
    BY <1>1, <1>2, <1>5, <1>6, RowTypes DEF Good, Fits, Owned, Matches, HasPush
  <1>8. Hears'
    <2>1. ASSUME Heard PROVE Heard'
      <3>1. HasPush(definition) /\ NodeOf[definition] \in Nodes
        BY <2>1, RowTypes, ActivationAssumption DEF Heard, HasPush
      <3>2. rows[NodeOf[definition]] \in Ids
        BY <2>1, <3>1, RowTypes DEF Heard
      <3> QED BY <1>1, <1>5, <2>1, <3>1, <3>2 DEF Heard, HasPush
    <2> QED BY <1>1, <1>2, <1>6, <2>1 DEF Good, Hears, HasPush
  <1>9. \A c \in Callers : Silenced(c)' /\ Robbed(c)'
    BY <1>1, <1>2, <1>5, <1>6 DEF Good, Silenced, Robbed, Taken
  <1> QED BY <1>7, <1>8, <1>9 DEF Good

\* At first nothing is subscribed.
LEMMA GoodInit == ASSUME Init PROVE Reconciling
  <1>1. Idle.pc = "idle" /\ Idle.id = None /\ ~Idle.robbed
    BY DEF Idle
  <1>2. Good
    BY <1>1 DEF Init, Good, Fits, Owned, Matches, Hears, Silenced, Robbed, Listed, Undoing, At, Unsubscribed
  <1> QED BY <1>2 DEF Reconciling

\* No action, and no stuttering, breaks it.
LEMMA GoodStep == ASSUME OwnTriggers PROVE Inv /\ Known /\ Reconciling /\ [Next]_vars => Reconciling'
  <1> SUFFICES ASSUME Inv, Known, Reconciling, [Next]_vars, Calm' PROVE Good'
    BY DEF Reconciling
  <1>0. Known'
    BY KnownStep
  <1>1. CASE UNCHANGED vars
    <2>1. UNCHANGED <<exists, active, definition, rows, subs, call, faults, excused>>
      BY <1>1 DEF vars, workflow, excuses
    <2>2. Good
      BY <2>1 DEF Reconciling, Calm, Bound
    <2>3. Fits' /\ Owned' /\ Matches'
      BY <2>1, <2>2 DEF Good, Fits, Owned, Matches, HasPush, Listed, At
    <2>4. Hears'
      BY <2>1, <2>2 DEF Good, Hears, Heard, HasPush, Undoing, At
    <2>5. \A c \in Callers : Silenced(c)' /\ Robbed(c)'
      BY <2>1, <2>2 DEF Good, Silenced, Robbed, Bound, Listed, Taken, Undoing, At
    <2> QED BY <2>3, <2>4, <2>5 DEF Good
  <1>2. ASSUME NEW c \in Users, UserStep(c) PROVE Good'
    BY <1>0, <1>2, GoodUpdate, GoodPlain, GoodReadPrior, GoodInsertVersion, GoodSubscribe,
       GoodUpsert, GoodCommit, GoodFindRows, GoodStopTarget, GoodDeleteRows, GoodRemove,
       GoodDeleteWorkflow, RowTypes
       DEF UserStep
  <1>3. ASSUME NEW c \in Renewers, RenewerStep(c) PROVE Good'
    BY <1>0, <1>3, GoodStartRenewal, GoodStopTarget, GoodResubscribe, GoodWriteRenewal, RowTypes
       DEF RenewerStep
  <1>4. ASSUME NEW c \in Callers, Fail(c) PROVE Good'
    <2>1. faults \in Nat
      BY Bounds DEF Inv, TypeOK
    <2> QED BY <1>4, <2>1 DEF Fail, Calm
  <1> QED BY <1>0, <1>1, <1>2, <1>3, <1>4, GoodProvider DEF Next

\* When everybody is done, what is good is reconciled.
LEMMA GoodReconciles == Inv /\ Known /\ Reconciling => Reconciled
  <1> SUFFICES ASSUME Inv, Known, Reconciling, Quiet, faults = 0, ~excused
               PROVE  /\ active /\ HasPush(definition) => Heard
                      /\ ~active => \A n \in Nodes : rows[n] = None
                      /\ \A i \in Ids : subs[i].live => \E n \in Nodes : rows[n] = i
    BY DEF Reconciled
  <1>1. \A c \in Callers : call[c].pc = "idle" /\ call[c].id = None
    BY DEF Quiet, At, Known, Knows, Shaped, Idle
  <1>2. \A c \in Callers : ~Bound(c) /\ ~Undoing(c)
    BY <1>1 DEF Bound, Undoing, At
  <1>3. Good
    BY <1>2 DEF Reconciling, Calm
  <1>4. active /\ HasPush(definition) => Heard
    BY <1>2, <1>3 DEF Good, Hears
  <1>5. ~active => \A n \in Nodes : rows[n] = None
    BY <1>3 DEF Good, Fits, Listed
  <1>6. \A i \in Ids : subs[i].live => \E n \in Nodes : rows[n] = i
    BY <1>1, <1>3, Bounds DEF Good, Owned
  <1> QED BY <1>4, <1>5, <1>6

\* channel behind and renews the subscription as another kind's.
THEOREM RowsReconcile == ASSUME OwnTriggers PROVE Spec => []Reconciled
  <1>1. Inv /\ Known /\ Reconciling /\ [Next]_vars => Reconciling'
    BY GoodStep
  <1>2. Spec => []Reconciling
    BY <1>1, GoodInit, InvAlways, KnownAlways, PTL DEF Spec
  <1> QED BY <1>2, InvAlways, KnownAlways, GoodReconciles, PTL
===================================================================================
