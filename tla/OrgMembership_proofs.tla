---------------------------- MODULE OrgMembership_proofs ----------------------------
(* Theorems about OrgMembership, for any users, invites, places for requests, ranks *)
(* and number of seats.  The inductive invariant has these parts:                   *)
(*   Typed     the fields have their types, with what a request at each point knows *)
(*   Settled   a workspace that is not live is empty, and before it lives nothing runs *)
(*   Tokens    whoever holds a consumed invite holds it alone, and it is unspent    *)
(*   Counted   a transaction with no conflict has seen all members, who fit         *)
(*   Bought    the count under which a token was consumed left a seat free          *)
(*   Guarded   a request about to take a superadmin's role has counted two of them  *)
EXTENDS OrgMembership, FiniteSetTheorems, TLAPS

\* What the assumption says of the constants.
LEMMA Bounds ==
    /\ IsFiniteSet(Users) /\ MaxSeats \in Nat /\ MaxSeats >= 1
    /\ Superadmin \in Roles /\ Superadmin # None
    /\ \A r \in Roles : r # None
  <1>1. \A r \in 0 .. 3 : r # -1
    OBVIOUS
  <1> QED
    BY <1>1, OrgAssumption DEF Superadmin, None

-----------------------------------------------------------------------------------
(* Type correctness.                                                              *)

\* An invitation about to be written has a rank, an account about to go has a user.
Requests ==
    {k \in CallState : /\ k.pc = "insert" => k.role \in Roles
                       /\ k.pc \in {"wind", "dissolve", "leave"} => k.by \in Users}

Typed ==
    /\ org \in {"none", "live", "deleted"}
    /\ role \in [Users -> Roles \union {None}]
    /\ gone \subseteq Users
    /\ invites \in [Invites -> InviteState]
    /\ uses \in [Invites -> Nat]
    /\ calls \in [Calls -> Requests]
    /\ overtaken \in BOOLEAN /\ putBack \in BOOLEAN
Cascade == org # "live" => Members \union Pending = {}

\* The two parts make up TypeOK.
LEMMA TypeParts ==
    Typed /\ Cascade => TypeOK
  BY DEF TypeOK, Typed, Cascade, Requests

\* A free place is a place.
LEMMA IdleType == Idle \in Requests
  BY DEF Idle, CallState, Requests

\* A request that goes on with some of its fields replaced.
LEMMA FieldTypes ==
    ASSUME NEW k \in Requests,
           NEW p \in {"idle", "count", "write", "drop", "consume", "consumeAgain", "rejoin",
                      "begin", "commit"},
           NEW s \in SUBSET Users, NEW b \in BOOLEAN
    PROVE  /\ [k EXCEPT !.pc = p] \in Requests
           /\ [k EXCEPT !.pc = p, !.owners = s] \in Requests
           /\ [k EXCEPT !.pc = p, !.members = s, !.moved = b] \in Requests
           /\ [k EXCEPT !.conflict = b] \in Requests
  <1>1. [k EXCEPT !.pc = p] \in Requests
    BY DEF CallState, Requests
  <1>2. [k EXCEPT !.pc = p, !.owners = s] \in Requests
    BY DEF CallState, Requests
  <1>3. [k EXCEPT !.pc = p, !.members = s, !.moved = b] \in Requests
    BY DEF CallState, Requests
  <1>4. [k EXCEPT !.conflict = b] \in Requests
    BY DEF CallState, Requests
  <1> QED
    BY <1>1, <1>2, <1>3, <1>4

\* A deletion of an account that goes on, with the workspace or without.
LEMMA WindTypes ==
    ASSUME NEW k \in Requests, k.pc = "wind", NEW s \in SUBSET Users
    PROVE  /\ [k EXCEPT !.pc = "dissolve"] \in Requests
           /\ [k EXCEPT !.pc = "leave", !.owners = s] \in Requests
  <1>1. [k EXCEPT !.pc = "dissolve"] \in Requests
    BY DEF CallState, Requests
  <1>2. [k EXCEPT !.pc = "leave", !.owners = s] \in Requests
    BY DEF CallState, Requests
  <1> QED
    BY <1>1, <1>2

\* Replacing a request by a typed one leaves all typed.
LEMMA CallsTyped ==
    ASSUME Typed, NEW c \in Calls, NEW k \in Requests, Goes(c, k)
    PROVE  calls' \in [Calls -> Requests]
  BY DEF Typed, Goes

\* So does its end,
LEMMA EndsTyped ==
    ASSUME Typed, NEW c \in Calls, Ends(c)
    PROVE  calls' \in [Calls -> Requests]
  BY IdleType, CallsTyped DEF Ends

\* and its start.
LEMMA StartsTyped ==
    ASSUME Typed, NEW c \in Calls, NEW u, NEW k \in Requests, Starts(c, u, k)
    PROVE  calls' \in [Calls -> Requests]
  BY DEF Typed, Starts

\* A step that changes nothing but the requests.
Reads == UNCHANGED <<org, role, gone, invites, uses, overtaken, putBack>>

\* A step that only reads.
LEMMA ReadsTyped ==
    ASSUME Typed, Reads, calls' \in [Calls -> Requests]
    PROVE  Typed'
  BY DEF Typed, Reads

\* The deletion of the workspace.
LEMMA DeleteTyped ==
    ASSUME DeleteOrg
    PROVE  /\ org' \in {"none", "live", "deleted"}
           /\ role' \in [Users -> Roles \union {None}]
           /\ invites' \in [Invites -> InviteState]
  BY Bounds DEF DeleteOrg, Blank, InviteState

\* A new role, or none.
LEMMA RoleTyped ==
    ASSUME Typed, NEW u, NEW r \in Roles \union {None}, role' = [role EXCEPT ![u] = r]
    PROVE  role' \in [Users -> Roles \union {None}]
  BY DEF Typed

\* Every action keeps the types.
LEMMA TypedStep ==
    ASSUME Typed, [Next]_vars
    PROVE  Typed'
  <1> USE Bounds
  <1>0. ASSUME NEW c \in Calls PROVE calls[c] \in Requests
    BY <1>0 DEF Typed
  <1>1. CASE UNCHANGED vars
    BY <1>1 DEF Typed, vars
  <1>2. ASSUME NEW u \in Users, Create(u) PROVE Typed'
    BY <1>2 DEF Typed, Create
  <1>3. ASSUME NEW i \in Invites, Lapse(i) PROVE Typed'
    BY <1>3 DEF Typed, Lapse, InviteState
  <1>4. ASSUME NEW i \in Invites, NEW u \in Users, Revoke(u, i) PROVE Typed'
    BY <1>4 DEF Typed, Revoke, InviteState
  <1>5. ASSUME NEW c \in Calls, NEW u \in Users, RemoveRead(c, u) PROVE Typed'
    <2>1. [Idle EXCEPT !.pc = "drop"] \in Requests
      BY IdleType, FieldTypes
    <2> QED
      BY <1>5, <2>1, StartsTyped, ReadsTyped DEF RemoveRead, Reads
  <1>6. ASSUME NEW c \in Calls, NEW u \in Users, WindRead(c, u) PROVE Typed'
    <2>1. [Idle EXCEPT !.pc = "wind", !.by = u, !.role = role[u]] \in Requests
      BY DEF Idle, CallState, Requests, Typed
    <2> QED
      BY <1>6, <2>1, StartsTyped, ReadsTyped DEF WindRead, Reads
  <1>7. ASSUME NEW c \in Calls, NEW u \in Users, NEW t \in Users, NEW r \in Roles \union {None},
               ManageRead(c, u, t, r)
        PROVE  Typed'
    <2> DEFINE k == [Idle EXCEPT
           !.pc = IF role[t] = Superadmin /\ r # Superadmin THEN "count" ELSE "write",
           !.target = t, !.role = r]
    <2>1. k \in Requests
      BY DEF Idle, CallState, Requests
    <2>2. Starts(c, u, k)
      BY <1>7 DEF ManageRead
    <2> HIDE DEF k
    <2> QED
      BY <1>7, <2>1, <2>2, StartsTyped, ReadsTyped DEF ManageRead, Reads
  <1>8. ASSUME NEW c \in Calls, NEW u \in Users, NEW v \in Users, NEW r \in Roles,
               InviteCheck(c, u, v, r)
        PROVE  Typed'
    <2>1. [Idle EXCEPT !.pc = "insert", !.target = v, !.role = r] \in Requests
      BY DEF Idle, CallState, Requests
    <2> QED
      BY <1>8, <2>1, StartsTyped, ReadsTyped DEF InviteCheck, Reads
  <1>9. ASSUME NEW c \in Calls, NEW i \in Invites, InviteInsert(c, i) PROVE Typed'
    <2>1. calls[c].pc = "insert" /\ calls[c].role \in Roles
               /\ calls[c].target \in Users \union {Nobody}
      BY <1>0, <1>9 DEF InviteInsert, Requests, CallState
    <2>2. invites' \in [Invites -> InviteState]
      BY <1>9, <2>1 DEF InviteInsert, Typed, InviteState
    <2>3. calls' \in [Calls -> Requests]
      BY <1>9, EndsTyped DEF InviteInsert
    <2> QED
      BY <1>9, <2>2, <2>3 DEF InviteInsert, Typed
  <1>10. ASSUME NEW c \in Calls, NEW i \in Invites, AcceptCheck(c, i) PROVE Typed'
    <2> DEFINE u == invites[i].to
    <2>1. invites[i] \in InviteState
      BY DEF Typed
    <2>2. u \in Users \union {Nobody} /\ invites[i].role \in Roles
      BY <2>1 DEF InviteState
    <2>3. [Idle EXCEPT !.pc = "consumeAgain", !.by = u, !.invite = i,
                       !.role = invites[i].role] \in Requests
      BY <2>2 DEF Idle, CallState, Requests
    <2>4. [Idle EXCEPT !.pc = "consume", !.by = u, !.invite = i,
                       !.role = invites[i].role, !.members = Members] \in Requests
      BY <2>2 DEF Idle, CallState, Requests, Members
    <2>5. calls' \in [Calls -> Requests]
      BY <1>10, <2>3, <2>4, StartsTyped DEF AcceptCheck
    <2> QED
      BY <1>10, <2>5, ReadsTyped DEF AcceptCheck, Reads
  <1>11. ASSUME NEW c \in Calls, RemoveDelete(c) PROVE Typed'
    BY <1>11, DeleteTyped, EndsTyped DEF RemoveDelete, Typed
  <1>12. ASSUME NEW c \in Calls, ManageCount(c) PROVE Typed'
    <2>1. [calls[c] EXCEPT !.pc = "write", !.owners = Owners] \in Requests
      BY <1>0, FieldTypes DEF Owners
    <2> QED
      BY <1>12, <2>1, CallsTyped, EndsTyped, ReadsTyped DEF ManageCount, Reads
  <1>13. ASSUME NEW c \in Calls, ChangeMemberRole(c) PROVE Typed'
    <2>1. calls[c].role \in Roles \union {None}
      BY <1>0 DEF Requests, CallState
    <2>2. role' \in [Users -> Roles \union {None}] /\ overtaken' \in BOOLEAN
      BY <1>13, <2>1, RoleTyped DEF ChangeMemberRole, TakesOwner, Typed
    <2> QED
      BY <1>13, <2>2, EndsTyped DEF ChangeMemberRole, Typed
  <1>14. ASSUME NEW c \in Calls, RemoveMember(c) PROVE Typed'
    <2>1. role' \in [Users -> Roles \union {None}] /\ overtaken' \in BOOLEAN
      BY <1>14, RoleTyped DEF RemoveMember, TakesOwner, Typed
    <2> QED
      BY <1>14, <2>1, EndsTyped DEF RemoveMember, Typed
  <1>15. ASSUME NEW c \in Calls, AcceptConsume(c) PROVE Typed'
    <2>1. [calls[c] EXCEPT !.pc = IF @ = "consume" THEN "begin" ELSE "rejoin"] \in Requests
      BY <1>0, FieldTypes
    <2>2. calls' \in [Calls -> Requests]
      BY <1>15, <2>1, CallsTyped, EndsTyped DEF AcceptConsume
    <2>3. invites' \in [Invites -> InviteState]
      BY <1>15 DEF AcceptConsume, Typed, InviteState
    <2> QED
      BY <1>15, <2>2, <2>3 DEF AcceptConsume, Typed
  <1>16. ASSUME NEW c \in Calls, AcceptRejoin(c) PROVE Typed'
    <2>1. calls[c].role \in Roles \union {None}
      BY <1>0 DEF Requests, CallState
    <2>2. role' \in [Users -> Roles \union {None}] /\ uses' \in [Invites -> Nat]
      BY <1>16, <2>1, RoleTyped DEF AcceptRejoin, Joins, Typed
    <2> QED
      BY <1>16, <2>2, EndsTyped DEF AcceptRejoin, Typed
  <1>17. ASSUME NEW c \in Calls, AcceptBegin(c) PROVE Typed'
    <2>1. [calls[c] EXCEPT !.pc = "commit", !.members = Members,
                           !.moved = Members # calls[c].members] \in Requests
      BY <1>0, FieldTypes DEF Members
    <2> QED
      BY <1>17, <2>1, CallsTyped, ReadsTyped DEF AcceptBegin, Reads
  <1>18. ASSUME NEW c \in Calls, AcceptCommit(c) PROVE Typed'
    <2>1. calls[c].role \in Roles \union {None}
      BY <1>0 DEF Requests, CallState
    <2>2. Joins(calls[c])
      BY <1>18 DEF AcceptCommit
    <2>5. role' \in [Users -> Roles \union {None}]
      BY <2>1, <2>2, RoleTyped DEF Joins
    <2>6. uses' \in [Invites -> Nat]
      <3>1. uses \in [Invites -> Nat] /\ uses' = [uses EXCEPT ![calls[c].invite] = @ + 1]
        BY <2>2 DEF Joins, Typed
      <3>2. \A i \in Invites : uses'[i] \in Nat
        BY <3>1
      <3> QED
        BY <3>1, <3>2
    <2>3. ASSUME NEW d \in Calls
          PROVE  [calls[d] EXCEPT !.conflict = @ \/ calls[d].pc = "commit"] \in Requests
      <3>1. CASE calls[d].pc = "commit"
        <4>1. [calls[d] EXCEPT !.conflict = @ \/ calls[d].pc = "commit"]
                = [calls[d] EXCEPT !.conflict = TRUE]
          BY <3>1
        <4> QED
          BY <1>0, <4>1, FieldTypes
      <3>2. CASE calls[d].pc # "commit"
        <4>1. calls[d].conflict \in BOOLEAN /\ calls[d] \in Requests
          BY <1>0 DEF Requests, CallState
        <4>2. [calls[d] EXCEPT !.conflict = @ \/ calls[d].pc = "commit"] = calls[d]
          BY <3>2, <4>1 DEF Requests, CallState
        <4> QED
          BY <4>1, <4>2
      <3> QED
        BY <3>1, <3>2
    <2>4. calls' \in [Calls -> Requests]
      BY <1>18, <2>3, IdleType DEF AcceptCommit
    <2> QED
      BY <1>18, <2>4, <2>5, <2>6 DEF AcceptCommit, Typed
  <1>19. ASSUME NEW c \in Calls, WindCount(c) PROVE Typed'
    <2>1. [calls[c] EXCEPT !.pc = "dissolve"] \in Requests
      BY <1>0, <1>19, WindTypes DEF WindCount
    <2>2. [calls[c] EXCEPT !.pc = "leave",
              !.owners = IF calls[c].role = Superadmin THEN Owners ELSE {}] \in Requests
      BY <1>0, <1>19, WindTypes DEF WindCount, Owners
    <2> QED
      BY <1>19, <2>1, <2>2, CallsTyped, ReadsTyped DEF WindCount, Reads
  <1>20. ASSUME NEW c \in Calls, WindAlone(c) PROVE Typed'
    <2>1. calls[c].by \in Users
      BY <1>0, <1>20 DEF WindAlone, Requests
    <2> QED
      BY <1>20, <2>1, EndsTyped DEF WindAlone, Typed
  <1>21. ASSUME NEW c \in Calls, Dissolve(c) PROVE Typed'
    <2>1. calls[c].by \in Users
      BY <1>0, <1>21 DEF Dissolve, Requests
    <2> QED
      BY <1>21, <2>1, DeleteTyped, EndsTyped DEF Dissolve, Typed
  <1>22. ASSUME NEW c \in Calls, Leave(c) PROVE Typed'
    <2>1. role' \in [Users -> Roles \union {None}] /\ overtaken' \in BOOLEAN
      BY <1>22, RoleTyped DEF Leave, TakesOwner, Typed
    <2>2. calls[c].by \in Users
      BY <1>0, <1>22 DEF Leave, Requests
    <2> QED
      BY <1>22, <2>1, <2>2, EndsTyped DEF Leave, Typed
  <1>23. ASSUME NEW c \in Calls, Fails(c) PROVE Typed'
    BY <1>23, EndsTyped, ReadsTyped DEF Fails, Reads
  <1> QED
    BY <1>1, <1>2, <1>3, <1>4, <1>5, <1>6, <1>7, <1>8, <1>9, <1>10, <1>11, <1>12, <1>13, <1>14,
       <1>15, <1>16, <1>17, <1>18, <1>19, <1>20, <1>21, <1>22, <1>23 DEF Next

-----------------------------------------------------------------------------------
(* The workspace and what goes with it.                                           *)

\* Before there is a workspace nobody asks anything of it.
Fresh == org = "none" => /\ \A c \in Calls : calls[c].pc = "idle"
                         /\ \A i \in Invites : uses[i] = 0 /\ invites[i].state = "none"
Settled == Cascade /\ Fresh

\* Whoever is a member is one of a live workspace.
LEMMA Alive ==
    ASSUME Typed, Settled, NEW u \in Users, role[u] # None
    PROVE  org = "live"
  BY DEF Settled, Cascade, Members

\* Every action keeps an inactive workspace empty.
LEMMA SettledStep ==
    ASSUME Typed, Settled, [Next]_vars
    PROVE  Settled'
  <1>1. CASE UNCHANGED vars
    BY <1>1 DEF vars, Settled, Cascade, Fresh, Members, Pending, Typed
  <1>2. ASSUME NEW u \in Users, Create(u) PROVE Settled'
    BY <1>2, Bounds DEF Create, Settled, Cascade, Fresh, Members, Pending, Typed
  <1>3. ASSUME NEW i \in Invites, Lapse(i) PROVE Settled'
    BY <1>3, Bounds DEF Lapse, Settled, Cascade, Fresh, Members, Pending, Typed
  <1>4. ASSUME NEW u \in Users, NEW i \in Invites, Revoke(u, i) PROVE Settled'
    BY <1>4, Bounds DEF Revoke, Settled, Cascade, Fresh, Members, Pending, Typed
  <1>5. ASSUME NEW c \in Calls, NEW u \in Users, RemoveRead(c, u) PROVE Settled'
    BY <1>5, Bounds DEF RemoveRead, Settled, Cascade, Fresh, Members, Pending, Typed, Starts,
       Idle
  <1>6. ASSUME NEW c \in Calls, NEW u \in Users, WindRead(c, u) PROVE Settled'
    BY <1>6, Bounds DEF WindRead, Settled, Cascade, Fresh, Members, Pending, Typed, Starts, Idle
  <1>7. ASSUME NEW c \in Calls, NEW u \in Users, NEW t \in Users,
               NEW r \in Roles \union {None},
               ManageRead(c, u, t, r)
        PROVE  Settled'
    BY <1>7, Bounds DEF ManageRead, Settled, Cascade, Fresh, Members, Pending, Typed, Starts,
       Idle, MANAGER_ROLES
  <1>8. ASSUME NEW c \in Calls, NEW u \in Users, NEW v \in Users, NEW r \in Roles,
               InviteCheck(c, u, v, r)
        PROVE  Settled'
    <2>1. org = "live"
      BY <1>8, Alive, Bounds DEF InviteCheck, MANAGER_ROLES, Admin, Superadmin, None
    <2> QED
      BY <1>8, <2>1 DEF InviteCheck, Settled, Cascade, Fresh, Members, Pending
  <1>9. ASSUME NEW c \in Calls, NEW i \in Invites, InviteInsert(c, i) PROVE Settled'
    BY <1>9, Bounds DEF InviteInsert, Settled, Cascade, Fresh, Members, Pending, Typed, Ends,
       Goes, Idle
  <1>10. ASSUME NEW c \in Calls, NEW i \in Invites, AcceptCheck(c, i) PROVE Settled'
    <2>1. org # "none"
      BY <1>10 DEF AcceptCheck, Settled, Fresh
    <2> QED
      BY <1>10, <2>1 DEF AcceptCheck, Settled, Cascade, Fresh, Members, Pending
  <1>11. ASSUME NEW c \in Calls, RemoveDelete(c) PROVE Settled'
    BY <1>11, Bounds DEF RemoveDelete, Settled, Cascade, Fresh, Members, Pending, Typed,
       DeleteOrg, Blank, Ends, Goes, Idle
  <1>12. ASSUME NEW c \in Calls, ManageCount(c) PROVE Settled'
    BY <1>12, Bounds DEF ManageCount, Settled, Cascade, Fresh, Members, Pending, Typed, Ends,
       Goes, Idle
  <1>13. ASSUME NEW c \in Calls, ChangeMemberRole(c) PROVE Settled'
    BY <1>13, Bounds DEF ChangeMemberRole, Settled, Cascade, Fresh, Members, Pending, Typed,
       TakesOwner, Ends, Goes, Idle
  <1>14. ASSUME NEW c \in Calls, RemoveMember(c) PROVE Settled'
    BY <1>14, Bounds DEF RemoveMember, Settled, Cascade, Fresh, Members, Pending, Typed,
       TakesOwner, Ends, Goes, Idle
  <1>15. ASSUME NEW c \in Calls, AcceptConsume(c) PROVE Settled'
    BY <1>15, Bounds DEF AcceptConsume, Settled, Cascade, Fresh, Members, Pending, Typed,
       Consumable, Ends, Goes, Idle
  <1>16. ASSUME NEW c \in Calls, AcceptRejoin(c) PROVE Settled'
    BY <1>16, Bounds DEF AcceptRejoin, Settled, Cascade, Fresh, Members, Pending, Typed, Joins,
       Ends, Goes, Idle
  <1>17. ASSUME NEW c \in Calls, AcceptBegin(c) PROVE Settled'
    BY <1>17, Bounds DEF AcceptBegin, Settled, Cascade, Fresh, Members, Pending, Typed, Goes
  <1>18. ASSUME NEW c \in Calls, AcceptCommit(c) PROVE Settled'
    BY <1>18, Bounds DEF AcceptCommit, Settled, Cascade, Fresh, Members, Pending, Typed, Joins,
       Fits, Idle
  <1>19. ASSUME NEW c \in Calls, WindCount(c) PROVE Settled'
    BY <1>19, Bounds DEF WindCount, Settled, Cascade, Fresh, Members, Pending, Typed, Goes
  <1>20. ASSUME NEW c \in Calls, WindAlone(c) PROVE Settled'
    BY <1>20, Bounds DEF WindAlone, Settled, Cascade, Fresh, Members, Pending, Typed, Ends,
       Goes, Idle
  <1>21. ASSUME NEW c \in Calls, Dissolve(c) PROVE Settled'
    BY <1>21, Bounds DEF Dissolve, Settled, Cascade, Fresh, Members, Pending, Typed, DeleteOrg,
       Blank, Ends, Goes, Idle
  <1>22. ASSUME NEW c \in Calls, Leave(c) PROVE Settled'
    BY <1>22, Bounds DEF Leave, Settled, Cascade, Fresh, Members, Pending, Typed, TakesOwner,
       Ends, Goes, Idle
  <1>23. ASSUME NEW c \in Calls, Fails(c) PROVE Settled'
    BY <1>23, Bounds DEF Fails, Settled, Cascade, Fresh, Members, Pending, Typed, Ends, Goes,
       Idle
  <1> QED
    BY <1>1, <1>2, <1>3, <1>4, <1>5, <1>6, <1>7, <1>8, <1>9, <1>10, <1>11, <1>12, <1>13, <1>14,
       <1>15, <1>16, <1>17, <1>18, <1>19, <1>20, <1>21, <1>22, <1>23 DEF Next

-----------------------------------------------------------------------------------
(* Where a request goes on.                                                       *)

Moves(c, points) == \E k : calls' = [calls EXCEPT ![c] = k] /\ k.pc \in points

\* The other requests stay where they are.
LEMMA MovesTo ==
    ASSUME Typed, NEW c \in Calls
    PROVE  /\ ManageCount(c) => Moves(c, {"idle", "write"})
           /\ WindCount(c) => Moves(c, {"dissolve", "leave"})
           /\ AcceptConsume(c) => Moves(c, {"idle", "begin", "rejoin"})
           /\ AcceptBegin(c) => Moves(c, {"commit"})
           /\ \A i \in Invites : AcceptCheck(c, i) => Moves(c, {"consume", "consumeAgain"})
  <1>1. calls[c] \in CallState
    BY DEF Typed, Requests
  <1>2. Idle.pc = "idle"
    BY DEF Idle
  <1>3. ASSUME ManageCount(c) PROVE Moves(c, {"idle", "write"})
    <2>1. [calls[c] EXCEPT !.pc = "write", !.owners = Owners].pc = "write"
      BY <1>1 DEF CallState
    <2> QED
      BY <1>2, <1>3, <2>1 DEF ManageCount, Goes, Ends, Moves
  <1>4. ASSUME WindCount(c) PROVE Moves(c, {"dissolve", "leave"})
    <2>1. /\ [calls[c] EXCEPT !.pc = "dissolve"].pc = "dissolve"
          /\ [calls[c] EXCEPT !.pc = "leave",
                 !.owners = IF calls[c].role = Superadmin THEN Owners ELSE {}].pc = "leave"
      BY <1>1 DEF CallState
    <2> QED
      BY <1>4, <2>1 DEF WindCount, Goes, Moves
  <1>5. ASSUME AcceptConsume(c) PROVE Moves(c, {"idle", "begin", "rejoin"})
    <2>1. [calls[c] EXCEPT !.pc = IF @ = "consume" THEN "begin" ELSE "rejoin"].pc
             \in {"begin", "rejoin"}
      BY <1>1 DEF CallState
    <2> QED
      BY <1>2, <1>5, <2>1 DEF AcceptConsume, Goes, Ends, Moves
  <1>6. ASSUME AcceptBegin(c) PROVE Moves(c, {"commit"})
    <2>1. [calls[c] EXCEPT !.pc = "commit", !.members = Members,
                           !.moved = Members # calls[c].members].pc = "commit"
      BY <1>1 DEF CallState
    <2> QED
      BY <1>6, <2>1 DEF AcceptBegin, Goes, Moves
  <1>7. ASSUME NEW i \in Invites, AcceptCheck(c, i)
        PROVE  Moves(c, {"consume", "consumeAgain"})
    <2> DEFINE a == [Idle EXCEPT !.pc = "consumeAgain", !.by = invites[i].to, !.invite = i,
                                 !.role = invites[i].role]
               b == [Idle EXCEPT !.pc = "consume", !.by = invites[i].to, !.invite = i,
                                 !.role = invites[i].role, !.members = Members]
    <2>1. a.pc = "consumeAgain" /\ b.pc = "consume"
      BY DEF Idle
    <2>2. calls' = [calls EXCEPT ![c] = a] \/ calls' = [calls EXCEPT ![c] = b]
      BY <1>7 DEF AcceptCheck, Starts
    <2> HIDE DEF a, b
    <2> QED
      BY <2>1, <2>2 DEF Moves
  <1> QED
    BY <1>3, <1>4, <1>5, <1>6, <1>7

-----------------------------------------------------------------------------------
(* Consumed invites.                                                              *)

\* A request that has consumed an invite and not yet used it is the only one that has.
Holds(c, i) == calls[c].pc \in {"rejoin", "begin", "commit"} /\ calls[c].invite = i
Tokens ==
    /\ \A i \in Invites : uses[i] <= 1
    /\ \A i \in Invites : org = "live" /\ uses[i] > 0 => invites[i].state = "used"
    /\ \A c \in Calls, i \in Invites :
          Holds(c, i) => uses[i] = 0 /\ (org = "live" => invites[i].state = "used")
    /\ \A c, d \in Calls, i \in Invites : Holds(c, i) /\ Holds(d, i) => c = d

\* A step in which nobody comes to hold an invite.
LEMMA NobodyTakes ==
    ASSUME Tokens, UNCHANGED <<org, invites, uses>>,
           \A d \in Calls, i \in Invites : Holds(d, i)' => Holds(d, i)
    PROVE  Tokens'
  <1>1. \A i \in Invites : uses'[i] <= 1
    BY DEF Tokens
  <1>2. \A i \in Invites : org' = "live" /\ uses'[i] > 0 => invites'[i].state = "used"
    BY DEF Tokens
  <1>3. \A c \in Calls, i \in Invites :
           Holds(c, i)' => uses'[i] = 0 /\ (org' = "live" => invites'[i].state = "used")
    BY DEF Tokens
  <1>4. \A c, d \in Calls, i \in Invites : Holds(c, i)' /\ Holds(d, i)' => c = d
    BY DEF Tokens
  <1> QED
    BY <1>1, <1>2, <1>3, <1>4 DEF Tokens

\* An action that moves one request to a point without a token.
LEMMA KeepsOff ==
    ASSUME Typed, NEW c \in Calls, Moves(c, {"idle", "write", "dissolve", "leave", "consume",
                                              "consumeAgain"})
    PROVE  \A d \in Calls, i \in Invites : Holds(d, i)' => Holds(d, i)
  BY DEF Typed, Moves, Holds

\* Every action keeps the tokens with one holder.
LEMMA TokensStep ==
    ASSUME Typed, Settled, Tokens, [Next]_vars
    PROVE  Tokens'
  <1>1. CASE UNCHANGED vars
    BY <1>1 DEF vars, Tokens, Holds, Typed
  <1>2. ASSUME NEW u \in Users, Create(u) PROVE Tokens'
    <2>1. \A i \in Invites : uses'[i] = 0
      BY <1>2 DEF Create, Settled, Fresh
    <2>2. \A d \in Calls, i \in Invites : ~Holds(d, i)'
      BY <1>2 DEF Create, Settled, Fresh, Holds
    <2> QED
      BY <2>1, <2>2 DEF Tokens
  <1>3. ASSUME NEW i \in Invites, Lapse(i) PROVE Tokens'
    BY <1>3 DEF Lapse, Tokens, Holds, Typed
  <1>4. ASSUME NEW u \in Users, NEW i \in Invites, Revoke(u, i) PROVE Tokens'
    BY <1>4 DEF Revoke, Tokens, Holds, Typed
  <1>5. ASSUME NEW c \in Calls, NEW u \in Users, RemoveRead(c, u) PROVE Tokens'
    BY <1>5 DEF RemoveRead, Tokens, Holds, Typed, Starts, Idle
  <1>6. ASSUME NEW c \in Calls, NEW u \in Users, WindRead(c, u) PROVE Tokens'
    BY <1>6 DEF WindRead, Tokens, Holds, Typed, Starts, Idle
  <1>7. ASSUME NEW c \in Calls, NEW u \in Users, NEW t \in Users,
               NEW r \in Roles \union {None},
               ManageRead(c, u, t, r)
        PROVE  Tokens'
    BY <1>7 DEF ManageRead, Tokens, Holds, Typed, Starts, Idle, MANAGER_ROLES
  <1>8. ASSUME NEW c \in Calls, NEW u \in Users, NEW v \in Users, NEW r \in Roles,
               InviteCheck(c, u, v, r)
        PROVE  Tokens'
    BY <1>8 DEF InviteCheck, Tokens, Holds, Typed, Starts, Idle, MANAGER_ROLES
  <1>9. ASSUME NEW c \in Calls, NEW i \in Invites, InviteInsert(c, i) PROVE Tokens'
    BY <1>9 DEF InviteInsert, Tokens, Holds, Typed, Ends, Goes, Idle
  <1>10. ASSUME NEW c \in Calls, NEW i \in Invites, AcceptCheck(c, i) PROVE Tokens'
    <2>1. \A d \in Calls, j \in Invites : Holds(d, j)' => Holds(d, j)
      BY <1>10, MovesTo, KeepsOff DEF Moves
    <2> QED
      BY <1>10, <2>1, NobodyTakes DEF AcceptCheck
  <1>11. ASSUME NEW c \in Calls, RemoveDelete(c) PROVE Tokens'
    BY <1>11 DEF RemoveDelete, Tokens, Holds, Typed, DeleteOrg, Blank, Ends, Goes, Idle
  <1>12. ASSUME NEW c \in Calls, ManageCount(c) PROVE Tokens'
    <2>1. \A d \in Calls, j \in Invites : Holds(d, j)' => Holds(d, j)
      BY <1>12, MovesTo, KeepsOff DEF Moves
    <2> QED
      BY <1>12, <2>1, NobodyTakes DEF ManageCount
  <1>13. ASSUME NEW c \in Calls, ChangeMemberRole(c) PROVE Tokens'
    BY <1>13 DEF ChangeMemberRole, Tokens, Holds, Typed, TakesOwner, Ends, Goes, Idle
  <1>14. ASSUME NEW c \in Calls, RemoveMember(c) PROVE Tokens'
    BY <1>14 DEF RemoveMember, Tokens, Holds, Typed, TakesOwner, Ends, Goes, Idle
  <1>15. ASSUME NEW c \in Calls, AcceptConsume(c) PROVE Tokens'
    <2> DEFINE j == calls[c].invite
    <2>1. CASE ~Consumable(j)
      <3>1. \A d \in Calls, i \in Invites : Holds(d, i)' => Holds(d, i)
        BY <1>15, <2>1 DEF AcceptConsume, Ends, Goes, Idle, Holds, Typed
      <3> QED
        BY <1>15, <2>1, <3>1, NobodyTakes DEF AcceptConsume
    <2>2. CASE Consumable(j)
      <3>1. /\ invites' = [invites EXCEPT ![j].state = "used"]
            /\ UNCHANGED <<org, uses>>
        BY <1>15, <2>2 DEF AcceptConsume
      <3>2. calls' = [calls EXCEPT ![c].pc = IF @ = "consume" THEN "begin" ELSE "rejoin"]
        BY <1>15, <2>2 DEF AcceptConsume, Goes
      <3>3. \A i \in Invites : invites'[i].state = IF i = j THEN "used" ELSE invites[i].state
        BY <3>1 DEF Typed, InviteState
      <3>4. \A d \in Calls, i \in Invites : Holds(d, i)' => Holds(d, i) \/ (d = c /\ i = j)
        BY <3>2 DEF Holds, Typed
      <3>5. j \in Invites => org = "live" /\ uses[j] = 0 /\ \A d \in Calls : ~Holds(d, j)
        BY <2>2 DEF Consumable, Settled, Cascade, Pending, Tokens, Typed
      <3>6. \A i \in Invites : org' = "live" /\ uses'[i] > 0 => invites'[i].state = "used"
        BY <3>1, <3>3 DEF Tokens
      <3>7. \A d \in Calls, i \in Invites :
               Holds(d, i)' => uses'[i] = 0 /\ (org' = "live" => invites'[i].state = "used")
        BY <3>1, <3>3, <3>4, <3>5 DEF Tokens
      <3>8. \A d, e \in Calls, i \in Invites : Holds(d, i)' /\ Holds(e, i)' => d = e
        BY <3>4, <3>5 DEF Tokens
      <3> QED
        BY <3>1, <3>6, <3>7, <3>8 DEF Tokens
    <2> QED
      BY <2>1, <2>2
  <1>16. ASSUME NEW c \in Calls, AcceptRejoin(c) PROVE Tokens'
    BY <1>16 DEF AcceptRejoin, Tokens, Holds, Typed, Joins, Ends, Goes, Idle
  <1>17. ASSUME NEW c \in Calls, AcceptBegin(c) PROVE Tokens'
    BY <1>17 DEF AcceptBegin, Tokens, Holds, Typed, Goes
  <1>18. ASSUME NEW c \in Calls, AcceptCommit(c) PROVE Tokens'
    BY <1>18 DEF AcceptCommit, Tokens, Holds, Typed, Joins, Fits, Idle
  <1>19. ASSUME NEW c \in Calls, WindCount(c) PROVE Tokens'
    <2>1. \A d \in Calls, j \in Invites : Holds(d, j)' => Holds(d, j)
      BY <1>19, MovesTo, KeepsOff DEF Moves
    <2> QED
      BY <1>19, <2>1, NobodyTakes DEF WindCount
  <1>20. ASSUME NEW c \in Calls, WindAlone(c) PROVE Tokens'
    BY <1>20 DEF WindAlone, Tokens, Holds, Typed, Ends, Goes, Idle
  <1>21. ASSUME NEW c \in Calls, Dissolve(c) PROVE Tokens'
    BY <1>21 DEF Dissolve, Tokens, Holds, Typed, DeleteOrg, Blank, Ends, Goes, Idle
  <1>22. ASSUME NEW c \in Calls, Leave(c) PROVE Tokens'
    BY <1>22 DEF Leave, Tokens, Holds, Typed, TakesOwner, Ends, Goes, Idle
  <1>23. ASSUME NEW c \in Calls, Fails(c) PROVE Tokens'
    BY <1>23 DEF Fails, Tokens, Holds, Typed, Ends, Goes, Idle
  <1> QED
    BY <1>1, <1>2, <1>3, <1>4, <1>5, <1>6, <1>7, <1>8, <1>9, <1>10, <1>11, <1>12, <1>13, <1>14,
       <1>15, <1>16, <1>17, <1>18, <1>19, <1>20, <1>21, <1>22, <1>23 DEF Next

-----------------------------------------------------------------------------------
(* Seats.                                                                         *)

\* The members can be counted.
LEMMA MembersFinite ==
    ASSUME NEW S \in SUBSET Users
    PROVE  IsFiniteSet(S) /\ Cardinality(S) \in Nat
  BY Bounds, FS_Subset, FS_CardinalityType

\* A transaction with no concurrent insert since its snapshot has seen all members.
Counted ==
    ~putBack => /\ Cardinality(Members) <= MaxSeats
                /\ \A c \in Calls : calls[c].pc = "commit" /\ ~calls[c].conflict
                                      => Members \subseteq calls[c].members

\* A step after which there are no new members and no new transactions.
LEMMA NobodyJoins ==
    ASSUME Typed, Counted, Members' \subseteq Members, putBack' = putBack,
           \A d \in Calls : calls'[d].pc = "commit" /\ ~calls'[d].conflict =>
               /\ calls[d].pc = "commit" /\ ~calls[d].conflict
               /\ calls'[d].members = calls[d].members
    PROVE  Counted'
  <1>1. Members \subseteq Users
    BY DEF Members
  <1>2. Cardinality(Members') <= Cardinality(Members) /\ Cardinality(Members') \in Nat
             /\ Cardinality(Members) \in Nat
    BY <1>1, MembersFinite, FS_Subset, FS_CardinalityType
  <1>3. ~putBack' => Cardinality(Members') <= MaxSeats
    BY <1>2, Bounds DEF Counted
  <1> QED
    BY <1>3 DEF Counted

\* A request begins, goes on or ends outside of the transaction.
LEMMA NoCommit ==
    ASSUME Typed, NEW c \in Calls, Moves(c, {"idle", "write", "dissolve", "leave", "begin",
                                              "rejoin", "consume", "consumeAgain"})
    PROVE  \A d \in Calls : calls'[d].pc = "commit" /\ ~calls'[d].conflict =>
               /\ calls[d].pc = "commit" /\ ~calls[d].conflict
               /\ calls'[d].members = calls[d].members
  BY DEF Typed, Moves

\* Every action keeps the members counted.
LEMMA CountedStep ==
    ASSUME Typed, Settled, Counted, [Next]_vars
    PROVE  Counted'
  <1>1. CASE UNCHANGED vars
    BY <1>1 DEF vars, Counted, Members
  <1>2. ASSUME NEW u \in Users, Create(u) PROVE Counted'
    <2>1. \A d \in Calls : calls'[d].pc = "idle"
      BY <1>2 DEF Create, Settled, Fresh
    <2>2. Members' = {u}
      BY <1>2, Bounds DEF Create, Settled, Cascade, Members, Typed
    <2>3. Cardinality(Members') = 1
      BY <2>2, FS_Singleton
    <2> QED
      BY <2>1, <2>3, Bounds DEF Counted
  <1>3. ASSUME NEW i \in Invites, Lapse(i) PROVE Counted'
    BY <1>3, NobodyJoins DEF Lapse, Typed, Members
  <1>4. ASSUME NEW u \in Users, NEW i \in Invites, Revoke(u, i) PROVE Counted'
    BY <1>4, NobodyJoins DEF Revoke, Typed, Members
  <1>5. ASSUME NEW c \in Calls, NEW u \in Users, RemoveRead(c, u) PROVE Counted'
    BY <1>5, NobodyJoins DEF RemoveRead, Typed, Members, Starts, Idle
  <1>6. ASSUME NEW c \in Calls, NEW u \in Users, WindRead(c, u) PROVE Counted'
    BY <1>6, NobodyJoins DEF WindRead, Typed, Members, Starts, Idle
  <1>7. ASSUME NEW c \in Calls, NEW u \in Users, NEW t \in Users,
               NEW r \in Roles \union {None},
               ManageRead(c, u, t, r)
        PROVE  Counted'
    BY <1>7, NobodyJoins DEF ManageRead, Typed, Members, Starts, Idle, MANAGER_ROLES
  <1>8. ASSUME NEW c \in Calls, NEW u \in Users, NEW v \in Users, NEW r \in Roles,
               InviteCheck(c, u, v, r)
        PROVE  Counted'
    BY <1>8, NobodyJoins DEF InviteCheck, Typed, Members, Starts, Idle, MANAGER_ROLES
  <1>9. ASSUME NEW c \in Calls, NEW i \in Invites, InviteInsert(c, i) PROVE Counted'
    BY <1>9, NobodyJoins DEF InviteInsert, Typed, Members, Ends, Goes, Idle
  <1>10. ASSUME NEW c \in Calls, NEW i \in Invites, AcceptCheck(c, i) PROVE Counted'
    BY <1>10, NobodyJoins DEF AcceptCheck, Typed, Members, Starts, Idle
  <1>11. ASSUME NEW c \in Calls, RemoveDelete(c) PROVE Counted'
    BY <1>11, NobodyJoins DEF RemoveDelete, Typed, Members, DeleteOrg, Blank, Ends, Goes, Idle
  <1>12. ASSUME NEW c \in Calls, ManageCount(c) PROVE Counted'
    <2>1. Moves(c, {"idle", "write", "dissolve", "leave", "begin", "rejoin", "consume",
                   "consumeAgain"})
      BY <1>12, MovesTo DEF Moves
    <2> QED
      BY <1>12, <2>1, NoCommit, NobodyJoins DEF ManageCount, Members
  <1>13. ASSUME NEW c \in Calls, ChangeMemberRole(c) PROVE Counted'
    BY <1>13, NobodyJoins DEF ChangeMemberRole, Typed, Members, TakesOwner, Ends, Goes, Idle
  <1>14. ASSUME NEW c \in Calls, RemoveMember(c) PROVE Counted'
    BY <1>14, NobodyJoins DEF RemoveMember, Typed, Members, TakesOwner, Ends, Goes, Idle
  <1>15. ASSUME NEW c \in Calls, AcceptConsume(c) PROVE Counted'
    <2>1. Moves(c, {"idle", "write", "dissolve", "leave", "begin", "rejoin", "consume",
                   "consumeAgain"})
      BY <1>15, MovesTo DEF Moves
    <2> QED
      BY <1>15, <2>1, NoCommit, NobodyJoins DEF AcceptConsume, Members
  <1>16. ASSUME NEW c \in Calls, AcceptRejoin(c) PROVE Counted'
    <2>1. CASE role[calls[c].by] = None
      BY <1>16, <2>1 DEF AcceptRejoin, Counted
    <2>2. CASE role[calls[c].by] # None
      BY <1>16, <2>2, NobodyJoins DEF AcceptRejoin, Members, Typed, Ends, Goes, Idle
    <2> QED
      BY <2>1, <2>2
  <1>17. ASSUME NEW c \in Calls, AcceptBegin(c) PROVE Counted'
    <2>1. /\ calls' = [calls EXCEPT ![c] = [calls[c] EXCEPT !.pc = "commit",
                             !.members = Members, !.moved = Members # calls[c].members]]
          /\ UNCHANGED <<role, putBack>>
      BY <1>17 DEF AcceptBegin, Goes
    <2>2. calls'[c].members = Members
      BY <2>1 DEF Typed, Requests, CallState
    <2>3. \A d \in Calls \ {c} : calls'[d] = calls[d]
      BY <2>1 DEF Typed
    <2>4. Members' = Members
      BY <2>1 DEF Members
    <2> QED
      BY <2>1, <2>2, <2>3, <2>4 DEF Counted
  <1>18. ASSUME NEW c \in Calls, AcceptCommit(c) PROVE Counted'
    <2> DEFINE k == calls[c]
    <2>1. /\ k.pc = "commit" /\ Fits(k) /\ UNCHANGED putBack
          /\ role' = [role EXCEPT ![k.by] = k.role]
      BY <1>18 DEF AcceptCommit, Joins
    <2>2. k.members \in SUBSET Users /\ k.by \in Users \union {Nobody}
      BY DEF Typed, Requests, CallState
    <2>3. Members' \subseteq Members \union {k.by}
      BY <2>1 DEF Members, Typed
    <2>4. ~putBack => Cardinality(Members') <= MaxSeats
      <3>1. IsFiniteSet(k.members \union {k.by}) /\ Cardinality(k.members \union {k.by}) \in Nat
        BY <2>2, MembersFinite, FS_AddElement, FS_CardinalityType
      <3>2. ~putBack => Members' \subseteq k.members \union {k.by}
        BY <2>1, <2>3 DEF Counted, Fits
      <3>3. ~putBack => Cardinality(Members') <= Cardinality(k.members \union {k.by})
                          /\ Cardinality(Members') \in Nat
        BY <3>1, <3>2, FS_Subset, FS_CardinalityType
      <3> QED
        BY <2>1, <3>1, <3>3, Bounds DEF Fits
    <2>5. ASSUME NEW d \in Calls PROVE ~(calls'[d].pc = "commit" /\ ~calls'[d].conflict)
      <3>1. calls[d] \in CallState /\ Idle.pc = "idle"
        BY DEF Typed, Requests, Idle
      <3>2. CASE d = c
        BY <1>18, <3>1, <3>2 DEF AcceptCommit
      <3>3. CASE d # c
        <4>1. calls'[d] = [calls[d] EXCEPT !.conflict = @ \/ calls[d].pc = "commit"]
          BY <1>18, <3>3 DEF AcceptCommit
        <4> QED
          BY <3>1, <4>1 DEF CallState
      <3> QED
        BY <3>2, <3>3
    <2> QED
      BY <2>1, <2>4, <2>5 DEF Counted
  <1>19. ASSUME NEW c \in Calls, WindCount(c) PROVE Counted'
    <2>1. Moves(c, {"idle", "write", "dissolve", "leave", "begin", "rejoin", "consume",
                   "consumeAgain"})
      BY <1>19, MovesTo DEF Moves
    <2> QED
      BY <1>19, <2>1, NoCommit, NobodyJoins DEF WindCount, Members
  <1>20. ASSUME NEW c \in Calls, WindAlone(c) PROVE Counted'
    BY <1>20, NobodyJoins DEF WindAlone, Typed, Members, Ends, Goes, Idle
  <1>21. ASSUME NEW c \in Calls, Dissolve(c) PROVE Counted'
    BY <1>21, NobodyJoins DEF Dissolve, Typed, Members, DeleteOrg, Blank, Ends, Goes, Idle
  <1>22. ASSUME NEW c \in Calls, Leave(c) PROVE Counted'
    BY <1>22, NobodyJoins DEF Leave, Typed, Members, TakesOwner, Ends, Goes, Idle
  <1>23. ASSUME NEW c \in Calls, Fails(c) PROVE Counted'
    BY <1>23, NobodyJoins DEF Fails, Typed, Members, Ends, Goes, Idle
  <1> QED
    BY <1>1, <1>2, <1>3, <1>4, <1>5, <1>6, <1>7, <1>8, <1>9, <1>10, <1>11, <1>12, <1>13, <1>14,
       <1>15, <1>16, <1>17, <1>18, <1>19, <1>20, <1>21, <1>22, <1>23 DEF Next

-----------------------------------------------------------------------------------
(* The seat behind a consumed invite.                                             *)

Bought ==
    \A c \in Calls :
        \/ calls[c].pc \in {"consume", "begin"}
        \/ calls[c].pc = "commit" /\ ~calls[c].moved
        => Cardinality(calls[c].members) < MaxSeats

\* Requests that keep what they have counted.
LEMMA NobodyBuys ==
    ASSUME Typed, Bought, NEW c \in Calls,
           Moves(c, {"idle", "write", "dissolve", "leave", "rejoin", "consumeAgain"})
    PROVE  Bought'
  BY DEF Typed, Moves, Bought

\* Every action keeps the seat that was free.
LEMMA BoughtStep ==
    ASSUME Typed, Bought, [Next]_vars
    PROVE  Bought'
  <1>1. CASE UNCHANGED vars
    BY <1>1 DEF vars, Typed, Bought
  <1>2. ASSUME NEW u \in Users, Create(u) PROVE Bought'
    BY <1>2 DEF Create, Typed, Bought
  <1>3. ASSUME NEW i \in Invites, Lapse(i) PROVE Bought'
    BY <1>3 DEF Lapse, Typed, Bought
  <1>4. ASSUME NEW u \in Users, NEW i \in Invites, Revoke(u, i) PROVE Bought'
    BY <1>4 DEF Revoke, Typed, Bought
  <1>5. ASSUME NEW c \in Calls, NEW u \in Users, RemoveRead(c, u) PROVE Bought'
    BY <1>5 DEF RemoveRead, Typed, Bought, Starts, Idle
  <1>6. ASSUME NEW c \in Calls, NEW u \in Users, WindRead(c, u) PROVE Bought'
    BY <1>6 DEF WindRead, Typed, Bought, Starts, Idle
  <1>7. ASSUME NEW c \in Calls, NEW u \in Users, NEW t \in Users,
               NEW r \in Roles \union {None},
               ManageRead(c, u, t, r)
        PROVE  Bought'
    BY <1>7 DEF ManageRead, Typed, Bought, Starts, Idle, MANAGER_ROLES
  <1>8. ASSUME NEW c \in Calls, NEW u \in Users, NEW v \in Users, NEW r \in Roles,
               InviteCheck(c, u, v, r)
        PROVE  Bought'
    BY <1>8 DEF InviteCheck, Typed, Bought, Starts, Idle, MANAGER_ROLES
  <1>9. ASSUME NEW c \in Calls, NEW i \in Invites, InviteInsert(c, i) PROVE Bought'
    BY <1>9 DEF InviteInsert, Typed, Bought, Ends, Goes, Idle
  <1>10. ASSUME NEW c \in Calls, NEW i \in Invites, AcceptCheck(c, i) PROVE Bought'
    <2> DEFINE a == [Idle EXCEPT !.pc = "consumeAgain", !.by = invites[i].to, !.invite = i,
                                 !.role = invites[i].role]
               b == [Idle EXCEPT !.pc = "consume", !.by = invites[i].to, !.invite = i,
                                 !.role = invites[i].role, !.members = Members]
    <2>1. a.pc = "consumeAgain" /\ b.members = Members
      BY DEF Idle
    <2>2. \/ calls' = [calls EXCEPT ![c] = a]
          \/ calls' = [calls EXCEPT ![c] = b] /\ Cardinality(Members) < MaxSeats
      BY <1>10 DEF AcceptCheck, Starts, CanAddSeat
    <2> HIDE DEF a, b
    <2> QED
      BY <2>1, <2>2 DEF Bought, Typed
  <1>11. ASSUME NEW c \in Calls, RemoveDelete(c) PROVE Bought'
    BY <1>11 DEF RemoveDelete, Typed, Bought, DeleteOrg, Blank, Ends, Goes, Idle
  <1>12. ASSUME NEW c \in Calls, ManageCount(c) PROVE Bought'
    <2>1. Moves(c, {"idle", "write", "dissolve", "leave", "rejoin", "consumeAgain"})
      BY <1>12, MovesTo DEF Moves
    <2> QED
      BY <2>1, NobodyBuys
  <1>13. ASSUME NEW c \in Calls, ChangeMemberRole(c) PROVE Bought'
    BY <1>13 DEF ChangeMemberRole, Typed, Bought, TakesOwner, Ends, Goes, Idle
  <1>14. ASSUME NEW c \in Calls, RemoveMember(c) PROVE Bought'
    BY <1>14 DEF RemoveMember, Typed, Bought, TakesOwner, Ends, Goes, Idle
  <1>15. ASSUME NEW c \in Calls, AcceptConsume(c) PROVE Bought'
    <2> DEFINE k == [calls[c] EXCEPT !.pc = IF @ = "consume" THEN "begin" ELSE "rejoin"]
    <2>1. calls[c] \in CallState /\ Idle.pc = "idle"
      BY DEF Typed, Requests, Idle
    <2>2. /\ calls[c].pc \in {"consume", "consumeAgain"}
          /\ calls' = [calls EXCEPT ![c] = k] \/ calls' = [calls EXCEPT ![c] = Idle]
      BY <1>15 DEF AcceptConsume, Goes, Ends
    <2>3. /\ k.members = calls[c].members
          /\ k.pc = IF calls[c].pc = "consume" THEN "begin" ELSE "rejoin"
      BY <2>1 DEF CallState
    <2> HIDE DEF k
    <2> QED
      BY <2>1, <2>2, <2>3 DEF Bought, Typed
  <1>16. ASSUME NEW c \in Calls, AcceptRejoin(c) PROVE Bought'
    BY <1>16 DEF AcceptRejoin, Typed, Bought, Joins, Ends, Goes, Idle
  <1>17. ASSUME NEW c \in Calls, AcceptBegin(c) PROVE Bought'
    <2> DEFINE k == [calls[c] EXCEPT !.pc = "commit", !.members = Members,
                                     !.moved = Members # calls[c].members]
    <2>1. calls[c] \in CallState
      BY DEF Typed, Requests
    <2>2. calls[c].pc = "begin" /\ calls' = [calls EXCEPT ![c] = k]
      BY <1>17 DEF AcceptBegin, Goes
    <2>3. /\ k.pc = "commit" /\ k.members = Members
          /\ k.moved = (Members # calls[c].members)
      BY <2>1 DEF CallState
    <2> HIDE DEF k
    <2> QED
      BY <2>2, <2>3 DEF Bought, Typed
  <1>18. ASSUME NEW c \in Calls, AcceptCommit(c) PROVE Bought'
    <2>1. ASSUME NEW d \in Calls
          PROVE  \/ calls'[d].pc = "idle"
                 \/ /\ calls'[d].pc = calls[d].pc /\ calls'[d].moved = calls[d].moved
                    /\ calls'[d].members = calls[d].members
      <3>1. calls[d] \in CallState /\ Idle.pc = "idle"
        BY DEF Typed, Requests, Idle
      <3>2. calls'[d] = IF d = c THEN Idle
                        ELSE [calls[d] EXCEPT !.conflict = @ \/ calls[d].pc = "commit"]
        BY <1>18 DEF AcceptCommit
      <3> QED
        BY <3>1, <3>2 DEF CallState
    <2> QED
      BY <2>1 DEF Bought
  <1>19. ASSUME NEW c \in Calls, WindCount(c) PROVE Bought'
    <2>1. Moves(c, {"idle", "write", "dissolve", "leave", "rejoin", "consumeAgain"})
      BY <1>19, MovesTo DEF Moves
    <2> QED
      BY <2>1, NobodyBuys
  <1>20. ASSUME NEW c \in Calls, WindAlone(c) PROVE Bought'
    BY <1>20 DEF WindAlone, Typed, Bought, Ends, Goes, Idle
  <1>21. ASSUME NEW c \in Calls, Dissolve(c) PROVE Bought'
    BY <1>21 DEF Dissolve, Typed, Bought, DeleteOrg, Blank, Ends, Goes, Idle
  <1>22. ASSUME NEW c \in Calls, Leave(c) PROVE Bought'
    BY <1>22 DEF Leave, Typed, Bought, TakesOwner, Ends, Goes, Idle
  <1>23. ASSUME NEW c \in Calls, Fails(c) PROVE Bought'
    BY <1>23 DEF Fails, Typed, Bought, Ends, Goes, Idle
  <1> QED
    BY <1>1, <1>2, <1>3, <1>4, <1>5, <1>6, <1>7, <1>8, <1>9, <1>10, <1>11, <1>12, <1>13, <1>14,
       <1>15, <1>16, <1>17, <1>18, <1>19, <1>20, <1>21, <1>22, <1>23 DEF Next

-----------------------------------------------------------------------------------
(* The last superadmin.                                                           *)

\* A request that goes on to take the role from a superadmin has counted two.
Guarded ==
    /\ \A c \in Calls : calls[c].owners = {} \/ Cardinality(calls[c].owners) > 1
    /\ org = "live" /\ ~overtaken => Owners # {}

\* A request whose place is taken by one that has counted none, or more than one.
LEMMA StillGuarded ==
    ASSUME Typed, Guarded, NEW c \in Calls, NEW k, calls' = [calls EXCEPT ![c] = k],
           k.owners = {} \/ Cardinality(k.owners) > 1,
           org' = "live" /\ ~overtaken' => Owners' # {}
    PROVE  Guarded'
  BY DEF Typed, Guarded

\* The others are left when one of several superadmins goes.
LEMMA OthersLeft ==
    ASSUME NEW u, Cardinality(Owners) > 1
    PROVE  Owners \ {u} # {}
  <1>1. SUFFICES ASSUME Owners \subseteq {u} PROVE FALSE
    OBVIOUS
  <1>2. IsFiniteSet({u}) /\ Cardinality({u}) = 1
    BY FS_Singleton
  <1>3. Cardinality(Owners) <= 1 /\ Cardinality(Owners) \in Nat
    BY <1>1, <1>2, FS_Subset, FS_CardinalityType
  <1> QED
    BY <1>3

\* Taking the role from somebody leaves a superadmin, unless the request was overtaken.
LEMMA OwnerTaken ==
    ASSUME Typed, Guarded, NEW c \in Calls, UNCHANGED org, NEW u,
           TakesOwner(u, calls[c]), Owners \ {u} \subseteq Owners',
           u \notin Owners => Owners \subseteq Owners'
    PROVE  org' = "live" /\ ~overtaken' => Owners' # {}
  <1>1. SUFFICES ASSUME org' = "live", ~overtaken' PROVE Owners' # {}
    OBVIOUS
  <1>2. ~overtaken /\ Owners # {}
    BY <1>1 DEF TakesOwner, Guarded, Typed
  <1>3. CASE u \notin Owners
    BY <1>2, <1>3
  <1>4. CASE u \in Owners
    <2>1. Owners = calls[c].owners
      BY <1>1, <1>4 DEF TakesOwner
    <2>2. Cardinality(Owners) > 1
      BY <1>2, <2>1 DEF Guarded
    <2> QED
      BY <2>2, OthersLeft
  <1> QED
    BY <1>3, <1>4

\* Every action keeps a superadmin, or a request has gone by an old count.
LEMMA GuardedStep ==
    ASSUME Typed, Settled, Guarded, [Next]_vars
    PROVE  Guarded'
  <1>1. CASE UNCHANGED vars
    BY <1>1 DEF vars, Typed, Guarded, Owners
  <1>2. ASSUME NEW u \in Users, Create(u) PROVE Guarded'
    BY <1>2, Bounds DEF Create, Typed, Guarded, Owners
  <1>3. ASSUME NEW i \in Invites, Lapse(i) PROVE Guarded'
    BY <1>3, Bounds DEF Lapse, Typed, Guarded, Owners
  <1>4. ASSUME NEW u \in Users, NEW i \in Invites, Revoke(u, i) PROVE Guarded'
    BY <1>4, Bounds DEF Revoke, Typed, Guarded, Owners
  <1>5. ASSUME NEW c \in Calls, NEW u \in Users, RemoveRead(c, u) PROVE Guarded'
    BY <1>5, Bounds DEF RemoveRead, Typed, Guarded, Owners, Starts, Idle
  <1>6. ASSUME NEW c \in Calls, NEW u \in Users, WindRead(c, u) PROVE Guarded'
    BY <1>6, Bounds DEF WindRead, Typed, Guarded, Owners, Starts, Idle
  <1>7. ASSUME NEW c \in Calls, NEW u \in Users, NEW t \in Users,
               NEW r \in Roles \union {None},
               ManageRead(c, u, t, r)
        PROVE  Guarded'
    BY <1>7, Bounds DEF ManageRead, Typed, Guarded, Owners, Starts, Idle, MANAGER_ROLES
  <1>8. ASSUME NEW c \in Calls, NEW u \in Users, NEW v \in Users, NEW r \in Roles,
               InviteCheck(c, u, v, r)
        PROVE  Guarded'
    BY <1>8, Bounds DEF InviteCheck, Typed, Guarded, Owners, Starts, Idle, MANAGER_ROLES
  <1>9. ASSUME NEW c \in Calls, NEW i \in Invites, InviteInsert(c, i) PROVE Guarded'
    BY <1>9, Bounds DEF InviteInsert, Typed, Guarded, Owners, Ends, Goes, Idle
  <1>10. ASSUME NEW c \in Calls, NEW i \in Invites, AcceptCheck(c, i) PROVE Guarded'
    <2>1. org' = "live" /\ ~overtaken' => Owners' # {}
      BY <1>10 DEF AcceptCheck, Guarded, Owners
    <2> DEFINE a == [Idle EXCEPT !.pc = "consumeAgain", !.by = invites[i].to, !.invite = i,
                                 !.role = invites[i].role]
               b == [Idle EXCEPT !.pc = "consume", !.by = invites[i].to, !.invite = i,
                                 !.role = invites[i].role, !.members = Members]
    <2>2. a.owners = {} /\ b.owners = {}
      BY DEF Idle
    <2>3. calls' = [calls EXCEPT ![c] = a] \/ calls' = [calls EXCEPT ![c] = b]
      BY <1>10 DEF AcceptCheck, Starts
    <2> HIDE DEF a, b
    <2> QED
      BY <2>1, <2>2, <2>3, StillGuarded
  <1>11. ASSUME NEW c \in Calls, RemoveDelete(c) PROVE Guarded'
    BY <1>11, Bounds DEF RemoveDelete, Typed, Guarded, Owners, DeleteOrg, Blank, Ends, Goes,
       Idle
  <1>12. ASSUME NEW c \in Calls, ManageCount(c) PROVE Guarded'
    <2>1. org' = "live" /\ ~overtaken' => Owners' # {}
      BY <1>12 DEF ManageCount, Guarded, Owners
    <2> DEFINE k == [calls[c] EXCEPT !.pc = "write", !.owners = Owners]
    <2>2. k.owners = Owners /\ Idle.owners = {}
      BY DEF Typed, Requests, CallState, Idle
    <2>3. \/ Cardinality(Owners) > 1 /\ calls' = [calls EXCEPT ![c] = k]
          \/ calls' = [calls EXCEPT ![c] = Idle]
      BY <1>12 DEF ManageCount, NotLastSuperadmin, Goes, Ends
    <2> HIDE DEF k
    <2> QED
      BY <2>1, <2>2, <2>3, StillGuarded
  <1>13. ASSUME NEW c \in Calls, ChangeMemberRole(c) PROVE Guarded'
    <2> DEFINE k == calls[c]
    <2>1. calls' = [calls EXCEPT ![c] = Idle] /\ Idle.owners = {}
      BY <1>13 DEF ChangeMemberRole, Ends, Goes, Idle
    <2>3. role' = [role EXCEPT ![k.target] = k.role] /\ UNCHANGED org
      BY <1>13 DEF ChangeMemberRole
    <2>4. CASE k.target \notin Users \/ k.role = Superadmin
      <3>1. Owners \subseteq Owners' /\ (~overtaken' => ~overtaken)
        BY <1>13, <2>3, <2>4 DEF ChangeMemberRole, TakesOwner, Owners, Typed
      <3>2. org' = "live" /\ ~overtaken' => Owners' # {}
        BY <2>3, <3>1 DEF Guarded
      <3> QED
        BY <2>1, <3>2, StillGuarded
    <2>5. CASE k.target \in Users /\ k.role # Superadmin
      <3>1. TakesOwner(k.target, k)
        BY <1>13, <2>5 DEF ChangeMemberRole
      <3>2. /\ Owners \ {k.target} \subseteq Owners'
            /\ k.target \notin Owners => Owners \subseteq Owners'
        BY <2>3 DEF Owners, Typed
      <3>3. org' = "live" /\ ~overtaken' => Owners' # {}
        BY <2>3, <3>1, <3>2, OwnerTaken
      <3> QED
        BY <2>1, <3>3, StillGuarded
    <2> QED
      BY <2>4, <2>5
  <1>14. ASSUME NEW c \in Calls, RemoveMember(c) PROVE Guarded'
    <2> DEFINE k == calls[c]
    <2>1. calls' = [calls EXCEPT ![c] = Idle] /\ Idle.owners = {}
      BY <1>14 DEF RemoveMember, Ends, Goes, Idle
    <2>2. role' = [role EXCEPT ![k.target] = None] /\ UNCHANGED org /\ TakesOwner(k.target, k)
      BY <1>14 DEF RemoveMember
    <2>3. /\ Owners \ {k.target} \subseteq Owners'
          /\ k.target \notin Owners => Owners \subseteq Owners'
      BY <2>2 DEF Owners, Typed
    <2>4. org' = "live" /\ ~overtaken' => Owners' # {}
      BY <2>2, <2>3, OwnerTaken
    <2> QED
      BY <2>1, <2>4, StillGuarded
  <1>15. ASSUME NEW c \in Calls, AcceptConsume(c) PROVE Guarded'
    <2>1. org' = "live" /\ ~overtaken' => Owners' # {}
      BY <1>15 DEF AcceptConsume, Guarded, Owners
    <2> DEFINE k == [calls[c] EXCEPT !.pc = IF @ = "consume" THEN "begin" ELSE "rejoin"]
    <2>2. k.owners = calls[c].owners /\ Idle.owners = {}
      BY DEF Typed, Requests, CallState, Idle
    <2>3. calls' = [calls EXCEPT ![c] = k] \/ calls' = [calls EXCEPT ![c] = Idle]
      BY <1>15 DEF AcceptConsume, Goes, Ends
    <2> HIDE DEF k
    <2> QED
      BY <2>1, <2>2, <2>3, StillGuarded DEF Guarded
  <1>16. ASSUME NEW c \in Calls, AcceptRejoin(c) PROVE Guarded'
    BY <1>16, Bounds DEF AcceptRejoin, Typed, Guarded, Owners, Joins, Ends, Goes, Idle
  <1>17. ASSUME NEW c \in Calls, AcceptBegin(c) PROVE Guarded'
    BY <1>17, Bounds DEF AcceptBegin, Typed, Guarded, Owners, Goes
  <1>18. ASSUME NEW c \in Calls, AcceptCommit(c) PROVE Guarded'
    BY <1>18, Bounds DEF AcceptCommit, Typed, Guarded, Owners, Joins, Fits, Idle
  <1>19. ASSUME NEW c \in Calls, WindCount(c) PROVE Guarded'
    <2>1. org' = "live" /\ ~overtaken' => Owners' # {}
      BY <1>19 DEF WindCount, Guarded, Owners
    <2> DEFINE a == [calls[c] EXCEPT !.pc = "dissolve"]
               b == [calls[c] EXCEPT !.pc = "leave",
                        !.owners = IF calls[c].role = Superadmin THEN Owners ELSE {}]
    <2>2. /\ a.owners = calls[c].owners
          /\ b.owners = IF calls[c].role = Superadmin THEN Owners ELSE {}
      BY DEF Typed, Requests, CallState
    <2>3. \/ calls' = [calls EXCEPT ![c] = a]
          \/ /\ calls[c].role = Superadmin => Cardinality(Owners) > 1
             /\ calls' = [calls EXCEPT ![c] = b]
      BY <1>19 DEF WindCount, NotLastSuperadmin, Goes
    <2> HIDE DEF a, b
    <2> QED
      BY <2>1, <2>2, <2>3, StillGuarded DEF Guarded
  <1>20. ASSUME NEW c \in Calls, WindAlone(c) PROVE Guarded'
    BY <1>20, Bounds DEF WindAlone, Typed, Guarded, Owners, Ends, Goes, Idle
  <1>21. ASSUME NEW c \in Calls, Dissolve(c) PROVE Guarded'
    BY <1>21, Bounds DEF Dissolve, Typed, Guarded, Owners, DeleteOrg, Blank, Ends, Goes, Idle
  <1>22. ASSUME NEW c \in Calls, Leave(c) PROVE Guarded'
    <2> DEFINE k == calls[c]
    <2>1. calls' = [calls EXCEPT ![c] = Idle] /\ Idle.owners = {}
      BY <1>22 DEF Leave, Ends, Goes, Idle
    <2>2. role' = [role EXCEPT ![k.by] = None] /\ UNCHANGED org /\ TakesOwner(k.by, k)
      BY <1>22 DEF Leave
    <2>3. /\ Owners \ {k.by} \subseteq Owners'
          /\ k.by \notin Owners => Owners \subseteq Owners'
      BY <2>2 DEF Owners, Typed
    <2>4. org' = "live" /\ ~overtaken' => Owners' # {}
      BY <2>2, <2>3, OwnerTaken
    <2> QED
      BY <2>1, <2>4, StillGuarded
  <1>23. ASSUME NEW c \in Calls, Fails(c) PROVE Guarded'
    BY <1>23, Bounds DEF Fails, Typed, Guarded, Owners, Ends, Goes, Idle
  <1> QED
    BY <1>1, <1>2, <1>3, <1>4, <1>5, <1>6, <1>7, <1>8, <1>9, <1>10, <1>11, <1>12, <1>13, <1>14,
       <1>15, <1>16, <1>17, <1>18, <1>19, <1>20, <1>21, <1>22, <1>23 DEF Next

-----------------------------------------------------------------------------------
(* The inductive invariant, and the theorems.                                     *)

Inv == Typed /\ Settled /\ Tokens /\ Counted /\ Bought /\ Guarded

\* At first there is no workspace, no invite and no request.
LEMMA InitInv ==
    ASSUME Init
    PROVE  Inv
  <1>1. Members = {} /\ Pending = {}
    BY DEF Init, Members, Pending, Blank
  <1>2. \A c \in Calls : calls[c] = Idle
    BY DEF Init
  <1>3. Idle.pc = "idle" /\ Idle.owners = {}
    BY DEF Idle
  <1>4. Typed
    <2>1. role \in [Users -> Roles \union {None}]
      BY DEF Init
    <2>2. invites \in [Invites -> InviteState]
      BY Bounds DEF Init, Blank, InviteState
    <2>3. calls \in [Calls -> Requests]
      BY IdleType DEF Init
    <2> QED
      BY <2>1, <2>2, <2>3 DEF Init, Typed
  <1>5. Settled
    BY <1>1, <1>2, <1>3 DEF Init, Settled, Cascade, Fresh, Blank
  <1>6. Tokens
    BY <1>2, <1>3 DEF Init, Tokens, Holds
  <1>7. Counted
    BY <1>1, <1>2, <1>3, Bounds, FS_EmptySet DEF Counted
  <1>8. Bought
    BY <1>2, <1>3 DEF Bought
  <1>9. Guarded
    BY <1>2, <1>3 DEF Init, Guarded
  <1> QED
    BY <1>4, <1>5, <1>6, <1>7, <1>8, <1>9 DEF Inv

\* No action, and no stuttering, breaks a part.
LEMMA InvStep == Inv /\ [Next]_vars => Inv'
  BY TypedStep, SettledStep, TokensStep, CountedStep, BoughtStep, GuardedStep DEF Inv

\* So the invariant holds in every behaviour.
LEMMA InvAlways == Spec => []Inv
  BY InitInv, InvStep, PTL DEF Spec

\* Every reachable state is well typed, and a workspace that is not live has neither
\* members nor pending invites (the cascading foreign keys).
THEOREM TypeCorrect == Spec => []TypeOK
  <1>1. Inv => TypeOK
    BY TypeParts DEF Inv, Settled
  <1> QED BY <1>1, InvAlways, PTL

\* The conditional update of accept lets any number of concurrent accepts make at most
\* one membership out of one invite.
THEOREM InvitesUsedOnce == Spec => []SingleUse
  <1>1. Inv => SingleUse
    BY DEF Inv, Tokens, SingleUse
  <1> QED BY <1>1, InvAlways, PTL

\* The serialisable recount keeps any number of racing accepts within the seats, unless
\* somebody came back through the path without a recount.
THEOREM SeatsHold == Spec => []SeatsWithinCap
  <1>1. Inv => SeatsWithinCap
    BY DEF Inv, Counted, SeatsWithinCap
  <1> QED BY <1>1, InvAlways, PTL

\* Whatever demotions, removals and account deletions race, a live workspace is without a
\* superadmin only if one was taken by a request whose count was out of date.
THEOREM OwnersStay == Spec => []OwnerKept
  <1>1. Inv => OwnerKept
    BY DEF Inv, Guarded, OwnerKept
  <1> QED BY <1>1, InvAlways, PTL

\* One more element adds at most one to a cardinality.
LEMMA OneMore ==
    ASSUME NEW S \in SUBSET Users, NEW x
    PROVE  /\ Cardinality(S \union {x}) \in Nat
           /\ Cardinality(S \union {x}) <= Cardinality(S) + 1
  <1>1. IsFiniteSet(S) /\ Cardinality(S) \in Nat
    BY MembersFinite
  <1>2. Cardinality(S \union {x}) = IF x \in S THEN Cardinality(S) ELSE Cardinality(S) + 1
    BY <1>1, FS_AddElement
  <1> QED
    BY <1>1, <1>2

\* An accept that has consumed its token gets its seat when nobody else comes or goes
\* meanwhile: the check before the update burns no invite of a full workspace.
THEOREM TokensBuySeats == Spec => []TokenBuysSeat
  <1>1. ASSUME Inv PROVE TokenBuysSeat
    <2> SUFFICES ASSUME NEW c \in Calls, calls[c].pc = "commit",
                        ~calls[c].moved, ~calls[c].conflict
                 PROVE  Fits(calls[c])
      BY DEF TokenBuysSeat
    <2> DEFINE S == calls[c].members
               u == calls[c].by
    <2>1. S \in SUBSET Users
      BY <1>1 DEF Inv, Typed, Requests, CallState
    <2>2. Cardinality(S) < MaxSeats
      BY <1>1 DEF Inv, Bought
    <2>3. IsFiniteSet(S) /\ Cardinality(S) \in Nat
      BY <2>1, MembersFinite
    <2> HIDE DEF S, u
    <2>4. Cardinality(S \union {u}) <= Cardinality(S) + 1 /\ Cardinality(S \union {u}) \in Nat
      BY <2>1, OneMore
    <2>5. Cardinality(S \union {u}) <= MaxSeats
      BY <2>2, <2>3, <2>4, Bounds
    <2> QED
      BY <2>5, Zenon DEF Fits, S, u
  <1> QED BY <1>1, InvAlways, PTL
===================================================================================
