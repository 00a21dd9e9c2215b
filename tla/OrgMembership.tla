------------------------------ MODULE OrgMembership ------------------------------
(* One workspace on a capped plan: its members and their roles, its invites, and  *)
(* the requests of the API that change them.  A request is a sequence of separate *)
(* statements, so what it has read may be out of date when it writes; only the    *)
(* creation of a membership runs in a serialisable transaction, and deleteAccount *)
(* in one at the default isolation level, which sees what others commit.          *)
(* What follows the last write of a request (seat synchronisation, which          *)
(* BillingSync models, the default workspace, audit and mail) changes nothing     *)
(* here.                                                                          *)
EXTENDS Integers, FiniteSets

CONSTANTS
    Users,
    Invites,
    Calls,     \* places for requests in flight
    Roles,     \* the ranks of ORG_ROLE_RANK in use
    MaxSeats   \* PLAN_LIMITS[plan].maxSeats

None == -1  \* the rank of somebody who is not a member
Nobody == "nobody"
Admin == 2
Superadmin == 3
MANAGER_ROLES == {Admin, Superadmin}

ASSUME OrgAssumption ==
    /\ IsFiniteSet(Users)
    /\ Roles \subseteq 0 .. 3 /\ Superadmin \in Roles
    /\ MaxSeats \in Nat \ {0}

VARIABLES
    org,        \* "none", "live" or "deleted"
    role,       \* OrganizationMember: the role of each user, None for the others
    gone,       \* users whose account is deleted
    invites,    \* OrganizationInvite
    uses,       \* memberships each invite has made
    calls,      \* the requests in flight
    overtaken,  \* a superadmin went by a request that had seen other superadmins
    putBack     \* a member was put back after being removed under an accept

vars == <<org, role, gone, invites, uses, calls, overtaken, putBack>>

Members == {u \in Users : role[u] # None}
Owners == {u \in Users : role[u] = Superadmin}
Pending == {i \in Invites : invites[i].state = "open"}

InviteState == [state : {"none", "open", "used", "closed"},
                to : Users \union {Nobody}, role : Roles]
CallState == [pc : {"idle", "insert", "count", "write", "drop", "consume",
             "consumeAgain", "rejoin",
             "begin", "commit", "wind", "dissolve", "leave"},
              by : Users \union {Nobody},     \* whose request, when it matters later on
              target : Users \union {Nobody},
              invite : Invites \union {Nobody},
              role : Roles \union {None},    \* the new role, None for a removal
              owners : SUBSET Users,         \* the superadmins it has counted
              members : SUBSET Users,        \* the members it has counted
              moved : BOOLEAN,               \* they changed before its transaction began
              conflict : BOOLEAN]            \* another serialisable insert since then

TypeOK ==
    /\ org \in {"none", "live", "deleted"}
    /\ role \in [Users -> Roles \union {None}]
    /\ gone \subseteq Users
    /\ invites \in [Invites -> InviteState]
    /\ uses \in [Invites -> Nat]
    /\ calls \in [Calls -> CallState]
    /\ overtaken \in BOOLEAN /\ putBack \in BOOLEAN
    /\ org # "live" => Members \union Pending = {}   \* foreign keys cascade

Idle == [pc |-> "idle", by |-> Nobody, target |-> Nobody, invite |-> Nobody,
         role |-> None, owners |-> {}, members |-> {}, moved |-> FALSE, conflict |-> FALSE]

Blank == [state |-> "none", to |-> Nobody, role |-> Superadmin]

Init ==
    /\ org = "none"
    /\ role = [u \in Users |-> None]
    /\ gone = {}
    /\ invites = [i \in Invites |-> Blank]
    /\ uses = [i \in Invites |-> 0]
    /\ calls = [c \in Calls |-> Idle]
    /\ overtaken = FALSE /\ putBack = FALSE

-----------------------------------------------------------------------------------
(* A request starts in a free place, of a user whose account exists; it goes on,  *)
(* or ends with an answer or an exception.                                        *)

Starts(c, u, k) ==
    /\ calls[c].pc = "idle" /\ u \notin gone
    /\ calls' = [calls EXCEPT ![c] = k]

Goes(c, k) == calls' = [calls EXCEPT ![c] = k]
Ends(c) == Goes(c, Idle)

(* assertCanAddSeat *)
CanAddSeatOffByOne(used) == used <= MaxSeats
CanAddSeat(used) == used < MaxSeats

(* assertNotLastSuperadmin, and the same question in deleteAccount *)
NotLastSuperadminOffByOne == Cardinality(Owners) >= 1
NotLastSuperadmin == Cardinality(Owners) > 1

(* A write takes the role of superadmin from u: the checks promise something only *)
(* when the superadmins are those the request has counted.                        *)
TakesOwner(u, k) == overtaken' = (overtaken \/ (u \in Owners /\ Owners # k.owners))

DeleteOrgKeepingInvites ==
    /\ org' = "deleted"
    /\ role' = [u \in Users |-> None]
    /\ UNCHANGED invites
DeleteOrg ==
    /\ org' = "deleted"
    /\ role' = [u \in Users |-> None]
    /\ invites' = [i \in Invites |-> Blank]

-----------------------------------------------------------------------------------
(* OrganizationsService *)

Create(u) ==
    /\ org = "none" /\ u \notin gone
    /\ org' = "live"
    /\ role' = [role EXCEPT ![u] = Superadmin]
    /\ UNCHANGED <<gone, invites, uses, calls, overtaken, putBack>>

(* remove: myOrgCount > 1 depends on workspaces outside the model *)
RemoveRead(c, u) ==
    /\ role[u] = Superadmin
    /\ Starts(c, u, [Idle EXCEPT !.pc = "drop"])
    /\ UNCHANGED <<org, role, gone, invites, uses, overtaken, putBack>>

RemoveDelete(c) ==
    /\ calls[c].pc = "drop" /\ org = "live"
    /\ DeleteOrg /\ Ends(c)
    /\ UNCHANGED <<gone, uses, overtaken, putBack>>

(* changeMemberRole to r, or removeMember when r is None: requireRole,            *)
(* getMembership, assertCanActOn and the ceiling of the caller's own rank         *)
ManageRead(c, u, t, r) ==
    /\ role[u] \in MANAGER_ROLES
    /\ role[t] # None /\ role[t] <= role[u] /\ r <= role[u]
    /\ Starts(c, u, [Idle EXCEPT
           !.pc = IF role[t] = Superadmin /\ r # Superadmin THEN "count" ELSE "write",
           !.target = t, !.role = r])
    /\ UNCHANGED <<org, role, gone, invites, uses, overtaken, putBack>>

ManageCount(c) ==
    /\ calls[c].pc = "count"
    /\ IF NotLastSuperadmin
       THEN Goes(c, [calls[c] EXCEPT !.pc = "write", !.owners = Owners])
       ELSE Ends(c)
    /\ UNCHANGED <<org, role, gone, invites, uses, overtaken, putBack>>

ChangeMemberRole(c) == LET k == calls[c] IN
    /\ k.pc = "write" /\ k.role # None /\ role[k.target] # None
    /\ role' = [role EXCEPT ![k.target] = k.role]
    /\ IF k.role = Superadmin THEN UNCHANGED overtaken ELSE TakesOwner(k.target, k)
    /\ Ends(c)
    /\ UNCHANGED <<org, gone, invites, uses, putBack>>

RemoveMember(c) == LET k == calls[c] IN
    /\ k.pc = "write" /\ k.role = None /\ role[k.target] # None
    /\ role' = [role EXCEPT ![k.target] = None]
    /\ TakesOwner(k.target, k)
    /\ Ends(c)
    /\ UNCHANGED <<org, gone, invites, uses, putBack>>

-----------------------------------------------------------------------------------
(* OrganizationInvitesService *)

(* create: requireRole, the rank ceiling, and members and invites under the cap *)
InviteCheck(c, u, v, r) ==
    /\ role[u] \in MANAGER_ROLES /\ r <= role[u]
    /\ CanAddSeat(Cardinality(Members) + Cardinality(Pending))
    /\ Starts(c, u, [Idle EXCEPT !.pc = "insert", !.target = v, !.role = r])
    /\ UNCHANGED <<org, role, gone, invites, uses, overtaken, putBack>>

InviteInsert(c, i) == LET k == calls[c] IN
    /\ k.pc = "insert" /\ org = "live" /\ invites[i].state = "none"
    /\ invites' = [invites EXCEPT ![i] = [state |-> "open", to |-> k.target, role |-> k.role]]
    /\ Ends(c)
    /\ UNCHANGED <<org, role, gone, uses, overtaken, putBack>>

(* revoke: requireRole and deleteMany.  The id comes never back; for an invite    *)
(* already used the deletion is left out, nobody can consume it any more          *)
Revoke(u, i) ==
    /\ u \notin gone /\ role[u] \in MANAGER_ROLES
    /\ invites[i].state = "open"
    /\ invites' = [invites EXCEPT ![i].state = "closed"]
    /\ UNCHANGED <<org, role, gone, uses, calls, overtaken, putBack>>

(* expiresAt passes: from now on the conditional update of accept rejects the     *)
(* invite as the lookup rejects a revoked one                                     *)
Lapse(i) ==
    /\ invites[i].state = "open"
    /\ invites' = [invites EXCEPT ![i].state = "closed"]
    /\ UNCHANGED <<org, role, gone, uses, calls, overtaken, putBack>>

(* accept, up to its checks: the invite is the caller's; who is a member already  *)
(* skips the cap, for the others there must be a seat                              *)
AcceptCheck(c, i) == LET u == invites[i].to IN
    /\ invites[i].state \in {"open", "used"}
    /\ \/ /\ role[u] # None
          /\ Starts(c, u, [Idle EXCEPT !.pc = "consumeAgain", !.by = u, !.invite = i,
                               !.role = invites[i].role])
       \/ /\ role[u] = None /\ CanAddSeat(Cardinality(Members))
          /\ Starts(c, u, [Idle EXCEPT !.pc = "consume", !.by = u, !.invite = i,
                               !.role = invites[i].role, !.members = Members])
    /\ UNCHANGED <<org, role, gone, invites, uses, overtaken, putBack>>

(* updateMany where consumedAt is null and expiresAt is later *)
ConsumableAgain(i) == invites[i].state \in {"open", "used"}
Consumable(i) == invites[i].state = "open"

AcceptConsume(c) == LET k == calls[c] IN
    /\ k.pc \in {"consume", "consumeAgain"}
    /\ IF Consumable(k.invite)
       THEN /\ invites' = [invites EXCEPT ![k.invite].state = "used"]
            /\ Goes(c, [k EXCEPT !.pc = IF @ = "consume" THEN "begin" ELSE "rejoin"])
       ELSE UNCHANGED invites /\ Ends(c)
    /\ UNCHANGED <<org, role, gone, uses, overtaken, putBack>>

Joins(k) ==
    /\ role' = [role EXCEPT ![k.by] = k.role]
    /\ uses' = [uses EXCEPT ![k.invite] = @ + 1]

(* The plain create of somebody who was a member: P2002 as long as they still are *)
AcceptRejoin(c) == LET k == calls[c] IN
    /\ k.pc = "rejoin" /\ org = "live"
    /\ IF role[k.by] = None
       THEN Joins(k) /\ putBack' = TRUE
       ELSE UNCHANGED <<role, uses, putBack>>
    /\ Ends(c)
    /\ UNCHANGED <<org, gone, invites, overtaken>>

(* enforceSeatCapAround: the transaction sees the members at its first statement  *)
AcceptBegin(c) == LET k == calls[c] IN
    /\ k.pc = "begin" /\ org = "live"
    /\ Goes(c, [k EXCEPT !.pc = "commit", !.members = Members, !.moved = Members # k.members])
    /\ UNCHANGED <<org, role, gone, invites, uses, overtaken, putBack>>

(* The recount with the row it has inserted, and whether a concurrent insert of   *)
(* the same kind makes the database refuse the commit (P2034)                     *)
FitsUnserialised(k) == Cardinality(k.members \union {k.by}) <= MaxSeats
Fits(k) == ~k.conflict /\ Cardinality(k.members \union {k.by}) <= MaxSeats

AcceptCommit(c) == LET k == calls[c] IN
    /\ k.pc = "commit" /\ org = "live"
    /\ role[k.by] = None /\ Fits(k)
    /\ Joins(k)
    /\ calls' = [d \in Calls |-> IF d = c THEN Idle
                     ELSE [calls[d] EXCEPT !.conflict = @ \/ calls[d].pc = "commit"]]
    /\ UNCHANGED <<org, gone, invites, overtaken, putBack>>

-----------------------------------------------------------------------------------
(* AccountService.deleteAccount: the memberships, before the password is hashed;  *)
(* then, in the transaction, what becomes of the workspace, and the writes.  A     *)
(* deletion while there is no workspace is left out: it touches only the account. *)

WindRead(c, u) ==
    /\ org = "live"
    /\ Starts(c, u, [Idle EXCEPT !.pc = "wind", !.by = u, !.role = role[u]])
    /\ UNCHANGED <<org, role, gone, invites, uses, overtaken, putBack>>

WindCount(c) == LET k == calls[c] IN
    /\ k.pc = "wind"
    /\ \/ /\ k.role # None /\ Cardinality(Members) <= 1
          /\ Goes(c, [k EXCEPT !.pc = "dissolve"])
       \/ /\ k.role # None /\ Cardinality(Members) > 1
          /\ k.role = Superadmin => NotLastSuperadmin
          /\ Goes(c, [k EXCEPT !.pc = "leave",
                         !.owners = IF k.role = Superadmin THEN Owners ELSE {}])
    /\ UNCHANGED <<org, role, gone, invites, uses, overtaken, putBack>>

(* No membership was read: only the account goes *)
WindAlone(c) == LET k == calls[c] IN
    /\ k.pc = "wind" /\ k.role = None
    /\ gone' = gone \union {k.by}
    /\ Ends(c)
    /\ UNCHANGED <<org, role, invites, uses, overtaken, putBack>>

Dissolve(c) ==
    /\ calls[c].pc = "dissolve" /\ org = "live"
    /\ DeleteOrg
    /\ gone' = gone \union {calls[c].by}
    /\ Ends(c)
    /\ UNCHANGED <<uses, overtaken, putBack>>

Leave(c) == LET k == calls[c] IN
    /\ k.pc = "leave" /\ role[k.by] # None
    /\ role' = [role EXCEPT ![k.by] = None]
    /\ TakesOwner(k.by, k)
    /\ gone' = gone \union {k.by}
    /\ Ends(c)
    /\ UNCHANGED <<org, invites, uses, putBack>>

(* A check that refuses, a row that is no longer there, a statement that fails, a *)
(* process that dies: the request ends where it is, a transaction rolled back     *)
Fails(c) ==
    /\ calls[c].pc # "idle"
    /\ Ends(c)
    /\ UNCHANGED <<org, role, gone, invites, uses, overtaken, putBack>>

Next ==
    \/ \E u \in Users : Create(u)
    \/ \E i \in Invites : Lapse(i) \/ \E u \in Users : Revoke(u, i)
    \/ \E c \in Calls :
          \/ \E u \in Users : RemoveRead(c, u) \/ WindRead(c, u)
          \/ \E u, v \in Users, r \in Roles :
                ManageRead(c, u, v, r) \/ InviteCheck(c, u, v, r)
          \/ \E u, v \in Users : ManageRead(c, u, v, None)
          \/ \E i \in Invites : InviteInsert(c, i) \/ AcceptCheck(c, i)
          \/ RemoveDelete(c) \/ ManageCount(c) \/ ChangeMemberRole(c) \/ RemoveMember(c)
          \/ AcceptConsume(c) \/ AcceptRejoin(c) \/ AcceptBegin(c) \/ AcceptCommit(c)
          \/ WindCount(c) \/ WindAlone(c) \/ Dissolve(c) \/ Leave(c)
          \/ Fails(c)

Spec == Init /\ [][Next]_vars

-----------------------------------------------------------------------------------
(* An invite admits at most one member, however often and from however many tabs  *)
(* it is accepted, also when the member it admitted is removed while another      *)
(* accept of it is under way (the conditional updateMany in accept).              *)
SingleUse == \A i \in Invites : uses[i] <= 1

(* The members stay within the plan's seats under any race of accepts, unless an  *)
(* accept put a member back who was removed under it: that path has no recount.   *)
SeatsWithinCap == putBack \/ Cardinality(Members) <= MaxSeats

(* A workspace keeps a superadmin, whatever demotions, removals and account       *)
(* deletions race, as long as no superadmin went by a request that had counted    *)
(* others: the count and the write are separate statements.                       *)
OwnerKept == org = "live" /\ ~overtaken => Owners # {}

(* A full workspace does not burn the invite (the comment at the pre-check in     *)
(* accept): once the token is consumed, an accept during which nobody else joins  *)
(* or leaves passes the recount.                                                  *)
TokenBuysSeat ==
    \A c \in Calls : calls[c].pc = "commit" /\ ~calls[c].moved /\ ~calls[c].conflict
                       => Fits(calls[c])

(* deleteAccount hard-deletes only "workspaces where they are the sole member" (the *)
(* comment above it): never one in which others are and the user is not.          *)
OnlyOwnWorkspaceDeleted ==
    [][\A c \in Calls : calls[c].pc = "dissolve" /\ org = "live" /\ org' = "deleted"
                          /\ calls'[c].pc = "idle" /\ Members # {}
                          => calls[c].by \in Members]_vars
===================================================================================
