--------------------------- MODULE OrgMembership ---------------------------
(***************************************************************************)
(* One organization: its membership rows, its seat cap, its pending        *)
(* invites, and the requests that change them.  A request checks first     *)
(* and writes later, in a transaction that reads what others have          *)
(* committed meanwhile; no constraint of the database backs the checks.    *)
(***************************************************************************)
EXTENDS Integers, FiniteSets

CONSTANTS
    Users,         \* accounts
    NoUser,        \* no account
    Requests,      \* requests the server can have in hand at once
    Modes,         \* how requests may overlap: see mode
    PlainRoles,    \* roles without authority
    Caps,          \* values of max_seats an admin sets
    DefaultCap,    \* max_members of a new organization
    MaxRows,       \* bound: membership rows ever inserted
    MaxInvites     \* bound: invites ever created

ASSUME CapsAssumption ==
    /\ DefaultCap \in Nat \ {0} /\ Caps \subseteq Nat \ {0}
    /\ MaxRows \in Nat /\ MaxInvites \in Nat
    /\ IsFiniteSet(Requests)

\* "serial": one request at a time.  "one transfer": transfers of ownership do
\* not overlap each other, all else does.  "free": everything may overlap.
ASSUME ModesAssumption ==
    /\ Modes \subseteq {"serial", "one transfer", "free"}
    /\ PlainRoles \subseteq {"member", "viewer"}

ASSUME NoUserAssumption == NoUser \notin Users

VARIABLES
    org,           \* "none", "live" or "deleted", and max_members
    license,       \* max_seats of the license row, 0 without one
    rows,          \* org_memberships; a removed member's row stays, inactive
    invites,       \* org_pending_invites
    request,       \* requests in hand
    mode,          \* fixed: how requests overlap
    logins         \* history: token pairs issued per invite

vars == <<org, license, rows, invites, request, mode, logins>>

-----------------------------------------------------------------------------
(* Data *)

Roles == {"owner", "admin"} \cup PlainRoles
RowIds == 1 .. MaxRows
InviteIds == 1 .. MaxInvites

RowRecords == [user : Users \cup {NoUser}, role : Roles, active : BOOLEAN]
InviteStates == {"none", "pending", "expired", "accepted", "gone"}
RequestRecords ==
    [pc : {"idle", "check member", "add invite", "add member", "remove", "change role",
           "transfer", "delete", "license", "accept", "login", "revoke"},
     actor : Users \cup {NoUser}, target : Users \cup {NoUser}, invite : InviteIds \cup {0}]

NoRow == [user |-> NoUser, role |-> "admin", active |-> FALSE]
IdleRequest == [pc |-> "idle", actor |-> NoUser, target |-> NoUser, invite |-> 0]

RowsOf(u) == {r \in RowIds : rows[r].user = u}
ActiveRows == {r \in RowIds : rows[r].active}
ActiveRowsOf(u) == RowsOf(u) \cap ActiveRows
FreeRows == {r \in RowIds : rows[r].user = NoUser}
FreeInvites == {i \in InviteIds : invites[i] = "none"}

\* A new row takes the next free id.
First(ids) == CHOOSE i \in ids : \A j \in ids : i <= j
Insert(u, role) ==
    /\ FreeRows # {}
    /\ rows' = [rows EXCEPT ![First(FreeRows)] = [user |-> u, role |-> role, active |-> TRUE]]

\* _require_role: get_membership raises when a user has two active rows.  Only
\* a transfer uses the actor again, so only a transfer keeps it.
MayAct(u, roles) ==
    /\ Cardinality(ActiveRowsOf(u)) = 1
    /\ \A r \in ActiveRowsOf(u) : rows[r].role \in roles

Managers == {"owner", "admin"}

\* max_seats of the license row if there is one, else org.max_members.
SeatCap == IF license # 0 THEN license ELSE org.cap

-----------------------------------------------------------------------------
Init ==
    /\ org = [state |-> "none", cap |-> DefaultCap]
    /\ license = 0
    /\ rows = [r \in RowIds |-> NoRow]
    /\ invites = [i \in InviteIds |-> "none"]
    /\ request = [q \in Requests |-> IdleRequest]
    /\ mode \in Modes
    /\ logins = [i \in InviteIds |-> 0]

-----------------------------------------------------------------------------
(* Requests *)

Begin(q, pc, actor, target, invite) ==
    /\ request[q].pc = "idle"
    /\ mode = "serial" => \A p \in Requests : request[p].pc = "idle"
    /\ request' = [request EXCEPT ![q] =
         [pc |-> pc, actor |-> actor, target |-> target, invite |-> invite]]

At(q, pc) == request[q].pc = pc

Continue(q, pc) == request' = [request EXCEPT ![q].pc = pc]
Finish(q) == request' = [request EXCEPT ![q] = IdleRequest]

\* An HTTP error, a database error, a timeout or a crash: the transaction of
\* the request rolls back, what it committed before stays.
Abandon(q) ==
    /\ ~At(q, "idle")
    /\ Finish(q)
    /\ UNCHANGED <<org, license, rows, invites, mode, logins>>

-----------------------------------------------------------------------------
(* create_organization *)

CreateOrganization(u) ==
    /\ org.state = "none"
    /\ Insert(u, "owner")
    /\ org' = [org EXCEPT !.state = "live"]
    /\ UNCHANGED <<license, invites, request, mode, logins>>

-----------------------------------------------------------------------------
(* invite_member: role and seats, then the member, then two commits *)

\* Faulty variant: the seat limit is tested with >.
BeginInviteOneSeatMore(q, actor, target) ==
    /\ MayAct(actor, Managers)
    /\ org.state = "live"
    /\ Cardinality(ActiveRows) <= SeatCap
    /\ Begin(q, "check member", NoUser, target, 0)
    /\ UNCHANGED <<org, license, rows, invites, mode, logins>>

BeginInvite(q, actor, target) ==
    /\ MayAct(actor, Managers)
    /\ org.state = "live"
    /\ Cardinality(ActiveRows) < SeatCap
    /\ Begin(q, "check member", NoUser, target, 0)
    /\ UNCHANGED <<org, license, rows, invites, mode, logins>>

\* Faulty variant: no test whether the user is a member already.
CheckNotMemberAnyRow(q) ==
    /\ At(q, "check member")
    /\ Continue(q, "add invite")
    /\ UNCHANGED <<org, license, rows, invites, mode, logins>>

CheckNotMember(q) ==
    /\ At(q, "check member")
    /\ ActiveRowsOf(request[q].target) = {}
    /\ Continue(q, "add invite")
    /\ UNCHANGED <<org, license, rows, invites, mode, logins>>

\* _create_pending_invite commits in a session of its own, before the
\* membership is committed.
AddPendingInvite(q) ==
    /\ At(q, "add invite")
    /\ FreeInvites # {}
    /\ invites' = [invites EXCEPT ![First(FreeInvites)] = "pending"]
    /\ Continue(q, "add member")
    /\ UNCHANGED <<org, license, rows, mode, logins>>

AddMember(q) ==
    /\ At(q, "add member")
    /\ \E role \in Roles \ {"owner"} : Insert(request[q].target, role)
    /\ Finish(q)
    /\ UNCHANGED <<org, license, invites, mode, logins>>

-----------------------------------------------------------------------------
(* remove_member and update_member_role: the row is selected without a test of
   is_active, and two rows of the user raise MultipleResultsFound *)

BeginRemove(q, actor, target) ==
    /\ MayAct(actor, Managers)
    /\ target # actor
    /\ Begin(q, "remove", NoUser, target, 0)
    /\ UNCHANGED <<org, license, rows, invites, mode, logins>>

RemoveMember(q) ==
    /\ At(q, "remove")
    /\ \E r \in RowIds :
         /\ RowsOf(request[q].target) = {r}
         /\ rows' = [rows EXCEPT ![r].active = FALSE]
    /\ Finish(q)
    /\ UNCHANGED <<org, license, invites, mode, logins>>

BeginUpdateRole(q, actor, target) ==
    /\ MayAct(actor, Managers)
    /\ Begin(q, "change role", NoUser, target, 0)
    /\ UNCHANGED <<org, license, rows, invites, mode, logins>>

UpdateMemberRole(q) ==
    /\ At(q, "change role")
    /\ \E r \in RowIds, role \in Roles \ {"owner"} :
         /\ RowsOf(request[q].target) = {r}
         /\ rows' = [rows EXCEPT ![r].role = role]
    /\ Finish(q)
    /\ UNCHANGED <<org, license, invites, mode, logins>>

-----------------------------------------------------------------------------
(* transfer_ownership *)

BeginTransfer(q, actor, target) ==
    /\ MayAct(actor, {"owner"})
    /\ target # actor
    /\ Cardinality(ActiveRowsOf(target)) = 1
    /\ mode # "free" => \A p \in Requests : ~At(p, "transfer")
    /\ Begin(q, "transfer", actor, target, 0)
    /\ UNCHANGED <<org, license, rows, invites, mode, logins>>

\* Faulty variant: the old owner is not demoted.
TransferOwnershipKeepsOld(q) ==
    /\ At(q, "transfer")
    /\ Cardinality(RowsOf(request[q].target)) <= 1
    /\ rows' = [r \in RowIds |->
         IF r \in RowsOf(request[q].target) THEN [rows[r] EXCEPT !.role = "owner"] ELSE rows[r]]
    /\ Finish(q)
    /\ UNCHANGED <<org, license, invites, mode, logins>>

\* One commit for both; org_repo.update does not write owner_id.
TransferOwnership(q) ==
    /\ At(q, "transfer")
    /\ Cardinality(RowsOf(request[q].actor)) <= 1
    /\ Cardinality(RowsOf(request[q].target)) <= 1
    /\ rows' = [r \in RowIds |->
         CASE r \in RowsOf(request[q].actor) -> [rows[r] EXCEPT !.role = "admin"]
           [] r \in RowsOf(request[q].target) -> [rows[r] EXCEPT !.role = "owner"]
           [] OTHER -> rows[r]]
    /\ Finish(q)
    /\ UNCHANGED <<org, license, invites, mode, logins>>

-----------------------------------------------------------------------------
(* set_license_config, delete_organization *)

BeginSetLicense(q, actor) ==
    /\ MayAct(actor, Managers)
    /\ Begin(q, "license", NoUser, NoUser, 0)
    /\ UNCHANGED <<org, license, rows, invites, mode, logins>>

\* Faulty variant: max_seats < 1 is not refused.
SetLicenseConfigUnchecked(q) ==
    /\ At(q, "license")
    /\ \E cap \in Caps \cup {0} :
         /\ license' = cap
         /\ org' = IF org.state = "live" THEN [org EXCEPT !.cap = cap] ELSE org
    /\ Finish(q)
    /\ UNCHANGED <<rows, invites, mode, logins>>

SetLicenseConfig(q) ==
    /\ At(q, "license")
    /\ \E cap \in Caps :
         /\ license' = cap
         /\ org' = IF org.state = "live" THEN [org EXCEPT !.cap = cap] ELSE org
    /\ Finish(q)
    /\ UNCHANGED <<rows, invites, mode, logins>>

\* The owner's row is looked for without a test of is_active.
BeginDelete(q, actor) ==
    /\ Cardinality({r \in RowsOf(actor) : rows[r].role = "owner"}) = 1
    /\ org.state = "live"
    /\ Begin(q, "delete", NoUser, NoUser, 0)
    /\ UNCHANGED <<org, license, rows, invites, mode, logins>>

\* Faulty variant: the pending invites are forgotten.
DeleteOrganizationKeepsInvites(q) ==
    /\ At(q, "delete")
    /\ org' = [org EXCEPT !.state = "deleted"]
    /\ rows' = [r \in RowIds |-> NoRow]
    /\ license' = 0
    /\ Finish(q)
    /\ UNCHANGED <<invites, mode, logins>>

\* Everything goes in one commit.  The organization's Google connections go as
\* well; of those this module has none.
DeleteOrganization(q) ==
    /\ At(q, "delete")
    /\ org' = [org EXCEPT !.state = "deleted"]
    /\ rows' = [r \in RowIds |-> NoRow]
    /\ license' = 0
    /\ invites' = [i \in InviteIds |-> IF invites[i] = "none" THEN "none" ELSE "gone"]
    /\ Finish(q)
    /\ UNCHANGED <<mode, logins>>

-----------------------------------------------------------------------------
(* accept_invite: read the token, claim it with one UPDATE, read it again *)

ReadInvite(q, i) ==
    /\ invites[i] = "pending"
    /\ Begin(q, "accept", NoUser, NoUser, i)
    /\ UNCHANGED <<org, license, rows, invites, mode, logins>>

\* Faulty variant: the UPDATE has no WHERE accepted = FALSE.
ClaimInviteAnyState(q) ==
    /\ At(q, "accept")
    /\ invites[request[q].invite] # "gone"
    /\ invites' = [invites EXCEPT ![request[q].invite] = "accepted"]
    /\ Continue(q, "login")
    /\ UNCHANGED <<org, license, rows, mode, logins>>

ClaimInvite(q) ==
    /\ At(q, "accept")
    /\ invites[request[q].invite] \in {"pending", "expired"}
    /\ invites' = [invites EXCEPT ![request[q].invite] = "accepted"]
    /\ Continue(q, "login")
    /\ UNCHANGED <<org, license, rows, mode, logins>>

IssueTokens(q) ==
    /\ At(q, "login")
    /\ invites[request[q].invite] # "gone"
    /\ logins' = [logins EXCEPT ![request[q].invite] = @ + 1]
    /\ Finish(q)
    /\ UNCHANGED <<org, license, rows, invites, mode>>

\* expires_at passes.
ExpireInvite(i) ==
    /\ invites[i] = "pending"
    /\ invites' = [invites EXCEPT ![i] = "expired"]
    /\ UNCHANGED <<org, license, rows, request, mode, logins>>

\* cleanup_stale_records_job: expired 90 days ago and never accepted; no request
\* that read the token lasts so long.
PruneInvite(i) ==
    /\ invites[i] = "expired"
    /\ \A q \in Requests : request[q].invite # i
    /\ invites' = [invites EXCEPT ![i] = "gone"]
    /\ UNCHANGED <<org, license, rows, request, mode, logins>>

BeginRevoke(q, actor, i) ==
    /\ MayAct(actor, Managers)
    /\ invites[i] \notin {"none", "gone"}
    /\ Begin(q, "revoke", NoUser, NoUser, i)
    /\ UNCHANGED <<org, license, rows, invites, mode, logins>>

RevokePendingInvite(q) ==
    /\ At(q, "revoke")
    /\ invites[request[q].invite] # "gone"
    /\ invites' = [invites EXCEPT ![request[q].invite] = "gone"]
    /\ Finish(q)
    /\ UNCHANGED <<org, license, rows, mode, logins>>

-----------------------------------------------------------------------------
BeginRequest(q) ==
    \/ \E actor, target \in Users :
          \/ BeginInvite(q, actor, target)
          \/ BeginRemove(q, actor, target)
          \/ BeginUpdateRole(q, actor, target)
          \/ BeginTransfer(q, actor, target)
    \/ \E actor \in Users : BeginSetLicense(q, actor) \/ BeginDelete(q, actor)
    \/ \E i \in InviteIds : ReadInvite(q, i) \/ \E actor \in Users : BeginRevoke(q, actor, i)

RequestStep(q) ==
    \/ CheckNotMember(q)
    \/ AddPendingInvite(q)
    \/ AddMember(q)
    \/ RemoveMember(q)
    \/ UpdateMemberRole(q)
    \/ TransferOwnership(q)
    \/ SetLicenseConfig(q)
    \/ DeleteOrganization(q)
    \/ ClaimInvite(q)
    \/ IssueTokens(q)
    \/ RevokePendingInvite(q)
    \/ Abandon(q)

Next ==
    \/ \E u \in Users : CreateOrganization(u)
    \/ \E q \in Requests : BeginRequest(q) \/ RequestStep(q)
    \/ \E i \in InviteIds : ExpireInvite(i) \/ PruneInvite(i)

Spec == Init /\ [][Next]_vars

-----------------------------------------------------------------------------
(* Properties *)

\* Every variable stays in its type; in particular no cap is ever zero.
TypeOK ==
    /\ org \in [state : {"none", "live", "deleted"}, cap : Nat \ {0}]
    /\ license \in Nat
    /\ rows \in [RowIds -> RowRecords]
    /\ invites \in [InviteIds -> InviteStates]
    /\ request \in [Requests -> RequestRecords]
    /\ mode \in Modes
    /\ logins \in [InviteIds -> Nat]

Owners == {r \in ActiveRows : rows[r].role = "owner"}

\* The organization has at most one owner.
AtMostOneOwner == \A r, s \in Owners : r = s

\* As long as two transfers of ownership do not overlap, whatever else is going
\* on, including invitations and removals of the two users of a transfer.
OneOwnerUnlessTransfersOverlap == mode # "free" => AtMostOneOwner

\* A magic link logs in once, however many requests present it together.
LoginOncePerInvite == \A i \in InviteIds : logins[i] <= 1

\* Invited, removed and invited again: a user has one active row at most.
MemberOnceWhenSerial ==
    mode = "serial" => \A u \in Users : Cardinality(ActiveRowsOf(u)) <= 1

\* A member is only added while the organization, counting them, has a seat,
\* also after the cap was lowered below the number of members.
SeatsWhenSerial ==
    [][mode = "serial" /\ Cardinality(ActiveRows') > Cardinality(ActiveRows)
          => Cardinality(ActiveRows') <= SeatCap]_vars

\* A deleted organization leaves no row, license or usable invite behind.
NothingLeftWhenSerial ==
    mode = "serial" /\ org.state = "deleted" =>
        /\ license = 0
        /\ \A r \in RowIds : rows[r] = NoRow
        /\ \A i \in InviteIds : invites[i] \in {"none", "gone"}

=============================================================================
