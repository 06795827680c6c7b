------------------------- MODULE OrgMembershipProofs -------------------------
(***************************************************************************)
(* For every number of users, requests, rows and invites and every set of  *)
(* seat caps: an organization keeps its types, a magic link logs in once,  *)
(* there is one owner at most while transfers of ownership do not overlap, *)
(* and while requests come one at a time a user has one active row, a      *)
(* member is only added to a free seat and a deletion leaves nothing.      *)
(***************************************************************************)
EXTENDS OrgMembership, FiniteSetTheorems, WellFoundedInduction, TLAPS

-----------------------------------------------------------------------------
(* The inductive invariants *)

\* Before the organization is created there is nothing of it, and no request
\* can begin.
NothingBefore ==
    org.state = "none" =>
        /\ license = 0
        /\ \A r \in RowIds : rows[r] = NoRow
        /\ \A i \in InviteIds : invites[i] = "none"
        /\ \A q \in Requests : request[q].pc = "idle"

\* A login in hand is the first of an invite that cannot be claimed again.
ClaimedOnce ==
    \A i \in InviteIds :
        LET Logins == {q \in Requests : At(q, "login") /\ request[q].invite = i}
        IN  /\ logins[i] \in {0, 1}
            /\ Logins # {} => logins[i] = 0
            /\ \A p, q \in Logins : p = q
            /\ invites[i] \in {"none", "pending", "expired"} =>
                   Logins = {} /\ logins[i] = 0

\* A transfer in hand is the only one, and nobody but its actor is an owner.
OwnerIsTransferring ==
    mode # "free" =>
        /\ AtMostOneOwner
        /\ \A p, q \in Requests : At(p, "transfer") /\ At(q, "transfer") => p = q
        /\ \A q \in Requests, r \in Owners :
               At(q, "transfer") => rows[r].user = request[q].actor

OrgInv == TypeOK /\ NothingBefore /\ ClaimedOnce /\ OwnerIsTransferring

\* What a request has checked still holds when it writes, if it is alone.
Adding == {"check member", "add invite", "add member"}
Alone ==
    /\ \A p, q \in Requests : ~At(p, "idle") /\ ~At(q, "idle") => p = q
    /\ \A u \in Users : \A r, s \in ActiveRowsOf(u) : r = s
    /\ \A q \in Requests :
         /\ request[q].pc \in {"add invite", "add member"} =>
                ActiveRowsOf(request[q].target) = {}
         /\ request[q].pc \in Adding => Cardinality(ActiveRows) < SeatCap
    /\ org.state = "deleted" =>
         /\ license = 0
         /\ \A r \in RowIds : rows[r] = NoRow
         /\ \A i \in InviteIds : invites[i] \in {"none", "gone"}
         /\ \A q \in Requests : At(q, "idle")

SerialInv == mode = "serial" => Alone

-----------------------------------------------------------------------------
(* Helpers *)

\* The sets of rows are finite.
LEMMA RowsFinite ==
    ASSUME CapsAssumption, NEW S \in SUBSET RowIds
    PROVE  IsFiniteSet(S) /\ Cardinality(S) \in Nat
<1>1. 1 \in Int /\ MaxRows \in Int
  BY DEF CapsAssumption
<1>2. IsFiniteSet(RowIds)
  BY <1>1, FS_Interval DEF RowIds
<1> QED
  BY <1>2, FS_Subset, FS_CardinalityType

\* A free id is one of the free ones.
LEMMA FirstExists ==
    ASSUME NEW S \in SUBSET Nat, S # {} PROVE First(S) \in S
<1> DEFINE Less == OpToRel(<, Nat)
<1>1. PICK x \in S : \A y \in S : ~(<<y, x>> \in Less)
  <2>1. IsWellFoundedOn(Less, Nat)
    BY NatLessThanWellFounded
  <2> HIDE DEF Less
  <2> QED
    BY <2>1, WFMin
<1>2. \A y \in S : ~(y < x)
  BY <1>1 DEF OpToRel
<1>3. \A y \in S : x <= y
  BY <1>2
<1> QED
  BY <1>3 DEF First

\* A set of at most one row has no two.
LEMMA NoTwoRows ==
    ASSUME CapsAssumption, NEW S \in SUBSET RowIds
    PROVE  (Cardinality(S) <= 1) <=> (\A r, s \in S : r = s)
<1>1. IsFiniteSet(S) /\ Cardinality(S) \in Nat
  BY RowsFinite
<1>2. CASE S = {}
  BY <1>2, FS_EmptySet
<1>3. CASE S # {}
  <2>1. Cardinality(S) # 0
    BY <1>1, <1>3, FS_EmptySet
  <2>2. (Cardinality(S) <= 1) <=> (Cardinality(S) = 1)
    BY <1>1, <2>1
  <2>3. (Cardinality(S) = 1) <=> (\E r : S = {r})
    BY <1>1, FS_Singleton
  <2>4. (\E r : S = {r}) => (\A r, s \in S : r = s)
    OBVIOUS
  <2>5. ASSUME \A r, s \in S : r = s PROVE \E r : S = {r}
    <3>1. PICK r \in S : TRUE
      BY <1>3
    <3>2. S = {r}
      BY <2>5, <3>1
    <3> QED
      BY <3>2
  <2> QED
    BY <2>2, <2>3, <2>4, <2>5
<1> QED
  BY <1>2, <1>3

\* Who may act has an active row of one of the roles.
LEMMA ActorHasRow ==
    ASSUME CapsAssumption, NEW u, NEW roles, MayAct(u, roles)
    PROVE  \E r \in ActiveRowsOf(u) : rows[r].role \in roles
<1>1. ActiveRowsOf(u) \in SUBSET RowIds
  BY DEF ActiveRowsOf, RowsOf, ActiveRows
<1>2. ActiveRowsOf(u) # {}
  BY FS_EmptySet DEF MayAct
<1> QED
  BY <1>2 DEF MayAct

\* An insert changes one row only, if any.
LEMMA InsertEffect ==
    ASSUME TypeOK, NEW u \in Users \cup {NoUser}, NEW role \in Roles, Insert(u, role)
    PROVE  /\ rows' \in [RowIds -> RowRecords]
           /\ \E x : \A r \in RowIds :
                rows'[r] = IF r = x THEN [user |-> u, role |-> role, active |-> TRUE]
                                    ELSE rows[r]
<1>1. [user |-> u, role |-> role, active |-> TRUE] \in RowRecords
  BY DEF RowRecords
<1> QED
  BY <1>1 DEF Insert, TypeOK

-----------------------------------------------------------------------------
(* Types *)

\* The types hold at the start.
LEMMA InitTypes == CapsAssumption => (Init => TypeOK)
BY DEF CapsAssumption, Init, TypeOK, NoRow, RowRecords, Roles, InviteStates, IdleRequest,
       RequestRecords

\* Every step keeps the types.
LEMMA NextTypes ==
    ASSUME CapsAssumption, TypeOK, Next PROVE TypeOK'
<1>1. IdleRequest \in RequestRecords
  BY DEF IdleRequest, RequestRecords
<1>2. ASSUME NEW u \in Users, CreateOrganization(u) PROVE TypeOK'
  <2>1. "owner" \in Roles
    BY DEF Roles
  <2>2. rows' \in [RowIds -> RowRecords]
    BY <1>2, <2>1, InsertEffect DEF CreateOrganization
  <2> QED
    BY <1>2, <2>2 DEF CreateOrganization, TypeOK
<1>3. ASSUME NEW q \in Requests, BeginRequest(q) PROVE TypeOK'
  <2>1. request' \in [Requests -> RequestRecords]
    <3>1. ASSUME NEW pc, NEW a, NEW t, NEW i,
                 [pc |-> pc, actor |-> a, target |-> t, invite |-> i] \in RequestRecords,
                 Begin(q, pc, a, t, i)
          PROVE  request' \in [Requests -> RequestRecords]
      BY <3>1 DEF Begin, TypeOK
    <3>2. ASSUME NEW a \in Users \cup {NoUser}, NEW t \in Users \cup {NoUser},
                 NEW i \in InviteIds \cup {0},
                 NEW pc \in {"check member", "remove", "change role", "transfer",
                             "license", "delete", "accept", "revoke"}
          PROVE  [pc |-> pc, actor |-> a, target |-> t, invite |-> i] \in RequestRecords
      BY DEF RequestRecords
    <3> QED
      BY <1>3, <3>1, <3>2 DEF BeginRequest, BeginInvite, BeginRemove, BeginUpdateRole,
         BeginTransfer, BeginSetLicense, BeginDelete, ReadInvite, BeginRevoke
  <2>2. UNCHANGED <<org, license, rows, invites, mode, logins>>
    BY <1>3 DEF BeginRequest, BeginInvite, BeginRemove, BeginUpdateRole, BeginTransfer,
                BeginSetLicense, BeginDelete, ReadInvite, BeginRevoke
  <2> QED
    BY <2>1, <2>2 DEF TypeOK
<1>4. ASSUME NEW q \in Requests, RequestStep(q) PROVE TypeOK'
  <2>10. CASE IssueTokens(q)
    <3>1. /\ logins' = [logins EXCEPT ![request[q].invite] = @ + 1]
          /\ request' = [request EXCEPT ![q] = IdleRequest]
          /\ UNCHANGED <<org, license, rows, invites, mode>>
      BY <2>10 DEF IssueTokens, Finish
    <3>2. logins' \in [InviteIds -> Nat]
      <4>1. logins \in [InviteIds -> Nat]
        BY DEF TypeOK
      <4>2. logins' = [i \in InviteIds |->
                        IF i = request[q].invite THEN logins[i] + 1 ELSE logins[i]]
        BY <3>1, <4>1
      <4> QED
        BY <4>1, <4>2
    <3> QED
      BY <1>1, <3>1, <3>2 DEF TypeOK
  <2> USE <1>1 DEF TypeOK
  <2>1. CASE CheckNotMember(q)
    BY <2>1 DEF CheckNotMember, Continue, RequestRecords
  <2>2. CASE AddPendingInvite(q)
    BY <2>2 DEF AddPendingInvite, Continue, RequestRecords, InviteStates
  <2>3. CASE AddMember(q)
    <3>1. PICK role \in Roles : Insert(request[q].target, role)
      BY <2>3 DEF AddMember
    <3>2. request[q].target \in Users \cup {NoUser}
      BY DEF RequestRecords
    <3>3. rows' \in [RowIds -> RowRecords]
      BY <3>1, <3>2, InsertEffect
    <3> QED
      BY <2>3, <3>3 DEF AddMember, Finish
  <2>4. CASE RemoveMember(q)
    BY <2>4 DEF RemoveMember, Finish, RowRecords
  <2>5. CASE UpdateMemberRole(q)
    BY <2>5 DEF UpdateMemberRole, Finish, RowRecords
  <2>6. CASE TransferOwnership(q)
    <3>1. \A r \in RowIds : /\ [rows[r] EXCEPT !.role = "owner"] \in RowRecords
                            /\ [rows[r] EXCEPT !.role = "admin"] \in RowRecords
      BY DEF RowRecords, Roles
    <3>2. rows' \in [RowIds -> RowRecords]
      BY <2>6, <3>1 DEF TransferOwnership
    <3> QED
      BY <2>6, <3>2 DEF TransferOwnership, Finish
  <2>7. CASE SetLicenseConfig(q)
    BY <2>7 DEF SetLicenseConfig, Finish, CapsAssumption
  <2>8. CASE DeleteOrganization(q)
    BY <2>8 DEF DeleteOrganization, Finish, NoRow, RowRecords, Roles, InviteStates
  <2>9. CASE ClaimInvite(q)
    BY <2>9 DEF ClaimInvite, Continue, RequestRecords, InviteStates
  <2>11. CASE RevokePendingInvite(q)
    BY <2>11 DEF RevokePendingInvite, Finish, InviteStates
  <2>12. CASE Abandon(q)
    BY <2>12 DEF Abandon, Finish
  <2> QED
    BY <1>4, <2>1, <2>2, <2>3, <2>4, <2>5, <2>6, <2>7, <2>8, <2>9, <2>10, <2>11, <2>12
       DEF RequestStep
<1>5. ASSUME NEW i \in InviteIds, ExpireInvite(i) \/ PruneInvite(i) PROVE TypeOK'
  BY <1>5 DEF ExpireInvite, PruneInvite, TypeOK, InviteStates
<1> QED
  BY <1>2, <1>3, <1>4, <1>5 DEF Next

-----------------------------------------------------------------------------
(* Before the organization, invites and owners *)

\* Only create_organization leaves the state in which there is nothing.
LEMMA NextBefore ==
    ASSUME CapsAssumption, TypeOK, NothingBefore, Next PROVE NothingBefore'
<1> SUFFICES ASSUME org'.state = "none"
             PROVE  /\ license' = 0
                    /\ \A r \in RowIds : rows'[r] = NoRow
                    /\ \A i \in InviteIds : invites'[i] = "none"
                    /\ \A q \in Requests : request'[q].pc = "idle"
  BY DEF NothingBefore
<1>1. ASSUME NEW u \in Users, CreateOrganization(u) PROVE FALSE
  BY <1>1 DEF CreateOrganization, TypeOK
<1>2. org.state = "none"
  BY <1>1 DEF Next, BeginRequest, RequestStep, BeginInvite, BeginRemove, BeginUpdateRole,
              BeginTransfer, BeginSetLicense, BeginDelete, ReadInvite, BeginRevoke,
              CheckNotMember, AddPendingInvite, AddMember, RemoveMember, UpdateMemberRole,
              TransferOwnership, SetLicenseConfig, DeleteOrganization, ClaimInvite,
              IssueTokens, RevokePendingInvite, Abandon, ExpireInvite, PruneInvite, TypeOK
<1>3. /\ \A r \in RowIds : rows[r] = NoRow
      /\ \A i \in InviteIds : invites[i] = "none"
      /\ \A q \in Requests : request[q].pc = "idle"
  BY <1>2 DEF NothingBefore
<1>4. ASSUME NEW q \in Requests, RequestStep(q) PROVE FALSE
  BY <1>3, <1>4 DEF RequestStep, CheckNotMember, AddPendingInvite, AddMember, RemoveMember,
     UpdateMemberRole, TransferOwnership, SetLicenseConfig, DeleteOrganization, ClaimInvite,
     IssueTokens, RevokePendingInvite, Abandon, At
<1>5. \A u \in Users : \A roles : ~MayAct(u, roles)
  BY <1>3, ActorHasRow DEF ActiveRowsOf, ActiveRows, NoRow
<1>6. ASSUME NEW q \in Requests, BeginRequest(q) PROVE FALSE
  BY <1>2, <1>3, <1>5, <1>6 DEF BeginRequest, BeginInvite, BeginRemove, BeginUpdateRole,
     BeginTransfer, BeginSetLicense, BeginDelete, ReadInvite, BeginRevoke
<1>7. ASSUME NEW i \in InviteIds, ExpireInvite(i) \/ PruneInvite(i) PROVE FALSE
  BY <1>3, <1>7 DEF ExpireInvite, PruneInvite
<1> QED
  BY <1>1, <1>4, <1>6, <1>7 DEF Next

Claimable == {"none", "pending", "expired"}

\* A step that issues no tokens, brings no invite back and no login into hand.
LEMMA ClaimedSame ==
    ASSUME ClaimedOnce, logins' = logins,
           \A i \in InviteIds : invites'[i] \in Claimable => invites[i] \in Claimable,
           \A p \in Requests : At(p, "login")' =>
               At(p, "login") /\ request'[p].invite = request[p].invite
    PROVE  ClaimedOnce'
<1> SUFFICES ASSUME NEW i \in InviteIds
             PROVE  LET Logins == {q \in Requests : At(q, "login")' /\ request'[q].invite = i}
                    IN  /\ logins'[i] \in {0, 1}
                        /\ Logins # {} => logins'[i] = 0
                        /\ \A p, q \in Logins : p = q
                        /\ invites'[i] \in Claimable => Logins = {} /\ logins'[i] = 0
  BY DEF ClaimedOnce, Claimable
<1>1. {q \in Requests : At(q, "login")' /\ request'[q].invite = i} \subseteq
      {q \in Requests : At(q, "login") /\ request[q].invite = i}
  OBVIOUS
<1> QED
  BY <1>1 DEF ClaimedOnce, Claimable

\* A step that takes no transfer into hand and makes nobody an owner.
LEMMA OwnersShrink ==
    ASSUME OwnerIsTransferring, mode' = mode,
           \A p \in Requests : At(p, "transfer")' =>
               At(p, "transfer") /\ request'[p].actor = request[p].actor,
           \A r \in Owners' : r \in Owners /\ rows'[r].user = rows[r].user
    PROVE  OwnerIsTransferring'
BY DEF OwnerIsTransferring, AtMostOneOwner

\* The steps of requests but the claim of an invite, the login and the transfer.
LEMMA QuietSteps ==
    ASSUME OrgInv, NEW q \in Requests,
           RequestStep(q), ~ClaimInvite(q), ~IssueTokens(q), ~TransferOwnership(q)
    PROVE  ClaimedOnce' /\ OwnerIsTransferring'
<1> DEFINE Quiet ==
      /\ logins' = logins /\ mode' = mode
      /\ \A i \in InviteIds : invites'[i] \in Claimable => invites[i] \in Claimable
      /\ \A p \in Requests : p # q => request'[p] = request[p]
      /\ request'[q].pc \notin {"login", "transfer"}
<1>0. /\ request \in [Requests -> RequestRecords] /\ IdleRequest.pc = "idle"
      /\ invites \in [InviteIds -> InviteStates]
  BY DEF OrgInv, TypeOK, IdleRequest
<1>1. Quiet
  <2>1. CASE CheckNotMember(q)
    BY <1>0, <2>1 DEF CheckNotMember, Continue, RequestRecords
  <2>2. CASE AddPendingInvite(q)
    <3>1. \A i \in InviteIds : invites'[i] \in Claimable => invites[i] \in Claimable
      <4>1. First(FreeInvites) \in FreeInvites
        <5>1. FreeInvites \in SUBSET Nat
          BY DEF FreeInvites, InviteIds
        <5> QED
          BY <2>2, <5>1, FirstExists DEF AddPendingInvite
      <4> QED
        BY <1>0, <2>2, <4>1 DEF AddPendingInvite, FreeInvites, Claimable
    <3> QED
      BY <1>0, <2>2, <3>1 DEF AddPendingInvite, Continue, RequestRecords
  <2>3. CASE AddMember(q)
    BY <1>0, <2>3 DEF AddMember, Finish
  <2>4. CASE RemoveMember(q) \/ UpdateMemberRole(q)
    BY <1>0, <2>4 DEF RemoveMember, UpdateMemberRole, Finish
  <2>5. CASE SetLicenseConfig(q) \/ Abandon(q)
    BY <1>0, <2>5 DEF SetLicenseConfig, Abandon, Finish
  <2>6. CASE DeleteOrganization(q)
    BY <1>0, <2>6 DEF DeleteOrganization, Finish, Claimable
  <2>7. CASE RevokePendingInvite(q)
    BY <1>0, <2>7 DEF RevokePendingInvite, Finish, Claimable
  <2> QED
    BY <2>1, <2>2, <2>3, <2>4, <2>5, <2>6, <2>7 DEF RequestStep
<1>3. \A p \in Requests, pc \in {"login", "transfer"} :
          At(p, pc)' => At(p, pc) /\ request'[p] = request[p]
  BY <1>1 DEF At
<1>4. \A r \in Owners' : r \in Owners /\ rows'[r].user = rows[r].user
  <2>1. CASE AddMember(q)
    <3>1. PICK role \in Roles \ {"owner"} : Insert(request[q].target, role)
      BY <2>1 DEF AddMember
    <3>2. request[q].target \in Users \cup {NoUser}
      BY DEF OrgInv, TypeOK, RequestRecords
    <3>3. PICK x : \A r \in RowIds :
              rows'[r] = IF r = x THEN [user |-> request[q].target, role |-> role,
                                        active |-> TRUE]
                                  ELSE rows[r]
      BY <3>1, <3>2, InsertEffect DEF OrgInv
    <3> QED
      BY <3>1, <3>3 DEF Owners, ActiveRows
  <2>2. CASE RemoveMember(q)
    BY <2>2 DEF RemoveMember, Owners, ActiveRows, OrgInv, TypeOK, RowRecords
  <2>3. CASE UpdateMemberRole(q)
    <3>1. PICK x \in RowIds, role \in Roles \ {"owner"} :
              rows' = [rows EXCEPT ![x].role = role]
      BY <2>3 DEF UpdateMemberRole
    <3>2. rows \in [RowIds -> RowRecords]
      BY DEF OrgInv, TypeOK
    <3>3. /\ rows'[x].role = role
          /\ \A r \in RowIds \ {x} : rows'[r] = rows[r]
      BY <3>1, <3>2 DEF RowRecords
    <3> QED
      BY <3>1, <3>3 DEF Owners, ActiveRows
  <2>4. CASE DeleteOrganization(q)
    BY <2>4 DEF DeleteOrganization, Owners, ActiveRows, NoRow
  <2>5. CASE rows' = rows
    BY <2>5 DEF Owners, ActiveRows
  <2> QED
    BY <2>1, <2>2, <2>3, <2>4, <2>5 DEF RequestStep, CheckNotMember, AddPendingInvite,
       SetLicenseConfig, RevokePendingInvite, Abandon
<1> HIDE DEF Quiet
<1>5. ClaimedOnce'
  BY <1>1, <1>3, ClaimedSame DEF OrgInv, Quiet
<1>6. OwnerIsTransferring'
  BY <1>1, <1>3, <1>4, OwnersShrink DEF OrgInv, Quiet
<1> QED
  BY <1>5, <1>6

\* The claim of an invite takes the one login into hand.
LEMMA ClaimInviteInv ==
    ASSUME OrgInv, NEW q \in Requests, ClaimInvite(q)
    PROVE  ClaimedOnce' /\ OwnerIsTransferring'
<1> DEFINE c == request[q].invite
<1>1. /\ At(q, "accept") /\ invites[c] \in {"pending", "expired"}
      /\ invites' = [invites EXCEPT ![c] = "accepted"]
      /\ request' = [request EXCEPT ![q].pc = "login"]
      /\ UNCHANGED <<rows, mode, logins>>
  BY DEF ClaimInvite, Continue
<1>2. OwnerIsTransferring'
  BY <1>1, OwnersShrink DEF OrgInv, TypeOK, At, Owners, ActiveRows
<1>3. /\ request'[q].pc = "login" /\ request'[q].invite = c
      /\ \A p \in Requests \ {q} : request'[p] = request[p]
  BY <1>1 DEF OrgInv, TypeOK, RequestRecords
<1>4. c \in InviteIds \cup {0} /\ invites \in [InviteIds -> InviteStates]
  BY DEF OrgInv, TypeOK, RequestRecords
<1>5. \A i \in InviteIds : IF i = c THEN invites'[i] = "accepted"
                                    ELSE invites'[i] = invites[i]
  BY <1>1, <1>4
<1>6. ASSUME NEW i \in InviteIds
      PROVE  LET Logins == {p \in Requests : At(p, "login")' /\ request'[p].invite = i}
             IN  /\ logins'[i] \in {0, 1}
                 /\ Logins # {} => logins'[i] = 0
                 /\ \A p, r \in Logins : p = r
                 /\ invites'[i] \in {"none", "pending", "expired"} =>
                        Logins = {} /\ logins'[i] = 0
  <2> DEFINE Now == {p \in Requests : At(p, "login") /\ request[p].invite = i}
             New == {p \in Requests : At(p, "login")' /\ request'[p].invite = i}
  <2>1. /\ logins[i] \in {0, 1} /\ (Now # {} => logins[i] = 0)
        /\ \A p, r \in Now : p = r
        /\ invites[i] \in {"none", "pending", "expired"} => Now = {} /\ logins[i] = 0
    BY DEF OrgInv, ClaimedOnce
  <2>2. CASE i = c
    <3>1. Now = {} /\ logins[i] = 0
      BY <1>1, <2>1, <2>2
    <3>2. New = {q}
      BY <1>1, <1>3, <2>2, <3>1 DEF At
    <3> QED
      BY <1>1, <1>5, <2>2, <3>1, <3>2
  <2>3. CASE i # c
    <3>1. New = Now
      BY <1>1, <1>3, <2>3 DEF At
    <3> QED
      BY <1>1, <1>5, <2>1, <2>3, <3>1
  <2> QED
    BY <2>2, <2>3
<1> QED
  BY <1>2, <1>6 DEF ClaimedOnce

\* The login in hand is the only one of its invite.
LEMMA IssueTokensInv ==
    ASSUME OrgInv, NEW q \in Requests, IssueTokens(q)
    PROVE  ClaimedOnce' /\ OwnerIsTransferring'
<1> DEFINE c == request[q].invite
<1>1. /\ At(q, "login")
      /\ logins' = [logins EXCEPT ![c] = @ + 1]
      /\ request' = [request EXCEPT ![q] = IdleRequest]
      /\ UNCHANGED <<rows, mode, invites>>
  BY DEF IssueTokens, Finish
<1>2. OwnerIsTransferring'
  BY <1>1, OwnersShrink DEF OrgInv, TypeOK, At, Owners, ActiveRows, IdleRequest
<1>3. /\ request'[q].pc = "idle"
      /\ \A p \in Requests \ {q} : request'[p] = request[p]
  BY <1>1 DEF OrgInv, TypeOK, RequestRecords, IdleRequest
<1>4. \A i \in InviteIds : logins'[i] = IF i = c THEN logins[i] + 1 ELSE logins[i]
  BY <1>1 DEF OrgInv, TypeOK
<1>6. ASSUME NEW i \in InviteIds
      PROVE  LET Logins == {p \in Requests : At(p, "login")' /\ request'[p].invite = i}
             IN  /\ logins'[i] \in {0, 1}
                 /\ Logins # {} => logins'[i] = 0
                 /\ \A p, r \in Logins : p = r
                 /\ invites'[i] \in {"none", "pending", "expired"} =>
                        Logins = {} /\ logins'[i] = 0
  <2> DEFINE Now == {p \in Requests : At(p, "login") /\ request[p].invite = i}
             New == {p \in Requests : At(p, "login")' /\ request'[p].invite = i}
  <2>1. /\ logins[i] \in {0, 1} /\ (Now # {} => logins[i] = 0)
        /\ \A p, r \in Now : p = r
        /\ invites[i] \in {"none", "pending", "expired"} => Now = {} /\ logins[i] = 0
    BY DEF OrgInv, ClaimedOnce
  <2>2. CASE i = c
    <3>1. q \in Now /\ logins[i] = 0
      BY <1>1, <2>1, <2>2
    <3>2. New = {}
      BY <1>3, <2>1, <3>1 DEF At
    <3>3. logins'[i] = 1 /\ invites[i] \notin {"none", "pending", "expired"}
      BY <1>4, <2>1, <2>2, <3>1
    <3> QED
      BY <1>1, <3>2, <3>3
  <2>3. CASE i # c
    <3>1. New = Now
      BY <1>1, <1>3, <2>3 DEF At
    <3> QED
      BY <1>1, <1>4, <2>1, <2>3, <3>1
  <2> QED
    BY <2>2, <2>3
<1> QED
  BY <1>2, <1>6 DEF ClaimedOnce

\* A transfer demotes the only owner there may be and promotes one row at most.
LEMMA TransferOwnershipInv ==
    ASSUME CapsAssumption, OrgInv, NEW q \in Requests, TransferOwnership(q)
    PROVE  ClaimedOnce' /\ OwnerIsTransferring'
<1> DEFINE a == request[q].actor
           t == request[q].target
<1>1. /\ At(q, "transfer")
      /\ Cardinality(RowsOf(t)) <= 1
      /\ rows' = [r \in RowIds |->
           CASE r \in RowsOf(a) -> [rows[r] EXCEPT !.role = "admin"]
             [] r \in RowsOf(t) -> [rows[r] EXCEPT !.role = "owner"]
             [] OTHER -> rows[r]]
      /\ request' = [request EXCEPT ![q] = IdleRequest]
      /\ UNCHANGED <<mode, invites, logins>>
  BY DEF TransferOwnership, Finish
<1>2. /\ request'[q].pc = "idle"
      /\ \A p \in Requests \ {q} : request'[p] = request[p]
  BY <1>1 DEF OrgInv, TypeOK, RequestRecords, IdleRequest
<1>3. ClaimedOnce'
  BY <1>1, <1>2, ClaimedSame DEF OrgInv, At
<1>4. ASSUME mode # "free" PROVE AtMostOneOwner'
  <2>1. \A r \in Owners : r \in RowsOf(a)
    BY <1>1, <1>4 DEF OrgInv, OwnerIsTransferring, Owners, ActiveRows, RowsOf
  <2>2. \A r, s \in RowsOf(t) : r = s
    BY <1>1, NoTwoRows DEF RowsOf
  <2>3. ASSUME NEW r \in Owners' PROVE r \in RowsOf(t)
    <3>1. r \in RowIds /\ rows'[r].active /\ rows'[r].role = "owner" /\ rows[r] \in RowRecords
      BY <2>3 DEF Owners, ActiveRows, OrgInv, TypeOK
    <3>2. CASE r \in RowsOf(a)
      BY <1>1, <3>1, <3>2 DEF RowRecords
    <3>3. CASE r \notin RowsOf(a) /\ r \notin RowsOf(t)
      BY <1>1, <2>1, <3>1, <3>3 DEF Owners, ActiveRows
    <3> QED
      BY <3>2, <3>3
  <2> QED
    BY <2>2, <2>3 DEF AtMostOneOwner
<1>5. ASSUME mode # "free" PROVE \A p \in Requests : ~At(p, "transfer")'
  BY <1>1, <1>2, <1>5 DEF OrgInv, OwnerIsTransferring, At
<1> QED
  BY <1>1, <1>3, <1>4, <1>5 DEF OwnerIsTransferring

\* A request that begins changes nothing; a transfer is begun by the owner.
LEMMA BeginInv ==
    ASSUME CapsAssumption, OrgInv, NEW q \in Requests, BeginRequest(q)
    PROVE  ClaimedOnce' /\ OwnerIsTransferring'
<1>1. UNCHANGED <<rows, invites, mode, logins>>
  BY DEF BeginRequest, BeginInvite, BeginRemove, BeginUpdateRole, BeginTransfer,
     BeginSetLicense, BeginDelete, ReadInvite, BeginRevoke
<1>0. request \in [Requests -> RequestRecords]
  BY DEF OrgInv, TypeOK
<1>2. /\ \A p \in Requests \ {q} : request'[p] = request[p]
      /\ request'[q].pc # "login"
      /\ request'[q].pc = "transfer" =>
             \E actor, target \in Users : BeginTransfer(q, actor, target)
  <2>1. ASSUME NEW pc, NEW a, NEW t, NEW i, Begin(q, pc, a, t, i)
        PROVE  /\ \A p \in Requests \ {q} : request'[p] = request[p]
               /\ request'[q].pc = pc
    BY <1>0, <2>1 DEF Begin
  <2>2. \/ \E actor, target \in Users : BeginTransfer(q, actor, target)
        \/ \E pc, a, t, i : pc \notin {"login", "transfer"} /\ Begin(q, pc, a, t, i)
    BY DEF BeginRequest, BeginInvite, BeginRemove, BeginUpdateRole,
           BeginSetLicense, BeginDelete, ReadInvite, BeginRevoke
  <2>3. CASE \E actor, target \in Users : BeginTransfer(q, actor, target)
    BY <2>1, <2>3 DEF BeginTransfer
  <2>4. CASE \E pc, a, t, i : pc \notin {"login", "transfer"} /\ Begin(q, pc, a, t, i)
    BY <2>1, <2>4
  <2> QED
    BY <2>2, <2>3, <2>4
<1>3. ClaimedOnce'
  BY <1>1, <1>2, ClaimedSame DEF OrgInv, At
<1>4. CASE request'[q].pc # "transfer"
  <2>1. Owners' = Owners
    BY <1>1 DEF Owners, ActiveRows
  <2>2. \A p \in Requests : At(p, "transfer")' => p # q
    BY <1>4 DEF At
  <2> QED
    BY <1>1, <1>2, <1>3, <2>1, <2>2, OwnersShrink DEF OrgInv, At
<1>5. CASE request'[q].pc = "transfer"
  <2>1. PICK actor \in Users, target \in Users : BeginTransfer(q, actor, target)
    BY <1>2, <1>5
  <2>2. /\ request'[q].actor = actor
        /\ mode # "free" => \A p \in Requests : ~At(p, "transfer")
    BY <2>1 DEF BeginTransfer, Begin, OrgInv, TypeOK
  <2>3. \E r \in ActiveRowsOf(actor) : rows[r].role \in {"owner"}
    BY <2>1, ActorHasRow DEF BeginTransfer
  <2>4. \E r \in Owners : rows[r].user = actor
    BY <2>3 DEF Owners, ActiveRowsOf, RowsOf, ActiveRows
  <2>5. Owners' = Owners
    BY <1>1 DEF Owners, ActiveRows
  <2>6. ASSUME mode # "free"
        PROVE  /\ AtMostOneOwner'
               /\ \A r \in Owners : rows[r].user = actor
               /\ \A p \in Requests : request'[p].pc = "transfer" => p = q
    BY <1>2, <2>2, <2>4, <2>5, <2>6 DEF OrgInv, OwnerIsTransferring, AtMostOneOwner, At
  <2>7. ASSUME mode # "free", NEW p \in Requests, NEW r \in Owners', At(p, "transfer")'
        PROVE  rows'[r].user = request'[p].actor
    <3>1. p = q /\ r \in Owners
      BY <2>5, <2>6, <2>7 DEF At
    <3> QED
      BY <1>1, <2>2, <2>6, <2>7, <3>1
  <2> QED
    BY <1>1, <1>3, <2>6, <2>7 DEF OwnerIsTransferring, At
<1> QED
  BY <1>3, <1>4, <1>5

-----------------------------------------------------------------------------
(* The invariant of every mode *)

\* OrgInv holds at the start ...
LEMMA InitInv == ASSUME CapsAssumption, Init PROVE OrgInv
<1>1. TypeOK
  BY InitTypes
<1>2. NothingBefore
  BY DEF Init, NothingBefore, IdleRequest
<1>3. ClaimedOnce
  BY DEF Init, ClaimedOnce, IdleRequest, At
<1>4. OwnerIsTransferring
  BY DEF Init, OwnerIsTransferring, AtMostOneOwner, Owners, ActiveRows, NoRow,
         IdleRequest, At
<1> QED
  BY <1>1, <1>2, <1>3, <1>4 DEF OrgInv

\* ... and is inductive.
LEMMA NextInv == ASSUME CapsAssumption, OrgInv, [Next]_vars PROVE OrgInv'
<1>1. CASE UNCHANGED vars
  BY <1>1 DEF vars, OrgInv, TypeOK, NothingBefore, ClaimedOnce, OwnerIsTransferring,
              AtMostOneOwner, Owners, ActiveRows, At
<1>2. CASE Next
  <2>1. TypeOK' /\ NothingBefore'
    BY <1>2, NextTypes, NextBefore DEF OrgInv
  <2>2. ASSUME NEW u \in Users, CreateOrganization(u)
        PROVE  ClaimedOnce' /\ OwnerIsTransferring'
    <3>1. UNCHANGED <<invites, request, mode, logins>> /\ Insert(u, "owner")
      BY <2>2 DEF CreateOrganization
    <3>2. ClaimedOnce'
      BY <3>1, ClaimedSame DEF OrgInv, At
    <3>3. \A r \in RowIds : rows[r] = NoRow
      BY <2>2 DEF CreateOrganization, OrgInv, NothingBefore
    <3>4. PICK x : \A r \in RowIds :
              rows'[r] = IF r = x THEN [user |-> u, role |-> "owner", active |-> TRUE]
                                  ELSE rows[r]
      BY <3>1, InsertEffect DEF OrgInv, Roles
    <3>5. \A r \in Owners' : r = x
      BY <3>3, <3>4 DEF Owners, ActiveRows, NoRow
    <3>6. \A q \in Requests : ~At(q, "transfer")'
      BY <2>2, <3>1 DEF CreateOrganization, OrgInv, NothingBefore, At
    <3> QED
      BY <3>2, <3>5, <3>6 DEF OwnerIsTransferring, AtMostOneOwner
  <2>3. ASSUME NEW q \in Requests, BeginRequest(q) \/ RequestStep(q)
        PROVE  ClaimedOnce' /\ OwnerIsTransferring'
    BY <2>3, BeginInv, QuietSteps, ClaimInviteInv, IssueTokensInv, TransferOwnershipInv
  <2>4. ASSUME NEW i \in InviteIds, ExpireInvite(i) \/ PruneInvite(i)
        PROVE  ClaimedOnce' /\ OwnerIsTransferring'
    <3>1. UNCHANGED <<rows, request, mode, logins>>
      BY <2>4 DEF ExpireInvite, PruneInvite
    <3>2. \A j \in InviteIds : invites'[j] \in Claimable => invites[j] \in Claimable
      BY <2>4 DEF ExpireInvite, PruneInvite, Claimable, OrgInv, TypeOK
    <3> QED
      BY <3>1, <3>2, ClaimedSame, OwnersShrink DEF OrgInv, At, Owners, ActiveRows
  <2> QED
    BY <1>2, <2>1, <2>2, <2>3, <2>4 DEF Next, OrgInv
<1> QED
  BY <1>1, <1>2

\* OrgInv always holds.
THEOREM OrgInvAlways == Spec => []OrgInv
<1>1. Init => OrgInv
  BY CapsAssumption, InitInv
<1>2. OrgInv /\ [Next]_vars => OrgInv'
  BY CapsAssumption, NextInv
<1> QED
  BY <1>1, <1>2, PTL DEF Spec

\* A magic link logs in once (accept_invite), in every mode.
THEOREM LoginsOnce == Spec => []LoginOncePerInvite
<1>1. OrgInv => LoginOncePerInvite
  BY DEF OrgInv, ClaimedOnce, LoginOncePerInvite
<1> QED
  BY <1>1, OrgInvAlways, PTL

\* Every variable keeps its type, and no seat cap is zero.
THEOREM TypesHold == Spec => []TypeOK
<1>1. OrgInv => TypeOK
  BY DEF OrgInv
<1> QED
  BY <1>1, OrgInvAlways, PTL

\* While no two transfers of ownership overlap there is one owner at most,
\* whatever else overlaps (transfer_ownership).
THEOREM OneOwner == Spec => []OneOwnerUnlessTransfersOverlap
<1>1. OrgInv => OneOwnerUnlessTransfersOverlap
  BY DEF OrgInv, OwnerIsTransferring, OneOwnerUnlessTransfersOverlap
<1> QED
  BY <1>1, OrgInvAlways, PTL

-----------------------------------------------------------------------------
(* Requests one at a time *)

\* Only an insert makes a row active, and no step gives an active row away.
LEMMA ActiveRowsShrink ==
    ASSUME TypeOK, NEW q \in Requests, RequestStep(q), ~AddMember(q)
    PROVE  \A r \in RowIds :
               rows'[r].active => rows[r].active /\ rows'[r].user = rows[r].user
<1>1. rows \in [RowIds -> RowRecords]
  BY DEF TypeOK
<1>2. CASE RemoveMember(q)
  <2>1. PICK x \in RowIds : rows' = [rows EXCEPT ![x].active = FALSE]
    BY <1>2 DEF RemoveMember
  <2> QED
    BY <1>1, <2>1 DEF RowRecords
<1>3. CASE UpdateMemberRole(q)
  <2>1. PICK x \in RowIds, role \in Roles : rows' = [rows EXCEPT ![x].role = role]
    BY <1>3 DEF UpdateMemberRole
  <2> QED
    BY <1>1, <2>1 DEF RowRecords
<1>4. CASE TransferOwnership(q)
  <2>1. ASSUME NEW r \in RowIds
        PROVE  \/ rows'[r] = [rows[r] EXCEPT !.role = "admin"]
               \/ rows'[r] = [rows[r] EXCEPT !.role = "owner"]
               \/ rows'[r] = rows[r]
    BY <1>4, <2>1 DEF TransferOwnership
  <2> QED
    BY <1>1, <2>1 DEF RowRecords
<1>5. CASE DeleteOrganization(q)
  BY <1>5 DEF DeleteOrganization, NoRow
<1>6. CASE rows' = rows
  BY <1>6
<1> QED
  BY <1>2, <1>3, <1>4, <1>5, <1>6 DEF RequestStep, CheckNotMember, AddPendingInvite,
     SetLicenseConfig, ClaimInvite, IssueTokens, RevokePendingInvite, Abandon

\* Rows that stay are active and of their users as before.
LEMMA SameRows ==
    ASSUME rows' = rows
    PROVE  /\ ActiveRows' = ActiveRows
           /\ \A u : ActiveRowsOf(u)' = ActiveRowsOf(u)
BY DEF ActiveRowsOf, RowsOf, ActiveRows

\* A step that touches no request, and no invite of a deleted organization.
LEMMA SameAlone ==
    ASSUME Alone, UNCHANGED <<org, license, rows, request>>,
           invites' = invites \/ org.state # "deleted"
    PROVE  Alone'
<1>1. /\ \A u : ActiveRowsOf(u)' = ActiveRowsOf(u)
      /\ ActiveRows' = ActiveRows /\ SeatCap' = SeatCap
  BY SameRows DEF SeatCap
<1>2. \A p, q \in Requests : ~At(p, "idle")' /\ ~At(q, "idle")' => p = q
  BY DEF Alone, At
<1>3. \A u \in Users : \A r, s \in ActiveRowsOf(u)' : r = s
  BY <1>1 DEF Alone
<1>4. \A q \in Requests :
        /\ request'[q].pc \in {"add invite", "add member"} =>
               ActiveRowsOf(request[q].target)' = {}
        /\ request'[q].pc \in Adding => Cardinality(ActiveRows') < SeatCap'
  BY <1>1 DEF Alone
<1>5. org'.state = "deleted" =>
        /\ license' = 0
        /\ \A r \in RowIds : rows'[r] = NoRow
        /\ \A i \in InviteIds : invites'[i] \in {"none", "gone"}
        /\ \A q \in Requests : At(q, "idle")'
  BY DEF Alone, At
<1> QED
  BY <1>2, <1>3, <1>4, <1>5 DEF Alone

\* A step that ends a request that is alone.
LEMMA EndsAlone ==
    ASSUME TypeOK, Alone, NEW q \in Requests, ~At(q, "idle"), Finish(q),
           \A u \in Users : \A r, s \in ActiveRowsOf(u)' : r = s,
           org'.state # "deleted"
    PROVE  Alone'
<1>1. /\ request \in [Requests -> RequestRecords] /\ IdleRequest.pc = "idle"
      /\ \A p \in Requests \ {q} : At(p, "idle")
  BY DEF TypeOK, Alone, IdleRequest
<1>2. \A p \in Requests : request'[p].pc = "idle"
  BY <1>1 DEF Finish, At
<1> QED
  BY <1>2 DEF Alone, At, Adding

\* A step of a request that is alone and goes on, and touches no row.
LEMMA GoesOnAlone ==
    ASSUME TypeOK, Alone, NEW q \in Requests, ~At(q, "idle"), NEW pc, Continue(q, pc),
           UNCHANGED <<org, license, rows>>,
           pc \in {"add invite", "add member"} => ActiveRowsOf(request[q].target) = {},
           pc \in Adding => request[q].pc \in Adding
    PROVE  Alone'
<1>1. /\ request \in [Requests -> RequestRecords]
      /\ \A p \in Requests \ {q} : At(p, "idle")
  BY DEF TypeOK, Alone
<1>2. /\ request'[q].pc = pc /\ request'[q].target = request[q].target
      /\ \A p \in Requests \ {q} : request'[p].pc = "idle"
  BY <1>1 DEF Continue, At, RequestRecords
<1>3. /\ \A u : ActiveRowsOf(u)' = ActiveRowsOf(u)
      /\ ActiveRows' = ActiveRows /\ SeatCap' = SeatCap
  BY DEF ActiveRowsOf, RowsOf, ActiveRows, SeatCap
<1>4. org'.state # "deleted"
  BY DEF Alone
<1>5. \A p, r \in Requests : ~At(p, "idle")' /\ ~At(r, "idle")' => p = r
  BY <1>2 DEF At
<1>6. \A u \in Users : \A r, s \in ActiveRowsOf(u)' : r = s
  BY <1>3 DEF Alone
<1>7. ASSUME NEW p \in Requests
      PROVE  /\ request'[p].pc \in {"add invite", "add member"} =>
                    ActiveRowsOf(request'[p].target) = {}
             /\ request'[p].pc \in Adding => Cardinality(ActiveRows) < SeatCap
  <2>1. CASE p = q
    BY <1>2, <2>1 DEF Alone
  <2>2. CASE p # q
    BY <1>2, <2>2 DEF Adding
  <2> QED
    BY <2>1, <2>2
<1>8. \A p \in Requests :
        /\ request'[p].pc \in {"add invite", "add member"} =>
               ActiveRowsOf(request[p].target)' = {}
        /\ request'[p].pc \in Adding => Cardinality(ActiveRows') < SeatCap'
  BY <1>3, <1>7 DEF ActiveRowsOf, RowsOf, ActiveRows
<1> QED
  BY <1>4, <1>5, <1>6, <1>8 DEF Alone

\* A request that is alone leaves Alone true, whatever it does.
LEMMA StepAlone ==
    ASSUME CapsAssumption, OrgInv, Alone, NEW q \in Requests, RequestStep(q) PROVE Alone'
<1>0. ~At(q, "idle") /\ TypeOK
  BY DEF OrgInv, RequestStep, CheckNotMember, AddPendingInvite, AddMember, RemoveMember,
     UpdateMemberRole, TransferOwnership, SetLicenseConfig, DeleteOrganization, ClaimInvite,
     IssueTokens, RevokePendingInvite, Abandon, At
<1>1. org.state # "deleted"
  BY <1>0 DEF Alone
<1>2. ASSUME ~AddMember(q)
      PROVE  \A u \in Users : \A r, s \in ActiveRowsOf(u)' : r = s
  <2>1. \A u \in Users : ActiveRowsOf(u)' \subseteq ActiveRowsOf(u)
    BY <1>0, <1>2, ActiveRowsShrink DEF ActiveRowsOf, RowsOf, ActiveRows
  <2> QED
    BY <2>1 DEF Alone
<1>3. CASE CheckNotMember(q)
  BY <1>0, <1>3, GoesOnAlone DEF CheckNotMember, Adding, At
<1>4. CASE AddPendingInvite(q)
  <2>1. ActiveRowsOf(request[q].target) = {}
    BY <1>4 DEF Alone, AddPendingInvite, At
  <2> QED
    BY <1>0, <1>4, <2>1, GoesOnAlone DEF AddPendingInvite, Adding, At
<1>5. CASE AddMember(q)
  <2> DEFINE t == request[q].target
  <2>1. PICK role \in Roles : Insert(t, role)
    BY <1>5 DEF AddMember
  <2>2. t \in Users \cup {NoUser}
    BY <1>0 DEF TypeOK, RequestRecords
  <2>3. PICK x : \A r \in RowIds :
            rows'[r] = IF r = x THEN [user |-> t, role |-> role, active |-> TRUE]
                                ELSE rows[r]
    BY <1>0, <2>1, <2>2, InsertEffect
  <2>4. ActiveRowsOf(t) = {}
    BY <1>5 DEF Alone, AddMember, At
  <2>5. ASSUME NEW u \in Users, NEW r \in ActiveRowsOf(u)', NEW s \in ActiveRowsOf(u)'
        PROVE  r = s
    <3>1. CASE u = t
      BY <2>3, <2>4, <3>1 DEF ActiveRowsOf, RowsOf, ActiveRows
    <3>2. CASE u # t
      <4>1. r \in ActiveRowsOf(u) /\ s \in ActiveRowsOf(u)
        BY <2>3, <3>2 DEF ActiveRowsOf, RowsOf, ActiveRows
      <4> QED
        BY <4>1 DEF Alone
    <3> QED
      BY <3>1, <3>2
  <2> QED
    BY <1>0, <1>1, <1>5, <2>5, EndsAlone DEF AddMember
<1>6. CASE RemoveMember(q) \/ UpdateMemberRole(q) \/ TransferOwnership(q)
  <2>1. ~AddMember(q) /\ Finish(q) /\ org' = org
    BY <1>6 DEF RemoveMember, UpdateMemberRole, TransferOwnership, AddMember, At
  <2> QED
    BY <1>0, <1>1, <1>2, <2>1, EndsAlone
<1>7. CASE SetLicenseConfig(q) \/ IssueTokens(q) \/ RevokePendingInvite(q) \/ Abandon(q)
  <2>1. Finish(q) /\ rows' = rows
    BY <1>7 DEF SetLicenseConfig, IssueTokens, RevokePendingInvite, Abandon
  <2>2. org'.state # "deleted"
    BY <1>0, <1>1, <1>7
       DEF SetLicenseConfig, IssueTokens, RevokePendingInvite, Abandon, TypeOK
  <2>3. \A u \in Users : \A r, s \in ActiveRowsOf(u)' : r = s
    BY <2>1, SameRows DEF Alone
  <2> QED
    BY <1>0, <2>1, <2>2, <2>3, EndsAlone
<1>8. CASE DeleteOrganization(q)
  <2>1. /\ license' = 0 /\ Finish(q)
        /\ \A r \in RowIds : rows'[r] = NoRow
        /\ \A i \in InviteIds : invites'[i] \in {"none", "gone"}
    BY <1>8 DEF DeleteOrganization
  <2>2. \A p \in Requests : request'[p].pc = "idle"
    BY <1>0, <2>1 DEF Alone, Finish, At, TypeOK, IdleRequest
  <2>3. \A u : ActiveRowsOf(u)' = {}
    BY <2>1 DEF ActiveRowsOf, RowsOf, ActiveRows, NoRow
  <2> QED
    BY <2>1, <2>2, <2>3 DEF Alone, At, Adding
<1>9. CASE ClaimInvite(q)
  BY <1>0, <1>9, GoesOnAlone DEF ClaimInvite, Adding
<1> QED
  BY <1>3, <1>4, <1>5, <1>6, <1>7, <1>8, <1>9 DEF RequestStep

\* So does a request that begins when no other is in hand.
LEMMA BeginAlone ==
    ASSUME CapsAssumption, OrgInv, Alone, mode = "serial",
           NEW q \in Requests, BeginRequest(q)
    PROVE  Alone'
<1>1. UNCHANGED <<org, license, rows, invites>>
  BY DEF BeginRequest, BeginInvite, BeginRemove, BeginUpdateRole, BeginTransfer,
     BeginSetLicense, BeginDelete, ReadInvite, BeginRevoke
<1>2. request \in [Requests -> RequestRecords]
  BY DEF OrgInv, TypeOK
<1>3. ASSUME NEW pc, NEW a, NEW t, NEW i, Begin(q, pc, a, t, i)
      PROVE  request'[q].pc = pc /\ \A p \in Requests \ {q} : request'[p].pc = "idle"
  BY <1>2, <1>3 DEF Begin
<1>4. /\ request'[q].pc \notin {"add invite", "add member"}
      /\ request'[q].pc \in Adding => Cardinality(ActiveRows) < SeatCap
      /\ \A p \in Requests \ {q} : request'[p].pc = "idle"
  <2>1. \/ \E actor, target \in Users : BeginInvite(q, actor, target)
        \/ \E pc, a, t, i : pc \notin Adding /\ Begin(q, pc, a, t, i)
    BY DEF BeginRequest, BeginRemove, BeginUpdateRole, BeginTransfer,
           BeginSetLicense, BeginDelete, ReadInvite, BeginRevoke, Adding
  <2>2. CASE \E actor, target \in Users : BeginInvite(q, actor, target)
    <3>1. PICK target \in Users : /\ Begin(q, "check member", NoUser, target, 0)
                                   /\ Cardinality(ActiveRows) < SeatCap
      BY <2>2 DEF BeginInvite
    <3>2. request'[q].pc = "check member" /\ \A p \in Requests \ {q} : request'[p].pc = "idle"
      BY <1>3, <3>1
    <3> QED
      BY <3>1, <3>2
  <2>3. CASE \E pc, a, t, i : pc \notin Adding /\ Begin(q, pc, a, t, i)
    BY <1>3, <2>3 DEF Adding
  <2> QED
    BY <2>1, <2>2, <2>3
<1>5. ASSUME org.state = "deleted" PROVE FALSE
  <2>1. /\ \A r \in RowIds : rows[r] = NoRow
        /\ \A i \in InviteIds : invites[i] \in {"none", "gone"}
    BY <1>5 DEF Alone
  <2>2. \A u \in Users : \A roles : ~MayAct(u, roles)
    BY <2>1, ActorHasRow DEF ActiveRowsOf, ActiveRows, NoRow
  <2> QED
    BY <1>5, <2>1, <2>2 DEF BeginRequest, BeginInvite, BeginRemove, BeginUpdateRole,
       BeginTransfer, BeginSetLicense, BeginDelete, ReadInvite, BeginRevoke
<1>6. /\ \A u : ActiveRowsOf(u)' = ActiveRowsOf(u)
      /\ ActiveRows' = ActiveRows /\ SeatCap' = SeatCap
  BY <1>1 DEF ActiveRowsOf, RowsOf, ActiveRows, SeatCap
<1>7. \A p, r \in Requests : ~At(p, "idle")' /\ ~At(r, "idle")' => p = r
  BY <1>4 DEF At
<1>8. \A u \in Users : \A r, s \in ActiveRowsOf(u)' : r = s
  BY <1>6 DEF Alone
<1>9. \A p \in Requests :
        /\ request'[p].pc \notin {"add invite", "add member"}
        /\ request'[p].pc \in Adding => Cardinality(ActiveRows') < SeatCap'
  BY <1>4, <1>6 DEF Adding
<1> QED
  BY <1>1, <1>5, <1>7, <1>8, <1>9 DEF Alone

\* SerialInv is inductive, given OrgInv.
LEMMA NextSerial ==
    ASSUME CapsAssumption, OrgInv, SerialInv, [Next]_vars PROVE SerialInv'
<1>1. CASE UNCHANGED vars
  BY <1>1, SameAlone DEF vars, SerialInv
<1>2. CASE Next
  <2>0. mode' = mode
    BY <1>2 DEF Next, BeginRequest, RequestStep, BeginInvite, BeginRemove, BeginUpdateRole,
       BeginTransfer, BeginSetLicense, BeginDelete, ReadInvite, BeginRevoke,
       CheckNotMember, AddPendingInvite, AddMember, RemoveMember, UpdateMemberRole,
       TransferOwnership, SetLicenseConfig, DeleteOrganization, ClaimInvite,
       IssueTokens, RevokePendingInvite, Abandon, ExpireInvite, PruneInvite,
       CreateOrganization
  <2> SUFFICES ASSUME mode = "serial" PROVE Alone'
    BY <2>0 DEF SerialInv
  <2>1. Alone
    BY DEF SerialInv
  <2>2. ASSUME NEW u \in Users, CreateOrganization(u) PROVE Alone'
    <3>1. /\ Insert(u, "owner") /\ request' = request /\ org'.state = "live"
          /\ \A r \in RowIds : rows[r] = NoRow
          /\ \A q \in Requests : request[q].pc = "idle"
      BY <2>2 DEF CreateOrganization, OrgInv, NothingBefore, TypeOK
    <3>2. PICK x : \A r \in RowIds :
              rows'[r] = IF r = x THEN [user |-> u, role |-> "owner", active |-> TRUE]
                                  ELSE rows[r]
      BY <3>1, InsertEffect DEF OrgInv, Roles
    <3>3. \A v \in Users : \A r \in ActiveRowsOf(v)' : r = x
      BY <3>1, <3>2 DEF ActiveRowsOf, RowsOf, ActiveRows, NoRow
    <3> QED
      BY <3>1, <3>3 DEF Alone, At, Adding
  <2>3. ASSUME NEW q \in Requests, BeginRequest(q) \/ RequestStep(q) PROVE Alone'
    BY <2>1, <2>3, BeginAlone, StepAlone
  <2>4. ASSUME NEW i \in InviteIds, ExpireInvite(i) \/ PruneInvite(i) PROVE Alone'
    <3>1. UNCHANGED <<org, license, rows, request>>
      BY <2>4 DEF ExpireInvite, PruneInvite
    <3>2. org.state # "deleted"
      BY <2>1, <2>4 DEF Alone, ExpireInvite, PruneInvite
    <3> QED
      BY <2>1, <3>1, <3>2, SameAlone
  <2> QED
    BY <1>2, <2>2, <2>3, <2>4 DEF Next
<1> QED
  BY <1>1, <1>2

\* What SerialInv says of requests that come one at a time.
LEMMA SerialInvAlways == Spec => []SerialInv
<1>1. Init => SerialInv
  <2> SUFFICES ASSUME Init PROVE Alone
    BY DEF SerialInv
  <2>1. \A q \in Requests : request[q].pc = "idle"
    BY DEF Init, IdleRequest
  <2>2. \A u : ActiveRowsOf(u) = {}
    BY DEF Init, ActiveRowsOf, RowsOf, ActiveRows, NoRow
  <2>3. org.state # "deleted"
    BY DEF Init
  <2> QED
    BY <2>1, <2>2, <2>3 DEF Alone, At, Adding
<1>2. OrgInv /\ SerialInv /\ [Next]_vars => SerialInv'
  BY CapsAssumption, NextSerial
<1> QED
  BY <1>1, <1>2, OrgInvAlways, PTL DEF Spec

\* However often a user is invited, removed and invited again, one request at a
\* time leaves one active row of the user (invite_member, get_membership).
THEOREM MemberOnce == Spec => []MemberOnceWhenSerial
<1>1. SerialInv => MemberOnceWhenSerial
  <2> SUFFICES ASSUME Alone, NEW u \in Users PROVE Cardinality(ActiveRowsOf(u)) <= 1
    BY DEF SerialInv, MemberOnceWhenSerial
  <2>1. ActiveRowsOf(u) \in SUBSET RowIds
    BY DEF ActiveRowsOf, RowsOf
  <2> QED
    BY <2>1, CapsAssumption, NoTwoRows DEF Alone
<1> QED
  BY <1>1, SerialInvAlways, PTL

\* A deletion, one request at a time, leaves no row, license or usable invite.
THEOREM NothingLeft == Spec => []NothingLeftWhenSerial
<1>1. SerialInv => NothingLeftWhenSerial
  BY DEF SerialInv, Alone, NothingLeftWhenSerial
<1> QED
  BY <1>1, SerialInvAlways, PTL

\* A member is added to a free seat only: the cap that was tested when the
\* request began is the cap when it writes (invite_member).
LEMMA StepKeepsSeats ==
    ASSUME CapsAssumption, OrgInv, SerialInv, [Next]_vars, mode = "serial",
           Cardinality(ActiveRows') > Cardinality(ActiveRows)
    PROVE  Cardinality(ActiveRows') <= SeatCap
<1>0. TypeOK /\ Alone
  BY DEF OrgInv, SerialInv
<1>1. /\ IsFiniteSet(ActiveRows) /\ Cardinality(ActiveRows) \in Nat
      /\ IsFiniteSet(ActiveRows') /\ Cardinality(ActiveRows') \in Nat
  <2>1. ActiveRows \in SUBSET RowIds /\ ActiveRows' \in SUBSET RowIds
    BY DEF ActiveRows
  <2> QED
    BY <2>1, RowsFinite
<1>2. SeatCap \in Nat
  BY <1>0 DEF SeatCap, TypeOK
<1>3. ASSUME ActiveRows' \subseteq ActiveRows PROVE FALSE
  BY <1>1, <1>3, FS_Subset
<1>4. ASSUME NEW u, NEW role \in Roles, u \in Users \cup {NoUser}, Insert(u, role)
      PROVE  Cardinality(ActiveRows') <= Cardinality(ActiveRows) + 1
  <2>1. PICK x : \A r \in RowIds :
            rows'[r] = IF r = x THEN [user |-> u, role |-> role, active |-> TRUE]
                                ELSE rows[r]
    BY <1>0, <1>4, InsertEffect
  <2>2. ActiveRows' \subseteq ActiveRows \cup {x}
    BY <2>1 DEF ActiveRows
  <2>3. /\ IsFiniteSet(ActiveRows \cup {x})
        /\ Cardinality(ActiveRows \cup {x}) <= Cardinality(ActiveRows) + 1
    BY <1>1, FS_AddElement
  <2>4. Cardinality(ActiveRows') <= Cardinality(ActiveRows \cup {x})
    BY <2>2, <2>3, FS_Subset
  <2>5. Cardinality(ActiveRows \cup {x}) \in Nat
    BY <2>3, FS_CardinalityType
  <2> QED
    BY <1>1, <2>3, <2>4, <2>5
<1>5. ASSUME NEW u \in Users, CreateOrganization(u)
      PROVE  Cardinality(ActiveRows') <= SeatCap
  <2>1. /\ license = 0 /\ org.cap \in Nat \ {0} /\ Insert(u, "owner")
        /\ \A r \in RowIds : rows[r] = NoRow
    BY <1>5 DEF CreateOrganization, OrgInv, NothingBefore, TypeOK
  <2>2. ActiveRows = {}
    BY <2>1 DEF ActiveRows, NoRow
  <2>3. Cardinality(ActiveRows) = 0
    BY <2>2, FS_EmptySet
  <2>4. Cardinality(ActiveRows') <= Cardinality(ActiveRows) + 1
    BY <1>4, <2>1 DEF Roles
  <2>5. SeatCap >= 1
    BY <2>1 DEF SeatCap
  <2> QED
    BY <1>1, <1>2, <2>3, <2>4, <2>5
<1>6. ASSUME NEW q \in Requests, AddMember(q)
      PROVE  Cardinality(ActiveRows') <= SeatCap
  <2>1. Cardinality(ActiveRows) < SeatCap
    BY <1>0, <1>6 DEF Alone, AddMember, At, Adding
  <2>2. Cardinality(ActiveRows') <= Cardinality(ActiveRows) + 1
    BY <1>0, <1>4, <1>6 DEF AddMember, TypeOK, RequestRecords
  <2> QED
    BY <1>1, <1>2, <2>1, <2>2
<1>7. ASSUME NEW q \in Requests, RequestStep(q), ~AddMember(q) PROVE FALSE
  BY <1>0, <1>3, <1>7, ActiveRowsShrink DEF ActiveRows
<1>8. ASSUME rows' = rows PROVE FALSE
  BY <1>3, <1>8 DEF ActiveRows
<1>9. ASSUME NEW q \in Requests, BeginRequest(q) PROVE rows' = rows
  BY <1>9 DEF BeginRequest, BeginInvite, BeginRemove, BeginUpdateRole, BeginTransfer,
     BeginSetLicense, BeginDelete, ReadInvite, BeginRevoke
<1>10. ASSUME NEW i \in InviteIds, ExpireInvite(i) \/ PruneInvite(i) PROVE rows' = rows
  BY <1>10 DEF ExpireInvite, PruneInvite
<1> QED
  BY <1>5, <1>6, <1>7, <1>8, <1>9, <1>10 DEF Next, vars

\* The action property of the Org run, for every instance.
THEOREM SeatsKept == Spec => SeatsWhenSerial
<1>1. OrgInv /\ SerialInv /\ [Next]_vars =>
          [mode = "serial" /\ Cardinality(ActiveRows') > Cardinality(ActiveRows)
               => Cardinality(ActiveRows') <= SeatCap]_vars
  BY CapsAssumption, StepKeepsSeats
<1> QED
  BY <1>1, OrgInvAlways, SerialInvAlways, PTL DEF Spec, SeatsWhenSerial
=============================================================================
