----------------------------- MODULE AccessProofs -----------------------------
(***************************************************************************)
(* Proofs about ProjectAccess for any companies, people, roles, requests   *)
(* and bounds.                                                             *)
(*                                                                         *)
(* That the lists, project_access, the row level security and the limits   *)
(* of support agree follows from the form of the rows.  That a revocation  *)
(* holds and a removal stands needs to know what the requests still under  *)
(* way about the company or the person will write; that a withdrawal of    *)
(* support access stands, what a decision leaves of the row it overwrites.  *)
(***************************************************************************)
EXTENDS ProjectAccess, TLAPS

(* A member's row is never deleted.                                        *)
Typed ==
  /\ AccessTypeOK
  /\ Len(support) <= MaxSupport
  /\ \A c \in Clients :
       req[c].kind = "membership" /\ req[c].loaded # NoRow => member[req[c].of] # NoRow

RevocationInv ==
  \A k \in ended :
    /\ k \in Companies \ {Owner} /\ collab[k] = "revoked"
    /\ \A c \in Clients : req[c].kind = "collaboration" /\ req[c].of = k => req[c].set = "revoked"

RemovalInv ==
  \A p \in removed :
    /\ member[p].status = "disabled"
    /\ \A c \in Clients : req[c].kind = "membership" /\ req[c].of = p => ~Activates(req[c])

(* A withdrawn request keeps revoked_at, and no request is about a support *)
(* request that does not exist yet.                                        *)
WithdrawalInv ==
  /\ withdrawn \subseteq DOMAIN support
  /\ \A c \in Clients : req[c].kind = "support" => req[c].of \in DOMAIN support
  /\ \A g \in withdrawn : support[g].revoked

AccessInv == Typed /\ RevocationInv /\ RemovalInv /\ WithdrawalInv

-----------------------------------------------------------------------------
(* What the rows alone imply *)

LEMMA ViewInEveryRole ==
  /\ \A r \in ProjectRoles \cup {"company_admin"} : "project.view" \in RolePermissions[r]
  /\ "project.view" \notin OwnersOnly
  /\ "project.view" \notin GRANTABLE_CAPABILITIES
BY DEF ProjectRoles, RolePermissions, OwnersOnly, GRANTABLE_CAPABILITIES

LEMMA PermissionsOpen ==
  ASSUME NEW u
  PROVE  Permissions(u) # {} <=>
           \/ \E r \in RoleCodes(u) : "project.view" \in RolePermissions[r]
           \/ "project.view" \in Granted(u)
           \/ "project.view" \in SupportPermissions(u)
<1> DEFINE all == (UNION {RolePermissions[r] : r \in RoleCodes(u)}) \cup Granted(u) \cup SupportPermissions(u)
<1>1. Permissions(u) = IF "project.view" \notin all THEN {}
                       ELSE IF At(u, Owner) THEN all ELSE all \ OwnersOnly
  BY DEF Permissions
<1>2. "project.view" \in all <=>
           \/ \E r \in RoleCodes(u) : "project.view" \in RolePermissions[r]
           \/ "project.view" \in Granted(u)
           \/ "project.view" \in SupportPermissions(u)
  OBVIOUS
<1> HIDE DEF all
<1> QED
  BY <1>1, <1>2, ViewInEveryRole

LEMMA RoleCodesAre ==
  ASSUME NEW u
  PROVE  /\ RoleCodes(u) \subseteq ProjectRoles \cup {"company_admin"}
         /\ RoleCodes(u) # {} <=> \/ InCompanyScope(u) /\ Admin(u)
                                  \/ OnProject(u) /\ member[u].role \in Roles
BY AccessAssumption DEF RoleCodes

LEMMA SupportIs ==
  ASSUME NEW u
  PROVE  \A code : code \in SupportPermissions(u) <=>
           \E g \in DOMAIN support :
             support[g].requester = u /\ Usable(g) /\ code \in support[g].codes
BY DEF SupportPermissions

LEMMA SupportReads ==
  ASSUME Typed
  PROVE  /\ \A g \in DOMAIN support : support[g] \in SupportRow
         /\ \A u : SupportPermissions(u) \subseteq SUPPORT_READ_PERMISSIONS
<1>1. \A g \in DOMAIN support : support[g] \in SupportRow
  BY DEF Typed, AccessTypeOK
<1>2. \A g \in DOMAIN support : support[g].codes \subseteq SUPPORT_READ_PERMISSIONS
  BY <1>1 DEF SupportRow
<1> QED
  BY <1>1, <1>2 DEF SupportPermissions

LEMMA MembersHaveRoles ==
  ASSUME Typed, NEW u \in People, member[u].status = "active"
  PROVE  member[u] \in MemberRow /\ member[u].role \in Roles
BY DEF Typed, AccessTypeOK, NoRow, MemberRow

LEMMA Agreement ==
  ASSUME Typed, NEW u \in People \cup Staff
  PROVE  Listed(u) <=> Permissions(u) # {}
<1> DEFINE Scope == \/ InCompanyScope(u) /\ Admin(u)
                    \/ OnProject(u)
           Supported == \E g \in DOMAIN support :
             support[g].requester = u /\ Usable(g) /\ "project.view" \in support[g].codes
<1>1. Listed(u) <=> Scope \/ Supported
  BY DEF Listed, InCompanyScope, OnProject, Admin
<1>2. Supported <=> "project.view" \in SupportPermissions(u)
  BY SupportIs
<1>3. OnProject(u) => member[u].role \in Roles
  BY MembersHaveRoles DEF OnProject, InCompanyScope, SignedIn
<1>4. Scope <=> \E r \in RoleCodes(u) : "project.view" \in RolePermissions[r]
  BY <1>3, RoleCodesAre, ViewInEveryRole
<1>5. "project.view" \notin Granted(u)
  BY ViewInEveryRole, AccessAssumption DEF Granted
<1> HIDE DEF Scope, Supported
<1> QED
  BY <1>1, <1>2, <1>4, <1>5, PermissionsOpen

LEMMA WithinRLS ==
  ASSUME Typed, NEW u \in People \cup Staff
  PROVE  /\ Permissions(u) # {} => RLSRead(u)
         /\ Permissions(u) \ SUPPORT_READ_PERMISSIONS # {} => RLSScope(u)
<1>1. Permissions(u) # {} => RLSRead(u)
  BY Agreement DEF Listed, RLSRead, RLSScope
<1>2. SupportPermissions(u) \subseteq SUPPORT_READ_PERMISSIONS
  BY SupportReads
<1>3. ASSUME NEW code \in Permissions(u), code \notin SUPPORT_READ_PERMISSIONS
      PROVE  RoleCodes(u) # {} \/ OnProject(u)
  BY <1>2, <1>3 DEF Permissions, Granted
<1>4. RoleCodes(u) # {} \/ OnProject(u) => RLSScope(u)
  BY RoleCodesAre DEF InCompanyScope, OnProject, Admin, RLSScope
<1> QED
  BY <1>1, <1>3, <1>4

LEMMA OnlyReading ==
  ASSUME AccessInv, NEW s \in Staff, NEW code \in Permissions(s)
  PROVE  /\ code \in SUPPORT_READ_PERMISSIONS
         /\ \E g \in DOMAIN support \ withdrawn :
              /\ support[g].requester = s /\ code \in support[g].codes
              /\ support[g].status = "approved"
<1>1. ~SignedIn(s)
  BY AccessAssumption DEF SignedIn
<1>2. RoleCodes(s) = {} /\ Granted(s) = {}
  BY <1>1 DEF RoleCodes, Granted, OnProject, InCompanyScope
<1>3. SupportPermissions(s) \subseteq SUPPORT_READ_PERMISSIONS
  BY SupportReads DEF AccessInv
<1>4. code \in SupportPermissions(s)
  BY <1>2 DEF Permissions
<1>5. PICK g \in DOMAIN support :
        support[g].requester = s /\ Usable(g) /\ code \in support[g].codes
  BY <1>4, SupportIs
<1>6. g \notin withdrawn
  BY <1>5 DEF AccessInv, WithdrawalInv, Usable
<1> QED
  BY <1>3, <1>4, <1>5, <1>6 DEF Usable

LEMMA NobodyOfRevoked ==
  ASSUME AccessInv, NEW u \in People, SignedIn(u), home[u].company \in ended
  PROVE  Permissions(u) = {}
<1>1. ~Listed(u)
  <2>1. home[u].company # Owner /\ collab[home[u].company] = "revoked"
    BY DEF AccessInv, RevocationInv
  <2>2. \A g \in DOMAIN support : support[g].requester # u
    BY AccessAssumption, SupportReads DEF AccessInv, SupportRow
  <2> QED
    BY <2>1, <2>2 DEF Listed
<1> QED
  BY <1>1, Agreement DEF AccessInv

-----------------------------------------------------------------------------
(* Requests *)

(* The requests that begin.                                                *)
BeginsMembership(c) ==
  \E p \in Assignable, row \in MemberRow : BeginMembership(c, p, row)
BeginsCollaboration(c) ==
  \E k \in Companies \ {Owner}, status \in {"pending", "active", "rejected", "revoked"} :
    /\ status \in {"active", "rejected"} => collab[k] = "pending"
    /\ BeginCollaboration(c, k, status)
BeginsSupport(c) ==
  \E g \in DOMAIN support, status \in {"approved", "rejected", "revoked"} :
    BeginSupport(c, g, status)

LEMMA Steps ==
  ASSUME Typed, AccessNext
  PROVE  \/ \E c \in Clients :
              \/ BeginsMembership(c) \/ BeginsCollaboration(c) \/ BeginsSupport(c)
              \/ CommitMembership(c) \/ CommitCollaboration(c) \/ CommitSupport(c) \/ Conflict(c)
         \/ CapabilityStep \/ CompanyStep
         \/ \E s \in Staff, codes \in SupportCodes : CreateSupportAccess(s, codes)
         \/ \E g \in DOMAIN support : SupportExpires(g)
<1>1. CASE MembershipStep
  <2> PICK c \in Clients, u \in People, p \in Assignable :
        \/ \E role \in Roles : AddMember(c, u, p, role)
        \/ \E role \in Roles, status \in {"active", "disabled"} : UpdateMember(c, u, p, role, status)
        \/ RemoveMember(c, u, p)
    BY <1>1 DEF MembershipStep
  <2>1. p \in People /\ home[p].company \in Companies
    BY AccessAssumption DEF Typed, AccessTypeOK, Membership
  <2>2. ASSUME NEW role \in Roles, AddMember(c, u, p, role) PROVE BeginsMembership(c)
    <3>1. [tenant |-> home[p].company, role |-> role, status |-> "active"] \in MemberRow
      BY <2>1 DEF MemberRow
    <3> QED
      BY <2>2, <3>1 DEF AddMember, BeginsMembership
  <2>3. member[p] # NoRow => member[p] \in MemberRow
    BY <2>1 DEF Typed, AccessTypeOK
  <2>4. ASSUME NEW role \in Roles, NEW status \in {"active", "disabled"},
               UpdateMember(c, u, p, role, status)
        PROVE  BeginsMembership(c)
    <3>1. [member[p] EXCEPT !.role = role, !.status = status] \in MemberRow
      BY <2>3, <2>4 DEF UpdateMember, MemberRow
    <3> QED
      BY <2>4, <3>1 DEF UpdateMember, BeginsMembership
  <2>5. ASSUME RemoveMember(c, u, p) PROVE BeginsMembership(c)
    <3>1. [member[p] EXCEPT !.status = "disabled"] \in MemberRow
      BY <2>3, <2>5 DEF RemoveMember, MemberRow
    <3> QED
      BY <2>5, <3>1 DEF RemoveMember, BeginsMembership
  <2> QED
    BY <2>2, <2>4, <2>5
<1>2. CASE CollaborationStep
  BY <1>2 DEF CollaborationStep, InviteCompany, DecideCollaboration, RevokeCollaboration,
     BeginsCollaboration
<1>3. CASE SupportStep
  BY <1>3 DEF SupportStep, DecideSupport, RevokeSupport, BeginsSupport
<1>4. CASE CommitStep
  BY <1>4 DEF CommitStep
<1> QED
  BY <1>1, <1>2, <1>3, <1>4 DEF AccessNext

(* A client's request becomes one of a kind, the others stay.              *)
Becomes(c, kind) == (\A d \in Clients \ {c} : req'[d] = req[d]) /\ req'[c].kind = kind

LEMMA RequestsBecome ==
  ASSUME Typed, NEW c \in Clients
  PROVE  /\ BeginsMembership(c) =>
              Becomes(c, "membership") /\ UNCHANGED <<home, collab, member, capability, support, ended, withdrawn>>
         /\ BeginsCollaboration(c) =>
              Becomes(c, "collaboration") /\ UNCHANGED <<home, collab, member, capability, support, removed, withdrawn>>
         /\ BeginsSupport(c) =>
              Becomes(c, "support")
                /\ UNCHANGED <<home, collab, member, capability, support, ended, removed, withdrawn>>
         /\ CommitMembership(c) \/ CommitCollaboration(c) \/ CommitSupport(c) \/ Conflict(c)
              => Becomes(c, "idle")
<1>1. ASSUME NEW r, req' = [req EXCEPT ![c] = r] PROVE Becomes(c, r.kind)
  BY <1>1 DEF Becomes, Typed, AccessTypeOK
<1>2. ASSUME NEW p \in Assignable, NEW row \in MemberRow, BeginMembership(c, p, row)
      PROVE  Becomes(c, "membership") /\ UNCHANGED <<home, collab, member, capability, support, ended, withdrawn>>
  <2> DEFINE r == [kind |-> "membership", of |-> p, loaded |-> member[p], set |-> row]
  <2>1. r.kind = "membership" /\ req' = [req EXCEPT ![c] = r]
    BY <1>2 DEF BeginMembership, Begin
  <2> HIDE DEF r
  <2>2. Becomes(c, "membership")
    BY <1>1, <2>1
  <2> QED
    BY <1>2, <2>2 DEF BeginMembership, Begin, rows
<1>3. ASSUME NEW k \in Companies \ {Owner}, NEW status, BeginCollaboration(c, k, status)
      PROVE  Becomes(c, "collaboration") /\ UNCHANGED <<home, collab, member, capability, support, removed, withdrawn>>
  <2> DEFINE r == [kind |-> "collaboration", of |-> k, loaded |-> collab[k], set |-> status]
  <2>1. r.kind = "collaboration" /\ req' = [req EXCEPT ![c] = r]
    BY <1>3 DEF BeginCollaboration, Begin
  <2> HIDE DEF r
  <2>2. Becomes(c, "collaboration")
    BY <1>1, <2>1
  <2> QED
    BY <1>3, <2>2 DEF BeginCollaboration, Begin, rows
<1>4. ASSUME NEW g \in DOMAIN support, NEW status, BeginSupport(c, g, status)
      PROVE  Becomes(c, "support")
               /\ UNCHANGED <<home, collab, member, capability, support, ended, removed, withdrawn>>
  <2> DEFINE r == [kind |-> "support", of |-> g, set |-> status]
  <2>1. r.kind = "support" /\ req' = [req EXCEPT ![c] = r]
    BY <1>4 DEF BeginSupport, Begin
  <2> HIDE DEF r
  <2>2. Becomes(c, "support")
    BY <1>1, <2>1
  <2> QED
    BY <1>4, <2>2 DEF BeginSupport, Begin, rows
<1>5. req' = [req EXCEPT ![c] = Idle] => Becomes(c, "idle")
  <2>1. Idle.kind = "idle"
    BY DEF Idle
  <2> QED
    BY <1>1, <2>1
<1> QED
  BY <1>2, <1>3, <1>4, <1>5 DEF BeginsMembership, BeginsCollaboration, BeginsSupport,
     CommitMembership, CommitCollaboration, CommitSupport, Conflict

-----------------------------------------------------------------------------
(* A revocation holds *)

LEMMA RevocationStep ==
  ASSUME Typed, RevocationInv, [AccessNext]_accessVars
  PROVE  RevocationInv'
<1>1. ASSUME UNCHANGED <<collab, ended>>, NEW c \in Clients, NEW kind, Becomes(c, kind),
             kind # "collaboration"
      PROVE  RevocationInv'
  BY <1>1 DEF Becomes, RevocationInv
<1>2. ASSUME UNCHANGED <<collab, ended, req>> PROVE RevocationInv'
  BY <1>2 DEF RevocationInv
<1>3. ASSUME NEW c \in Clients, BeginsMembership(c) PROVE RevocationInv'
  BY <1>1, <1>3, RequestsBecome
<1>4. ASSUME NEW c \in Clients, BeginsSupport(c) PROVE RevocationInv'
  BY <1>1, <1>4, RequestsBecome
<1>5. ASSUME NEW c \in Clients, CommitMembership(c) \/ CommitSupport(c) \/ Conflict(c)
      PROVE  RevocationInv'
  <2>1. UNCHANGED <<collab, ended>> /\ Becomes(c, "idle")
    BY <1>5, RequestsBecome DEF CommitMembership, CommitSupport, Conflict, rows
  <2> QED
    BY <1>1, <2>1
<1>6. ASSUME NEW c \in Clients, BeginsCollaboration(c) PROVE RevocationInv'
  <2> PICK k \in Companies \ {Owner}, status \in {"pending", "active", "rejected", "revoked"} :
        /\ status \in {"active", "rejected"} => collab[k] = "pending"
        /\ BeginCollaboration(c, k, status)
    BY <1>6 DEF BeginsCollaboration
  <2> DEFINE r == [kind |-> "collaboration", of |-> k, loaded |-> collab[k], set |-> status]
  <2>1. /\ req' = [req EXCEPT ![c] = r] /\ UNCHANGED collab
        /\ ended' = IF status = "pending" THEN ended \ {k} ELSE ended
    BY DEF BeginCollaboration, Begin, rows
  <2>2. k \in ended' => status = "revoked"
    BY <2>1 DEF RevocationInv
  <2>3. \A d \in Clients : req'[d] = IF d = c THEN r ELSE req[d]
    BY <2>1 DEF Typed, AccessTypeOK
  <2> QED
    BY <2>1, <2>2, <2>3 DEF RevocationInv
<1>7. ASSUME NEW c \in Clients, CommitCollaboration(c) PROVE RevocationInv'
  <2> DEFINE r == req[c]
  <2>1. r.kind = "collaboration" /\ r \in Request
    BY <1>7 DEF CommitCollaboration, Typed, AccessTypeOK
  <2>2. r.of \in Companies \ {Owner}
    BY <2>1 DEF Request, Idle
  <2>3. \A d \in Clients : req'[d] = IF d = c THEN Idle ELSE req[d]
    BY <1>7 DEF CommitCollaboration, Typed, AccessTypeOK
  <2>4. \A k \in Companies : collab'[k] = IF k = r.of /\ r.set # r.loaded THEN r.set ELSE collab[k]
    BY <1>7, <2>2 DEF CommitCollaboration, Typed, AccessTypeOK
  <2>5. ASSUME NEW k \in ended
        PROVE  /\ k \in Companies \ {Owner} /\ collab'[k] = "revoked"
               /\ \A d \in Clients : req'[d].kind = "collaboration" /\ req'[d].of = k
                                        => req'[d].set = "revoked"
    <3>1. /\ k \in Companies \ {Owner} /\ collab[k] = "revoked"
          /\ \A d \in Clients : req[d].kind = "collaboration" /\ req[d].of = k
                                  => req[d].set = "revoked"
      BY DEF RevocationInv
    <3> QED
      BY <2>1, <2>3, <2>4, <3>1 DEF Idle
  <2>6. ASSUME r.set = "revoked", r.loaded # "revoked", ~Pending(c, "collaboration", r.of)
        PROVE  /\ collab'[r.of] = "revoked"
               /\ \A d \in Clients : ~(req'[d].kind = "collaboration" /\ req'[d].of = r.of)
    BY <2>2, <2>3, <2>4, <2>6 DEF Pending, Idle
  <2>7. ended' = IF r.set = "revoked" /\ r.loaded # "revoked" /\ ~Pending(c, "collaboration", r.of)
                 THEN ended \cup {r.of} ELSE ended
    BY <1>7 DEF CommitCollaboration
  <2> QED
    BY <2>2, <2>5, <2>6, <2>7 DEF RevocationInv
<1>8. CASE UNCHANGED accessVars
  BY <1>2, <1>8 DEF accessVars
<1>9. CASE CapabilityStep \/ CompanyStep
  BY <1>2, <1>9 DEF CapabilityStep, CompanyStep, CreateCapabilityGrant, RevokeCapabilityGrant,
     CapabilityExpires, UpdateCompanyMember, TransferCompany
<1>10. CASE \/ \E s \in Staff, codes \in SupportCodes : CreateSupportAccess(s, codes)
            \/ \E g \in DOMAIN support : SupportExpires(g)
  BY <1>2, <1>10 DEF CreateSupportAccess, SupportExpires
<1> QED
  BY <1>3, <1>4, <1>5, <1>6, <1>7, <1>8, <1>9, <1>10, Steps

-----------------------------------------------------------------------------
(* A removal stands *)

LEMMA RemovalStep ==
  ASSUME Typed, RemovalInv, [AccessNext]_accessVars
  PROVE  RemovalInv'
<1>1. ASSUME UNCHANGED <<member, removed>>, NEW c \in Clients, NEW kind, Becomes(c, kind),
             kind # "membership"
      PROVE  RemovalInv'
  BY <1>1 DEF Becomes, RemovalInv, Activates
<1>2. ASSUME UNCHANGED <<member, removed, req>> PROVE RemovalInv'
  BY <1>2 DEF RemovalInv, Activates
<1>3. ASSUME NEW c \in Clients, BeginsMembership(c) PROVE RemovalInv'
  <2> PICK p \in Assignable, row \in MemberRow : BeginMembership(c, p, row)
    BY <1>3 DEF BeginsMembership
  <2> DEFINE r == [kind |-> "membership", of |-> p, loaded |-> member[p], set |-> row]
  <2>1. /\ req' = [req EXCEPT ![c] = r] /\ UNCHANGED member
        /\ removed' = IF Activates(r) THEN removed \ {p} ELSE removed
    BY DEF BeginMembership, Begin, rows
  <2>2. \A d \in Clients : req'[d] = IF d = c THEN r ELSE req[d]
    BY <2>1 DEF Typed, AccessTypeOK
  <2> HIDE DEF r
  <2>3. r.of = p
    BY DEF r
  <2> QED
    BY <2>1, <2>2, <2>3 DEF RemovalInv, Activates
<1>4. ASSUME NEW c \in Clients, BeginsSupport(c) PROVE RemovalInv'
  BY <1>1, <1>4, RequestsBecome
<1>5. ASSUME NEW c \in Clients, BeginsCollaboration(c) PROVE RemovalInv'
  BY <1>1, <1>5, RequestsBecome
<1>6. ASSUME NEW c \in Clients, CommitCollaboration(c) \/ CommitSupport(c) \/ Conflict(c)
      PROVE  RemovalInv'
  <2>1. UNCHANGED <<member, removed>> /\ Becomes(c, "idle")
    BY <1>6, RequestsBecome DEF CommitCollaboration, CommitSupport, Conflict, rows
  <2> QED
    BY <1>1, <2>1
<1>7. ASSUME NEW c \in Clients, CommitMembership(c) PROVE RemovalInv'
  <2> DEFINE r == req[c]
             new == Changed(r.loaded, r.set, member[r.of])
  <2>1. r.kind = "membership" /\ r \in Request
    BY <1>7 DEF CommitMembership, Typed, AccessTypeOK
  <2>2. /\ r.of \in People /\ r.set \in MemberRow /\ r.set.status \in {"active", "disabled"}
        /\ r.loaded \in MemberRow \cup {NoRow}
    BY <2>1, AccessAssumption DEF Request, Idle, MemberRow
  <2>3. \A d \in Clients : req'[d] = IF d = c THEN Idle ELSE req[d]
    BY <1>7 DEF CommitMembership, Typed, AccessTypeOK
  <2>4. \A p \in People : member'[p] = IF p = r.of THEN new ELSE member[p]
    BY <1>7, <2>2 DEF CommitMembership, Typed, AccessTypeOK
  <2>5. r.loaded = NoRow => member[r.of] = NoRow
    BY <1>7 DEF CommitMembership
  <2>6. r.loaded # NoRow =>
          new.status = IF r.set.status = r.loaded.status THEN member[r.of].status ELSE r.set.status
    BY DEF Changed
  <2>7. removed \subseteq People
    BY DEF Typed, AccessTypeOK
  <2> HIDE DEF new
  <2>8. ASSUME NEW p \in removed
        PROVE  /\ member'[p].status = "disabled"
               /\ \A d \in Clients : req'[d].kind = "membership" /\ req'[d].of = p
                                        => ~(req'[d].set.status = "active" /\ req'[d].loaded.status # "active")
    <3>1. /\ member[p].status = "disabled"
          /\ \A d \in Clients : req[d].kind = "membership" /\ req[d].of = p => ~Activates(req[d])
      BY DEF RemovalInv
    <3>2. CASE p = r.of
      <4>1. r.loaded # NoRow
        BY <2>5, <3>1, <3>2 DEF NoRow
      <4>2. r.set.status = "active" => r.loaded.status = "active"
        BY <2>1, <3>1, <3>2 DEF Activates
      <4>3. new.status = "disabled"
        BY <2>2, <2>6, <3>1, <3>2, <4>1, <4>2
      <4> QED
        BY <2>3, <2>4, <2>7, <3>1, <3>2, <4>3 DEF Idle, Activates
    <3>3. CASE p # r.of
      BY <2>3, <2>4, <2>7, <3>1, <3>3 DEF Idle, Activates
    <3> QED
      BY <3>2, <3>3
  <2>9. ASSUME r.loaded.status = "active", r.set.status = "disabled", ~Adding(c, r.of)
        PROVE  /\ member'[r.of].status = "disabled"
               /\ \A d \in Clients : req'[d].kind = "membership" /\ req'[d].of = r.of
                                        => ~(req'[d].set.status = "active" /\ req'[d].loaded.status # "active")
    <3>1. r.loaded # NoRow
      BY <2>9 DEF NoRow
    <3> QED
      BY <2>2, <2>3, <2>4, <2>6, <2>9, <3>1 DEF Adding, Activates, Idle
  <2>10. removed' = IF r.loaded.status = "active" /\ r.set.status = "disabled" /\ ~Adding(c, r.of)
                    THEN removed \cup {r.of} ELSE removed
    BY <1>7 DEF CommitMembership
  <2> QED
    BY <2>8, <2>9, <2>10 DEF RemovalInv, Activates
<1>8. CASE UNCHANGED accessVars
  BY <1>2, <1>8 DEF accessVars
<1>9. CASE CapabilityStep
  BY <1>2, <1>9 DEF CapabilityStep, CreateCapabilityGrant, RevokeCapabilityGrant, CapabilityExpires
<1>10. CASE CompanyStep
  <2>1. PICK p \in Movable, admin \in BOOLEAN :
          \/ \E u \in People, active \in BOOLEAN : UpdateCompanyMember(u, p, admin, active)
          \/ \E k \in Companies : TransferCompany(p, k, admin)
    BY <1>10 DEF CompanyStep
  <2>2. CASE \E u \in People, active \in BOOLEAN : UpdateCompanyMember(u, p, admin, active)
    BY <1>2, <2>2 DEF UpdateCompanyMember
  <2>3. CASE \E k \in Companies : TransferCompany(p, k, admin)
    <3>1. UNCHANGED <<req, removed>>
      BY <2>3 DEF TransferCompany
    <3>2. \/ member' = member
          \/ member[p].status = "active" /\ member' = [member EXCEPT ![p].status = "disabled"]
      <4>1. PICK k \in Companies : TransferCompany(p, k, admin)
        BY <2>3
      <4> DEFINE leaves == home[p].active /\ member[p].status = "active"
                             /\ member[p].tenant = home[p].company
      <4>2. member' = IF leaves THEN [member EXCEPT ![p].status = "disabled"] ELSE member
        BY <4>1 DEF TransferCompany
      <4>3. leaves => member[p].status = "active"
        OBVIOUS
      <4> HIDE DEF leaves
      <4> QED
        BY <4>2, <4>3
    <3>3. CASE member' = member
      BY <1>2, <3>1, <3>3
    <3>4. CASE member[p].status = "active" /\ member' = [member EXCEPT ![p].status = "disabled"]
      <4>1. \A q \in People \ {p} : member'[q] = member[q]
        BY <3>4 DEF Typed, AccessTypeOK
      <4>2. p \notin removed /\ removed \subseteq People
        BY <3>4 DEF RemovalInv, Typed, AccessTypeOK
      <4> QED
        BY <3>1, <4>1, <4>2 DEF RemovalInv, Activates
    <3> QED
      BY <3>2, <3>3, <3>4
  <2> QED
    BY <2>1, <2>2, <2>3
<1>11. CASE \/ \E s \in Staff, codes \in SupportCodes : CreateSupportAccess(s, codes)
            \/ \E g \in DOMAIN support : SupportExpires(g)
  BY <1>2, <1>11 DEF CreateSupportAccess, SupportExpires
<1> QED
  BY <1>3, <1>4, <1>5, <1>6, <1>7, <1>8, <1>9, <1>10, <1>11, Steps

-----------------------------------------------------------------------------
(* A withdrawal of support access stands *)

LEMMA WithdrawalStep ==
  ASSUME Typed, WithdrawalInv, [AccessNext]_accessVars
  PROVE  WithdrawalInv'
<1> USE DEF WithdrawalInv
<1>1. ASSUME UNCHANGED <<support, withdrawn>>, NEW c \in Clients, NEW kind, Becomes(c, kind),
             kind # "support"
      PROVE  WithdrawalInv'
  BY <1>1 DEF Becomes
<1>2. ASSUME NEW c \in Clients, BeginsMembership(c) \/ BeginsCollaboration(c)
      PROVE  WithdrawalInv'
  <2>1. UNCHANGED <<support, withdrawn>>
    BY <1>2 DEF BeginsMembership, BeginsCollaboration, BeginMembership, BeginCollaboration, Begin, rows
  <2> QED
    BY <1>1, <1>2, <2>1, RequestsBecome
<1>3. ASSUME NEW c \in Clients, CommitMembership(c) \/ CommitCollaboration(c) \/ Conflict(c)
      PROVE  WithdrawalInv'
  <2>1. UNCHANGED <<support, withdrawn>> /\ Becomes(c, "idle")
    BY <1>3, RequestsBecome DEF CommitMembership, CommitCollaboration, Conflict, rows
  <2> QED
    BY <1>1, <2>1
<1>4. ASSUME NEW c \in Clients, BeginsSupport(c) PROVE WithdrawalInv'
  <2> PICK g \in DOMAIN support, status \in {"approved", "rejected", "revoked"} :
        BeginSupport(c, g, status)
    BY <1>4 DEF BeginsSupport
  <2> DEFINE r == [kind |-> "support", of |-> g, set |-> status]
  <2>1. req' = [req EXCEPT ![c] = r] /\ UNCHANGED <<support, withdrawn>>
    BY DEF BeginSupport, Begin, rows
  <2>2. \A d \in Clients : req'[d] = IF d = c THEN r ELSE req[d]
    BY <2>1 DEF Typed, AccessTypeOK
  <2> QED
    BY <2>1, <2>2
<1>5. ASSUME NEW c \in Clients, CommitSupport(c) PROVE WithdrawalInv'
  <2> DEFINE r == req[c]
             withdrawal == r.set = "revoked"
             row == [support[r.of] EXCEPT !.status = r.set, !.revoked = @ \/ withdrawal]
  <2>1. r.kind = "support" /\ r.of \in DOMAIN support /\ support[r.of] \in SupportRow
    BY <1>5 DEF CommitSupport, Typed, AccessTypeOK
  <2>2. support' = [support EXCEPT ![r.of] = row]
    BY <1>5 DEF CommitSupport
  <2>3. row.revoked <=> support[r.of].revoked \/ withdrawal
    BY <2>1 DEF SupportRow
  <2>4. withdrawn' = IF withdrawal THEN withdrawn \cup {r.of} ELSE withdrawn
    BY <1>5 DEF CommitSupport
  <2>5. Becomes(c, "idle")
    BY <1>5, RequestsBecome
  <2> HIDE DEF row, withdrawal
  <2>6. /\ DOMAIN support' = DOMAIN support
        /\ \A g \in DOMAIN support : support'[g] = IF g = r.of THEN row ELSE support[g]
    BY <2>1, <2>2
  <2>7. \A g \in withdrawn' : g \in DOMAIN support /\ support'[g].revoked
    BY <2>1, <2>3, <2>4, <2>6
  <2> QED
    BY <2>5, <2>6, <2>7 DEF Becomes
<1>6. ASSUME NEW s \in Staff, NEW codes \in SupportCodes, CreateSupportAccess(s, codes)
      PROVE  WithdrawalInv'
  <2> DEFINE row == [requester |-> s, codes |-> codes, status |-> "pending",
                     revoked |-> FALSE, expired |-> FALSE]
  <2>1. support' = Append(support, row) /\ UNCHANGED <<req, withdrawn>>
    BY <1>6 DEF CreateSupportAccess
  <2> HIDE DEF row
  <2>2. /\ DOMAIN support \subseteq DOMAIN support'
        /\ \A g \in DOMAIN support : support'[g] = support[g]
    BY <2>1 DEF Typed, AccessTypeOK
  <2> QED
    BY <2>1, <2>2
<1>7. ASSUME NEW g \in DOMAIN support, SupportExpires(g) PROVE WithdrawalInv'
  <2>1. /\ DOMAIN support' = DOMAIN support
        /\ \A h \in DOMAIN support : support'[h].revoked = support[h].revoked
    BY <1>7 DEF SupportExpires, Typed, AccessTypeOK, SupportRow
  <2> QED
    BY <1>7, <2>1 DEF SupportExpires
<1>8. ASSUME UNCHANGED <<support, req, withdrawn>> PROVE WithdrawalInv'
  BY <1>8
<1>9. CASE UNCHANGED accessVars
  BY <1>8, <1>9 DEF accessVars
<1>10. CASE CapabilityStep \/ CompanyStep
  BY <1>8, <1>10 DEF CapabilityStep, CompanyStep, CreateCapabilityGrant, RevokeCapabilityGrant,
     CapabilityExpires, UpdateCompanyMember, TransferCompany
<1> QED
  BY <1>2, <1>3, <1>4, <1>5, <1>6, <1>7, <1>9, <1>10, Steps

-----------------------------------------------------------------------------
(* Types *)

LEMMA RequestTyped ==
  ASSUME Typed, NEW c \in Clients, NEW r \in Request, req' = [req EXCEPT ![c] = r],
         r.kind = "membership" /\ r.loaded # NoRow => member[r.of] # NoRow,
         UNCHANGED rows, ended' \subseteq Companies, removed' \subseteq People,
         withdrawn' \subseteq 1 .. MaxSupport
  PROVE  Typed'
<1>1. req' \in [Clients -> Request] /\ \A d \in Clients : req'[d] = IF d = c THEN r ELSE req[d]
  BY DEF Typed, AccessTypeOK
<1> QED
  BY <1>1 DEF Typed, AccessTypeOK, rows

LEMMA BeginningTyped ==
  ASSUME Typed, NEW c \in Clients,
         BeginsMembership(c) \/ BeginsCollaboration(c) \/ BeginsSupport(c)
  PROVE  Typed'
<1>1. ASSUME NEW p \in Assignable, NEW row \in MemberRow, BeginMembership(c, p, row)
      PROVE  Typed'
  <2> DEFINE r == [kind |-> "membership", of |-> p, loaded |-> member[p], set |-> row]
  <2>1. r \in Request /\ (r.loaded # NoRow => member[r.of] # NoRow)
    BY AccessAssumption DEF Request, Typed, AccessTypeOK
  <2>2. req' = [req EXCEPT ![c] = r] /\ UNCHANGED rows /\ UNCHANGED <<ended, withdrawn>>
    BY <1>1 DEF BeginMembership, Begin
  <2>3. removed' \subseteq removed
    BY <1>1 DEF BeginMembership
  <2> HIDE DEF r
  <2> QED
    BY <2>1, <2>2, <2>3, RequestTyped DEF Typed, AccessTypeOK
<1>2. ASSUME NEW k \in Companies \ {Owner}, BeginsCollaboration(c),
             NEW status \in {"pending", "active", "rejected", "revoked"},
             BeginCollaboration(c, k, status)
      PROVE  Typed'
  <2> DEFINE r == [kind |-> "collaboration", of |-> k, loaded |-> collab[k], set |-> status]
  <2>1. r \in Request /\ r.kind # "membership"
    BY DEF Request, Typed, AccessTypeOK, CollaborationStatus
  <2>2. req' = [req EXCEPT ![c] = r] /\ UNCHANGED rows /\ UNCHANGED <<removed, withdrawn>>
    BY <1>2 DEF BeginCollaboration, Begin
  <2>3. ended' \subseteq ended
    BY <1>2 DEF BeginCollaboration
  <2> HIDE DEF r
  <2> QED
    BY <2>1, <2>2, <2>3, RequestTyped DEF Typed, AccessTypeOK
<1>3. ASSUME NEW g \in DOMAIN support, NEW status \in {"approved", "rejected", "revoked"},
             BeginSupport(c, g, status)
      PROVE  Typed'
  <2> DEFINE r == [kind |-> "support", of |-> g, set |-> status]
  <2>1. g \in 1 .. MaxSupport
    BY AccessAssumption DEF Typed, AccessTypeOK
  <2>2. r \in Request /\ r.kind # "membership"
    BY <2>1 DEF Request
  <2>3. req' = [req EXCEPT ![c] = r] /\ UNCHANGED rows /\ UNCHANGED <<ended, removed, withdrawn>>
    BY <1>3 DEF BeginSupport, Begin
  <2> HIDE DEF r
  <2> QED
    BY <2>2, <2>3, RequestTyped DEF Typed, AccessTypeOK
<1> QED
  BY <1>1, <1>2, <1>3 DEF BeginsMembership, BeginsCollaboration, BeginsSupport

(* What the other steps do to the rows of the project.                     *)
LEMMA RowsTyped ==
  ASSUME Typed,
         home' \in [People -> Membership], collab' \in [Companies -> CollaborationStatus],
         member' \in [People -> MemberRow \cup {NoRow}],
         \A p \in People : member[p] # NoRow => member'[p] # NoRow,
         capability' \in [People -> [Capabilities -> GrantStatus]],
         support' \in Seq(SupportRow), Len(support') <= MaxSupport,
         UNCHANGED req \/ \E c \in Clients : req' = [req EXCEPT ![c] = Idle],
         ended' \subseteq Companies, removed' \subseteq People,
         withdrawn' \subseteq 1 .. MaxSupport
  PROVE  Typed'
<1>1. Idle \in Request /\ Idle.kind # "membership"
  BY DEF Idle, Request
<1>2. /\ req' \in [Clients -> Request]
      /\ \A d \in Clients : req'[d].kind = "membership" => req'[d] = req[d]
  <2>1. req \in [Clients -> Request]
    BY DEF Typed, AccessTypeOK
  <2>2. CASE UNCHANGED req
    BY <2>1, <2>2
  <2>3. ASSUME NEW c \in Clients, req' = [req EXCEPT ![c] = Idle]
        PROVE  /\ req' \in [Clients -> Request]
               /\ \A d \in Clients : req'[d].kind = "membership" => req'[d] = req[d]
    <3>1. \A d \in Clients : req'[d] = IF d = c THEN Idle ELSE req[d]
      BY <2>1, <2>3
    <3>2. req' \in [Clients -> Request]
      BY <1>1, <2>1, <2>3
    <3> QED
      BY <1>1, <3>1, <3>2
  <2> QED
    BY <2>2, <2>3
<1>3. ASSUME NEW d \in Clients, req'[d].kind = "membership", req'[d].loaded # NoRow
      PROVE  member'[req'[d].of] # NoRow
  <2>1. req'[d] = req[d] /\ req[d].of \in Assignable /\ member[req[d].of] # NoRow
    BY <1>2, <1>3 DEF Typed, Request, Idle
  <2> QED
    BY <2>1, AccessAssumption
<1> QED
  BY <1>2, <1>3 DEF Typed, AccessTypeOK

LEMMA CommitTyped ==
  ASSUME Typed, NEW c \in Clients,
         CommitMembership(c) \/ CommitCollaboration(c) \/ CommitSupport(c) \/ Conflict(c)
  PROVE  Typed'
<1> DEFINE r == req[c]
<1>1. r \in Request
  BY DEF Typed, AccessTypeOK
<1>2. ASSUME CommitMembership(c) PROVE Typed'
  <2> DEFINE new == Changed(r.loaded, r.set, member[r.of])
  <2>1. r.kind = "membership"
    BY <1>2 DEF CommitMembership
  <2>2. /\ r.of \in People /\ r.set \in MemberRow /\ r.loaded \in MemberRow \cup {NoRow}
        /\ r.loaded # NoRow => member[r.of] \in MemberRow
    BY <1>1, <2>1, AccessAssumption DEF Request, Idle, Typed, AccessTypeOK
  <2>3. new \in MemberRow
    BY <2>2 DEF Changed, MemberRow
  <2>4. NoRow \notin MemberRow
    BY DEF NoRow, MemberRow
  <2>5. /\ member' = [member EXCEPT ![r.of] = new]
        /\ req' = [req EXCEPT ![c] = Idle]
        /\ UNCHANGED <<home, collab, capability, support, ended, withdrawn>>
        /\ removed' \subseteq removed \cup {r.of}
    BY <1>2 DEF CommitMembership
  <2> HIDE DEF new
  <2>6. /\ member' \in [People -> MemberRow \cup {NoRow}]
        /\ \A p \in People : member[p] # NoRow => member'[p] # NoRow
    BY <2>2, <2>3, <2>4, <2>5 DEF Typed, AccessTypeOK
  <2> QED
    BY <2>2, <2>5, <2>6, RowsTyped DEF Typed, AccessTypeOK
<1>3. ASSUME CommitCollaboration(c) PROVE Typed'
  <2>1. r.kind = "collaboration"
    BY <1>3 DEF CommitCollaboration
  <2>2. r.of \in Companies /\ r.set \in CollaborationStatus
    BY <1>1, <2>1 DEF Request, Idle
  <2>3. /\ collab' = [collab EXCEPT ![r.of] = IF r.set = r.loaded THEN @ ELSE r.set]
        /\ req' = [req EXCEPT ![c] = Idle]
        /\ UNCHANGED <<home, member, capability, support, removed, withdrawn>>
        /\ ended' \subseteq ended \cup {r.of}
    BY <1>3 DEF CommitCollaboration
  <2>4. collab' \in [Companies -> CollaborationStatus]
    BY <2>2, <2>3 DEF Typed, AccessTypeOK
  <2> QED
    BY <2>2, <2>3, <2>4, RowsTyped DEF Typed, AccessTypeOK
<1>4. ASSUME CommitSupport(c) PROVE Typed'
  <2> DEFINE withdrawal == r.set = "revoked"
             row == [support[r.of] EXCEPT !.status = r.set, !.revoked = @ \/ withdrawal]
  <2>1. r.kind = "support"
    BY <1>4 DEF CommitSupport
  <2>2. r.set \in {"approved", "rejected", "revoked"} /\ r.of \in 1 .. MaxSupport
    BY <1>1, <2>1 DEF Request, Idle
  <2>3. /\ support' = [support EXCEPT ![r.of].status = r.set, ![r.of].revoked = @ \/ withdrawal]
        /\ req' = [req EXCEPT ![c] = Idle]
        /\ UNCHANGED <<home, collab, member, capability, ended, removed>>
        /\ withdrawn' \subseteq withdrawn \cup {r.of}
    BY <1>4 DEF CommitSupport
  <2>4. support \in [1 .. Len(support) -> SupportRow] /\ Len(support) \in Nat
    BY DEF Typed, AccessTypeOK
  <2>5. ASSUME NEW k \in SupportRow, NEW revoked \in BOOLEAN, NEW status \in {"approved", "rejected", "revoked"}
        PROVE  [k EXCEPT !.status = status, !.revoked = revoked] \in SupportRow
    BY DEF SupportRow
  <2>6. support' \in [1 .. Len(support) -> SupportRow]
    <3>1. support' = [support EXCEPT ![r.of] = row]
      BY <2>3
    <3>2. r.of \in 1 .. Len(support) => row \in SupportRow
      <4>1. (support[r.of].revoked \/ withdrawal) \in BOOLEAN
        OBVIOUS
      <4> HIDE DEF withdrawal
      <4> QED
        BY <2>2, <2>4, <2>5, <4>1
    <3> HIDE DEF row
    <3> QED
      BY <2>4, <3>1, <3>2
  <2>7. support' \in Seq(SupportRow) /\ Len(support') = Len(support)
    BY <2>4, <2>6
  <2> QED
    BY <2>2, <2>3, <2>7, RowsTyped DEF Typed, AccessTypeOK
<1>5. ASSUME Conflict(c) PROVE Typed'
  <2>1. req' = [req EXCEPT ![c] = Idle] /\ UNCHANGED <<home, collab, member, capability, support, ended, removed, withdrawn>>
    BY <1>5 DEF Conflict, rows
  <2> QED
    BY <2>1, RowsTyped DEF Typed, AccessTypeOK
<1> QED
  BY <1>2, <1>3, <1>4, <1>5

LEMMA CapabilityTyped ==
  ASSUME Typed, CapabilityStep
  PROVE  Typed'
<1> PICK p \in Assignable, code \in Capabilities :
      \/ \E u \in People : CreateCapabilityGrant(u, p, code) \/ RevokeCapabilityGrant(u, p, code)
      \/ CapabilityExpires(p, code)
  BY DEF CapabilityStep
<1>1. PICK status \in GrantStatus : capability' = [capability EXCEPT ![p][code] = status]
  BY DEF CreateCapabilityGrant, RevokeCapabilityGrant, CapabilityExpires, GrantStatus
<1>2. UNCHANGED <<home, collab, member, support, req, ended, removed, withdrawn>>
  BY DEF CreateCapabilityGrant, RevokeCapabilityGrant, CapabilityExpires
<1>3. capability' \in [People -> [Capabilities -> GrantStatus]]
  BY <1>1 DEF Typed, AccessTypeOK
<1> QED
  BY <1>2, <1>3, RowsTyped DEF Typed, AccessTypeOK

LEMMA CompanyTyped ==
  ASSUME Typed, CompanyStep
  PROVE  Typed'
<1> PICK p \in Movable, admin \in BOOLEAN :
      \/ \E u \in People, active \in BOOLEAN : UpdateCompanyMember(u, p, admin, active)
      \/ \E k \in Companies : TransferCompany(p, k, admin)
  BY DEF CompanyStep
<1>1. p \in People
  BY AccessAssumption
<1>2. ASSUME NEW u \in People, NEW active \in BOOLEAN, UpdateCompanyMember(u, p, admin, active)
      PROVE  Typed'
  <2>1. home' \in [People -> Membership]
    BY <1>2 DEF UpdateCompanyMember, Typed, AccessTypeOK, Membership
  <2> QED
    BY <1>2, <2>1, RowsTyped DEF UpdateCompanyMember, Typed, AccessTypeOK
<1>3. ASSUME NEW k \in Companies, TransferCompany(p, k, admin) PROVE Typed'
  <2> DEFINE leaves == home[p].active /\ member[p].status = "active" /\ member[p].tenant = home[p].company
             place == [company |-> k, admin |-> admin, active |-> TRUE]
             none == [code \in Capabilities |-> "none"]
  <2>1. home' = [home EXCEPT ![p] = place] /\ place \in Membership
    BY <1>3 DEF TransferCompany, Membership
  <2>2. /\ member' = IF leaves THEN [member EXCEPT ![p].status = "disabled"] ELSE member
        /\ capability' = IF leaves THEN [capability EXCEPT ![p] = none] ELSE capability
        /\ UNCHANGED <<collab, support, req, ended, removed, withdrawn>>
    BY <1>3 DEF TransferCompany
  <2>3. leaves => member[p] \in MemberRow
    BY <1>1 DEF Typed, AccessTypeOK, NoRow
  <2>4. none \in [Capabilities -> GrantStatus]
    BY DEF GrantStatus
  <2> HIDE DEF leaves, place, none
  <2>5. home' \in [People -> Membership]
    BY <2>1 DEF Typed, AccessTypeOK
  <2>6. capability' \in [People -> [Capabilities -> GrantStatus]]
    BY <2>2, <2>4 DEF Typed, AccessTypeOK
  <2>7. leaves => [member[p] EXCEPT !.status = "disabled"] \in MemberRow
    BY <2>3 DEF MemberRow
  <2>8. NoRow \notin MemberRow
    BY DEF NoRow, MemberRow
  <2>9. /\ member' \in [People -> MemberRow \cup {NoRow}]
        /\ \A q \in People : member[q] # NoRow => member'[q] # NoRow
    BY <1>1, <2>2, <2>7, <2>8 DEF Typed, AccessTypeOK
  <2> QED
    BY <2>2, <2>5, <2>6, <2>9, RowsTyped DEF Typed, AccessTypeOK
<1> QED
  BY <1>2, <1>3

LEMMA SupportTyped ==
  ASSUME Typed,
         \/ \E s \in Staff, codes \in SupportCodes : CreateSupportAccess(s, codes)
         \/ \E g \in DOMAIN support : SupportExpires(g)
  PROVE  Typed'
<1>1. ASSUME NEW s \in Staff, NEW codes \in SupportCodes, CreateSupportAccess(s, codes) PROVE Typed'
  <2> DEFINE row == [requester |-> s, codes |-> codes, status |-> "pending",
                     revoked |-> FALSE, expired |-> FALSE]
  <2>1. row \in SupportRow
    BY AccessAssumption DEF SupportRow
  <2>2. /\ support' = Append(support, row) /\ Len(support) < MaxSupport
        /\ UNCHANGED <<home, collab, member, capability, req, ended, removed, withdrawn>>
    BY <1>1 DEF CreateSupportAccess
  <2> HIDE DEF row
  <2>3. support' \in Seq(SupportRow) /\ Len(support') <= MaxSupport
    BY <2>1, <2>2, AccessAssumption DEF Typed, AccessTypeOK
  <2> QED
    BY <2>2, <2>3, RowsTyped DEF Typed, AccessTypeOK
<1>2. ASSUME NEW g \in DOMAIN support, SupportExpires(g) PROVE Typed'
  <2> DEFINE row == [support[g] EXCEPT !.expired = TRUE]
  <2>1. support \in [1 .. Len(support) -> SupportRow] /\ Len(support) \in Nat
    BY DEF Typed, AccessTypeOK
  <2>2. row \in SupportRow
    BY <2>1 DEF SupportRow
  <2>3. /\ support' = [support EXCEPT ![g] = row]
        /\ UNCHANGED <<home, collab, member, capability, req, ended, removed, withdrawn>>
    BY <1>2 DEF SupportExpires
  <2> HIDE DEF row
  <2>4. support' \in [1 .. Len(support) -> SupportRow]
    BY <2>1, <2>2, <2>3
  <2>5. support' \in Seq(SupportRow) /\ Len(support') = Len(support)
    BY <2>1, <2>4
  <2> QED
    BY <2>3, <2>5, RowsTyped DEF Typed, AccessTypeOK
<1> QED
  BY <1>1, <1>2

LEMMA TypedStep ==
  ASSUME Typed, [AccessNext]_accessVars
  PROVE  Typed'
<1>1. CASE UNCHANGED accessVars
  BY <1>1 DEF accessVars, Typed, AccessTypeOK
<1> QED
  BY <1>1, Steps, BeginningTyped, CommitTyped, CapabilityTyped, CompanyTyped, SupportTyped

-----------------------------------------------------------------------------
(* Theorems *)

LEMMA AccessInvInit == AccessInit => AccessInv
<1> SUFFICES ASSUME AccessInit PROVE AccessInv
  OBVIOUS
<1>1. home \in [People -> Membership] /\ member \in [People -> MemberRow \cup {NoRow}]
  BY DEF AccessInit
<1>2. collab \in [Companies -> CollaborationStatus] /\ capability \in [People -> [Capabilities -> GrantStatus]]
  BY DEF AccessInit, CollaborationStatus, GrantStatus
<1>3. support \in Seq(SupportRow) /\ Len(support) <= MaxSupport
  BY AccessAssumption DEF AccessInit
<1>4. req \in [Clients -> Request] /\ \A c \in Clients : req[c].kind = "idle"
  BY DEF AccessInit, Request, Idle
<1>5. ended = {} /\ removed = {} /\ withdrawn = {}
  BY DEF AccessInit
<1> QED
  BY <1>1, <1>2, <1>3, <1>4, <1>5
     DEF AccessInv, Typed, AccessTypeOK, RevocationInv, RemovalInv, WithdrawalInv

(* What is true of the rows, of the requests under way and of the companies*)
(* and members that were ended, and is kept by every step.                 *)
THEOREM AccessInvariant == AccessSpec => []AccessInv
<1>1. AccessInv /\ [AccessNext]_accessVars => AccessInv'
  BY TypedStep, RevocationStep, RemovalStep, WithdrawalStep DEF AccessInv
<1> QED
  BY <1>1, AccessInvInit, PTL DEF AccessSpec

(* Every row and every request is of its form, in particular what a commit *)
(* writes over a row that has changed since it was loaded.                 *)
THEOREM AccessTyped == AccessSpec => []AccessTypeOK
<1>1. AccessInv => AccessTypeOK
  BY DEF AccessInv, Typed
<1> QED
  BY <1>1, AccessInvariant, PTL

(* accessible_project_filter finds the project for exactly those to whom   *)
(* project_access gives a permission on it.                                *)
THEOREM ListsAgree == AccessSpec => []ListedIffOpens
<1>1. AccessInv => ListedIffOpens
  BY Agreement DEF AccessInv, ListedIffOpens
<1> QED
  BY <1>1, AccessInvariant, PTL

(* Whoever the application lets read or write passes the database policies.*)
THEOREM PoliciesAgree == AccessSpec => []AppWithinRLS
<1>1. AccessInv => AppWithinRLS
  BY WithinRLS DEF AccessInv, AppWithinRLS
<1> QED
  BY <1>1, AccessInvariant, PTL

(* A company whose collaboration was revoked while no other request about  *)
(* it was under way has no access until the owner invites it again.        *)
THEOREM RevocationsHold == AccessSpec => []RevocationHolds
<1>1. AccessInv => RevocationHolds
  BY NobodyOfRevoked DEF RevocationHolds
<1> QED
  BY <1>1, AccessInvariant, PTL

(* A removed member is not brought back by a request that loaded the row   *)
(* before, for any number of requests under way.                           *)
THEOREM RemovalsStand == AccessSpec => []RemovalStands
<1>1. AccessInv => RemovalStands
  BY DEF AccessInv, RemovalInv, RemovalStands
<1> QED
  BY <1>1, AccessInvariant, PTL

(* Every permission of support staff is one of reading, out of a request   *)
(* that was approved and whose withdrawal has not been committed, in       *)
(* whatever order approvals and withdrawals read and commit.               *)
THEOREM SupportIsLimited == AccessSpec => []SupportEnds
<1>1. AccessInv => SupportEnds
  BY OnlyReading DEF SupportEnds
<1> QED
  BY <1>1, AccessInvariant, PTL
=============================================================================
