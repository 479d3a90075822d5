---------------------------- MODULE ProjectAccess ----------------------------
(***************************************************************************)
(* Who may do what with one project of a company: the project members,     *)
(* collaborating companies, temporary capabilities and support grants of   *)
(* backend/project_access_routes.py and support_routes.py, the permissions *)
(* backend/permissions.py computes from them, and the row level security   *)
(* of the migrations, which decides the same question a second time.       *)
(*                                                                         *)
(* No handler locks the row it decides about.  A request is two actions:   *)
(* Begin checks the caller and loads the row, Commit writes the columns    *)
(* the handler changed, over whatever the row holds by then.               *)
(***************************************************************************)
EXTENDS Naturals, Sequences, FiniteSets

CONSTANTS
  Companies,      \* the companies
  Owner,          \* the one the project is of
  People,         \* customer accounts
  Movable,        \* bound: those whose company membership may change
  Assignable,     \* bound: those who may be made members of the project
  Home,           \* person -> the company at first
  Staff,          \* platform accounts that ask for support access
  SuperAdmins,    \* those of them who are platform_super_admin
  Clients,        \* API requests that may be under way at once
  Roles,          \* the project roles assigned
  Capabilities,   \* the capabilities granted
  SupportCodes,   \* the sets of permissions staff ask for
  MaxSupport      \* bound: support requests

ProjectRoles == {"project_manager", "implementation_consultant", "approver",
                 "customer_contact", "viewer"}
GRANTABLE_CAPABILITIES ==
  {"project.edit", "run.start", "run.cancel", "run.retry", "import.validate",
   "import.submit", "import.execute", "acceptance.submit"}
SUPPORT_READ_PERMISSIONS ==
  {"project.view", "run.view", "approval.view", "artifact.view", "audit.view"}

ASSUME AccessAssumption ==
  /\ Owner \in Companies /\ Home \in [People -> Companies]
  /\ Movable \subseteq People /\ Assignable \subseteq People
  /\ People \cap Staff = {} /\ SuperAdmins \subseteq Staff
  /\ Roles \subseteq ProjectRoles /\ Capabilities \subseteq GRANTABLE_CAPABILITIES
  /\ SupportCodes \subseteq SUBSET SUPPORT_READ_PERMISSIONS /\ {} \notin SupportCodes
  /\ MaxSupport \in Nat

VARIABLES
  home,         \* person -> the company membership, the last one if none is active
  collab,       \* company -> status of its ProjectCollaboration, "none" without a row
  member,       \* person -> the ProjectMembership row
  capability,   \* person -> capability -> the grant that is not revoked, if any
  support,      \* SupportAccessGrant rows in the order of creation
  req,          \* client -> the request under way
  ended,        \* history: companies revoked with no other request about them under way
  removed,      \* history: members removed with no request to add them under way
  withdrawn     \* history: support requests whose withdrawal has been committed

rows == <<home, collab, member, capability, support>>
accessVars == <<home, collab, member, capability, support, req, ended, removed, withdrawn>>

-----------------------------------------------------------------------------
(* Rows *)

Membership == [company : Companies, admin : BOOLEAN, active : BOOLEAN]
CollaborationStatus == {"none", "pending", "active", "rejected", "revoked"}
NoRow == [status |-> "absent"]
MemberRow == [tenant : Companies, role : Roles, status : {"active", "disabled"}]
GrantStatus == {"none", "valid", "expired"}
SupportRow == [requester : Staff, codes : SUBSET SUPPORT_READ_PERMISSIONS,
               status : {"pending", "approved", "rejected", "revoked"},
               revoked : BOOLEAN, expired : BOOLEAN]

(* A request: the row it is about, as loaded, and as the handler leaves it. *)
Idle == [kind |-> "idle"]
Request ==
  {Idle}
  \cup [kind : {"collaboration"}, of : Companies \ {Owner},
        loaded : CollaborationStatus, set : CollaborationStatus \ {"none"}]
  \cup [kind : {"membership"}, of : Assignable, loaded : MemberRow \cup {NoRow}, set : MemberRow]
  \cup [kind : {"support"}, of : 1 .. MaxSupport, set : {"approved", "rejected", "revoked"}]

-----------------------------------------------------------------------------
(* permissions.py, with the codes the properties tell apart *)

RolePermissions ==
  [company_admin |-> {"project.view", "project.delete", "project.restore",
     "project.member.assign", "project.member.revoke", "collaboration.invite",
     "collaboration.revoke"},
   project_manager |-> {"project.view", "project.edit", "project.member.assign",
     "project.member.revoke", "run.start", "run.cancel", "run.retry"},
   implementation_consultant |-> {"project.view", "project.edit", "run.start", "run.cancel",
     "run.retry", "import.validate", "import.submit", "import.execute"},
   approver |-> {"project.view", "approval.decide", "acceptance.decide"},
   customer_contact |-> {"project.view", "acceptance.submit"},
   viewer |-> {"project.view"}]
OwnersOnly == {"project.delete", "project.restore", "collaboration.invite", "collaboration.revoke"}

(* The principal of a customer session: the membership must be active.     *)
SignedIn(u) == u \in People /\ home[u].active
At(u, k) == SignedIn(u) /\ home[u].company = k
Admin(u) == SignedIn(u) /\ home[u].admin

Usable(g) == support[g].status = "approved" /\ ~support[g].revoked /\ ~support[g].expired

(* accessible_project_filter: the projects a query finds.                  *)
Listed(u) ==
  \/ /\ SignedIn(u)
     /\ home[u].company = Owner \/ collab[home[u].company] = "active"
     /\ \/ home[u].admin
        \/ /\ member[u].status = "active"
           /\ member[u].tenant = home[u].company
  \/ \E g \in DOMAIN support :
       support[g].requester = u /\ Usable(g) /\ "project.view" \in support[g].codes

(* project_access: what the project lets the caller do.                    *)
InAnyCollaboration(u) == SignedIn(u) /\ (home[u].company = Owner \/ collab[home[u].company] # "none")
InCompanyScope(u) == SignedIn(u) /\ (home[u].company = Owner \/ collab[home[u].company] = "active")

OnProjectForAnyone(u) == InCompanyScope(u) /\ member[u].status = "active"
OnProject(u) ==
  InCompanyScope(u) /\ member[u].status = "active" /\ member[u].tenant = home[u].company

RoleCodes(u) ==
  {r \in {"company_admin"} : InCompanyScope(u) /\ Admin(u)}
  \cup {r \in Roles : OnProject(u) /\ member[u].role = r}

Granted(u) == {code \in Capabilities : OnProject(u) /\ capability[u][code] = "valid"}

SupportPermissions(u) ==
  UNION {support[g].codes : g \in {h \in DOMAIN support : support[h].requester = u /\ Usable(h)}}

Permissions(u) ==
  LET all == (UNION {RolePermissions[r] : r \in RoleCodes(u)}) \cup Granted(u) \cup SupportPermissions(u)
  IN  IF "project.view" \notin all THEN {}
      ELSE IF At(u, Owner) THEN all ELSE all \ OwnersOnly

Can(u, code) == Listed(u) /\ code \in Permissions(u)

(* The policies on implementation_projects and on what hangs from it.      *)
RLSScope(u) ==
  /\ SignedIn(u)
  /\ home[u].company = Owner \/ collab[home[u].company] = "active"
  /\ home[u].admin \/ member[u].status = "active"
RLSRead(u) ==
  \/ RLSScope(u) \/ u \in SuperAdmins
  \/ \E g \in DOMAIN support :
       support[g].requester = u /\ Usable(g) /\ "project.view" \in support[g].codes

-----------------------------------------------------------------------------
(* Requests *)

Begin(c, r) ==
  /\ req[c] = Idle
  /\ req' = [req EXCEPT ![c] = r]
  /\ UNCHANGED rows

(* Another request than c's that is about a company, or means to make a    *)
(* person a member of the project.                                         *)
Pending(c, kind, x) == \E d \in Clients \ {c} : req[d].kind = kind /\ req[d].of = x
Activates(r) == r.set.status = "active" /\ r.loaded.status # "active"
Adding(c, p) ==
  \E d \in Clients \ {c} : req[d].kind = "membership" /\ req[d].of = p /\ Activates(req[d])

BeginMembership(c, p, row) ==
  LET r == [kind |-> "membership", of |-> p, loaded |-> member[p], set |-> row] IN
  /\ Begin(c, r)
  /\ removed' = IF Activates(r) THEN removed \ {p} ELSE removed
  /\ UNCHANGED <<ended, withdrawn>>

AddMember(c, u, p, role) ==
  LET k == home[p].company IN
  /\ Can(u, "project.member.assign")
  /\ home[p].active
  /\ k = Owner \/ collab[k] = "active"
  /\ At(u, k)
  /\ BeginMembership(c, p, [tenant |-> k, role |-> role, status |-> "active"])

(* A role or a status the caller does not send stays as loaded.            *)
UpdateMember(c, u, p, role, status) ==
  /\ Can(u, "project.member.assign")
  /\ member[p] # NoRow /\ At(u, member[p].tenant)
  /\ BeginMembership(c, p, [member[p] EXCEPT !.role = role, !.status = status])

RemoveMember(c, u, p) ==
  /\ Can(u, "project.member.revoke")
  /\ member[p] # NoRow /\ At(u, member[p].tenant)
  /\ BeginMembership(c, p, [member[p] EXCEPT !.status = "disabled"])

WholeRow(loaded, set, now) == set

(* Only the columns that differ from the loaded row are written.           *)
Changed(loaded, set, now) ==
  IF loaded = NoRow THEN set
  ELSE [tenant |-> IF set.tenant = loaded.tenant THEN now.tenant ELSE set.tenant,
        role |-> IF set.role = loaded.role THEN now.role ELSE set.role,
        status |-> IF set.status = loaded.status THEN now.status ELSE set.status]

CommitMembership(c) ==
  LET r == req[c]
      removal == r.loaded.status = "active" /\ r.set.status = "disabled" IN
  /\ r.kind = "membership"
  /\ r.loaded = NoRow => member[r.of] = NoRow
  /\ member' = [member EXCEPT ![r.of] = Changed(r.loaded, r.set, @)]
  /\ removed' = IF removal /\ ~Adding(c, r.of) THEN removed \cup {r.of} ELSE removed
  /\ req' = [req EXCEPT ![c] = Idle]
  /\ UNCHANGED <<home, collab, capability, support, ended, withdrawn>>

(* Someone else has inserted the row: the unique constraint refuses this.  *)
Conflict(c) ==
  LET r == req[c] IN
  /\ \/ r.kind = "membership" /\ r.loaded = NoRow /\ member[r.of] # NoRow
     \/ r.kind = "collaboration" /\ r.loaded = "none" /\ collab[r.of] # "none"
  /\ req' = [req EXCEPT ![c] = Idle]
  /\ UNCHANGED <<rows, ended, removed, withdrawn>>

-----------------------------------------------------------------------------
(* Temporary capabilities: an administrator of the member's company, which *)
(* the partial unique index makes wait for each other.                     *)

Grants(u, p) == Admin(u) /\ Listed(u) /\ member[p] # NoRow /\ At(u, member[p].tenant)

CreateCapabilityGrant(u, p, code) ==
  /\ Grants(u, p)
  /\ capability[p][code] # "valid"
  /\ capability' = [capability EXCEPT ![p][code] = "valid"]
  /\ UNCHANGED <<home, collab, member, support, req, ended, removed, withdrawn>>

RevokeCapabilityGrant(u, p, code) ==
  /\ Grants(u, p)
  /\ capability[p][code] # "none"
  /\ capability' = [capability EXCEPT ![p][code] = "none"]
  /\ UNCHANGED <<home, collab, member, support, req, ended, removed, withdrawn>>

CapabilityExpires(p, code) ==
  /\ capability[p][code] = "valid"
  /\ capability' = [capability EXCEPT ![p][code] = "expired"]
  /\ UNCHANGED <<home, collab, member, support, req, ended, removed, withdrawn>>

-----------------------------------------------------------------------------
(* Collaborating companies *)

BeginCollaboration(c, k, status) ==
  /\ Begin(c, [kind |-> "collaboration", of |-> k, loaded |-> collab[k], set |-> status])
  /\ ended' = IF status = "pending" THEN ended \ {k} ELSE ended
  /\ UNCHANGED <<removed, withdrawn>>

InviteCompany(c, u, k) ==
  /\ Can(u, "collaboration.invite")
  /\ k # Owner
  /\ BeginCollaboration(c, k, "pending")

DecideUnlessDecided(c, u, k, decision) ==
  /\ Admin(u) /\ At(u, k)
  /\ collab[k] \notin {"none", "active", "rejected"}
  /\ BeginCollaboration(c, k, decision)

DecideAccepted(c, u, k, decision) ==
  /\ Admin(u) /\ At(u, k)
  /\ collab[k] = "pending"
  /\ BeginCollaboration(c, k, "accepted")

(* _decide_collaboration, by an administrator of the invited company.      *)
DecideCollaboration(c, u, k, decision) ==
  /\ Admin(u) /\ At(u, k)
  /\ collab[k] = "pending"
  /\ BeginCollaboration(c, k, decision)

RevokeCollaboration(c, u, k) ==
  /\ collab[k] # "none"
  /\ Can(u, "collaboration.revoke")
  /\ BeginCollaboration(c, k, "revoked")

CommitCollaboration(c) ==
  LET r == req[c] IN
  /\ r.kind = "collaboration"
  /\ r.loaded = "none" => collab[r.of] = "none"
  /\ collab' = [collab EXCEPT ![r.of] = IF r.set = r.loaded THEN @ ELSE r.set]
  /\ ended' = IF r.set = "revoked" /\ r.loaded # "revoked" /\ ~Pending(c, "collaboration", r.of)
              THEN ended \cup {r.of} ELSE ended
  /\ req' = [req EXCEPT ![c] = Idle]
  /\ UNCHANGED <<home, member, capability, support, removed, withdrawn>>

-----------------------------------------------------------------------------
(* Support access *)

CreateSupportAccess(s, codes) ==
  /\ Len(support) < MaxSupport
  /\ support' = Append(support, [requester |-> s, codes |-> codes, status |-> "pending",
                                 revoked |-> FALSE, expired |-> FALSE])
  /\ UNCHANGED <<home, collab, member, capability, req, ended, removed, withdrawn>>

BeginSupport(c, g, status) ==
  /\ Begin(c, [kind |-> "support", of |-> g, set |-> status])
  /\ UNCHANGED <<ended, removed, withdrawn>>

(* Requesters are platform accounts, so none decides on its own request.   *)
DecideSupport(c, u, g, decision) ==
  /\ Admin(u) /\ At(u, Owner)
  /\ support[g].status = "pending" /\ ~support[g].expired
  /\ BeginSupport(c, g, decision)

RevokeSupport(c, u, g) ==
  /\ (Admin(u) /\ At(u, Owner)) \/ u = support[g].requester
  /\ ~support[g].revoked
  /\ BeginSupport(c, g, "revoked")

(* Mutant: the whole row is written, as it was loaded when it was pending. *)
CommitSupportRow(c) ==
  LET r == req[c]
      withdrawal == r.set = "revoked" IN
  /\ r.kind = "support"
  /\ support' = [support EXCEPT ![r.of].status = r.set, ![r.of].revoked = withdrawal]
  /\ withdrawn' = IF withdrawal THEN withdrawn \cup {r.of} ELSE withdrawn
  /\ req' = [req EXCEPT ![c] = Idle]
  /\ UNCHANGED <<home, collab, member, capability, ended, removed>>

(* A decision writes the status and leaves revoked_at as it is by then.    *)
CommitSupport(c) ==
  LET r == req[c]
      withdrawal == r.set = "revoked" IN
  /\ r.kind = "support"
  /\ support' = [support EXCEPT ![r.of].status = r.set, ![r.of].revoked = @ \/ withdrawal]
  /\ withdrawn' = IF withdrawal THEN withdrawn \cup {r.of} ELSE withdrawn
  /\ req' = [req EXCEPT ![c] = Idle]
  /\ UNCHANGED <<home, collab, member, capability, ended, removed>>

SupportExpires(g) ==
  /\ ~support[g].expired
  /\ support' = [support EXCEPT ![g].expired = TRUE]
  /\ UNCHANGED <<home, collab, member, capability, req, ended, removed, withdrawn>>

-----------------------------------------------------------------------------
(* The company memberships behind all of it *)

(* An administrator changes a colleague; nobody disables themselves.       *)
UpdateCompanyMember(u, p, admin, active) ==
  /\ Admin(u) /\ At(u, home[p].company)
  /\ u # p \/ active
  /\ home' = [home EXCEPT ![p].admin = admin, ![p].active = active]
  /\ UNCHANGED <<collab, member, capability, support, req, ended, removed, withdrawn>>

(* Platform staff move a person: project memberships held for the company  *)
(* that is left are disabled, and the capabilities on them revoked.        *)
TransferCompany(p, k, admin) ==
  LET old == home[p]
      leaves == old.active /\ member[p].status = "active" /\ member[p].tenant = old.company IN
  /\ ~At(p, k)
  /\ Admin(p) => \E q \in People \ {p} : Admin(q) /\ At(q, old.company)
  /\ home' = [home EXCEPT ![p] = [company |-> k, admin |-> admin, active |-> TRUE]]
  /\ member' = IF leaves THEN [member EXCEPT ![p].status = "disabled"] ELSE member
  /\ capability' = IF leaves THEN [capability EXCEPT ![p] = [code \in Capabilities |-> "none"]]
                   ELSE capability
  /\ UNCHANGED <<collab, support, req, ended, removed, withdrawn>>

-----------------------------------------------------------------------------
AccessInit ==
  /\ home \in {h \in [People -> Membership] :
       \A p \in People : h[p] = [company |-> Home[p], admin |-> p \notin Movable, active |-> TRUE]}
  /\ collab = [k \in Companies |-> "none"]
  /\ member = [p \in People |-> NoRow]
  /\ capability = [p \in People |-> [code \in Capabilities |-> "none"]]
  /\ support = <<>>
  /\ req = [c \in Clients |-> Idle]
  /\ ended = {} /\ removed = {} /\ withdrawn = {}

MembershipStep ==
  \E c \in Clients, u \in People, p \in Assignable :
    \/ \E role \in Roles : AddMember(c, u, p, role)
    \/ \E role \in Roles, status \in {"active", "disabled"} : UpdateMember(c, u, p, role, status)
    \/ RemoveMember(c, u, p)

CapabilityStep ==
  \E p \in Assignable, code \in Capabilities :
    \/ \E u \in People : CreateCapabilityGrant(u, p, code) \/ RevokeCapabilityGrant(u, p, code)
    \/ CapabilityExpires(p, code)

CollaborationStep ==
  \E c \in Clients, u \in People, k \in Companies \ {Owner} :
    \/ InviteCompany(c, u, k)
    \/ \E decision \in {"active", "rejected"} : DecideCollaboration(c, u, k, decision)
    \/ RevokeCollaboration(c, u, k)

SupportStep ==
  \/ \E s \in Staff, codes \in SupportCodes : CreateSupportAccess(s, codes)
  \/ \E g \in DOMAIN support :
       \/ \E c \in Clients, u \in People \cup Staff :
            \/ \E decision \in {"approved", "rejected"} : DecideSupport(c, u, g, decision)
            \/ RevokeSupport(c, u, g)
       \/ SupportExpires(g)

CompanyStep ==
  \E p \in Movable, admin \in BOOLEAN :
    \/ \E u \in People, active \in BOOLEAN : UpdateCompanyMember(u, p, admin, active)
    \/ \E k \in Companies : TransferCompany(p, k, admin)

CommitStep ==
  \E c \in Clients :
    CommitMembership(c) \/ CommitCollaboration(c) \/ CommitSupport(c) \/ Conflict(c)

AccessNext == \/ MembershipStep \/ CapabilityStep \/ CollaborationStep
              \/ SupportStep \/ CompanyStep \/ CommitStep
AccessSpec == AccessInit /\ [][AccessNext]_accessVars

-----------------------------------------------------------------------------
(* Properties *)

(* Rows and requests are well formed; a member's row is of a company.      *)
AccessTypeOK ==
  /\ home \in [People -> Membership]
  /\ collab \in [Companies -> CollaborationStatus]
  /\ member \in [People -> MemberRow \cup {NoRow}]
  /\ capability \in [People -> [Capabilities -> GrantStatus]]
  /\ support \in Seq(SupportRow)
  /\ req \in [Clients -> Request]
  /\ ended \subseteq Companies /\ removed \subseteq People
  /\ withdrawn \subseteq 1 .. MaxSupport

(* The two places of the application that decide about a project agree:    *)
(* the query of the lists finds it for exactly those whom project_access   *)
(* gives some permission, whatever sequence of changes came before.        *)
ListedIffOpens == \A u \in People \cup Staff : Listed(u) <=> Permissions(u) # {}

(* The database never refuses what the application allows: whoever the     *)
(* application lets see the project passes the SELECT policy, and whoever  *)
(* holds more than a reading permission passes the write policies.         *)
AppWithinRLS ==
  \A u \in People \cup Staff :
    /\ Permissions(u) # {} => RLSRead(u)
    /\ Permissions(u) \ SUPPORT_READ_PERMISSIONS # {} => RLSScope(u)

(* Once a collaboration has been revoked, and no other request about it    *)
(* was under way, nobody of that company has access until the owner        *)
(* invites it again: whatever it decides, is granted or assigned.          *)
RevocationHolds ==
  \A u \in People : SignedIn(u) /\ home[u].company \in ended => Permissions(u) = {}

(* The same without the proviso: a revoked company has no access until it  *)
(* has been invited again.  An acceptance under way breaks it.             *)
RevokedCompaniesOut ==
  [][\A k \in Companies : collab[k] = "revoked" => collab'[k] # "active"]_accessVars

(* A removed project member is brought back only by someone who adds or    *)
(* enables them after the removal: a role change or an assignment that     *)
(* loaded the row before the removal commits over it without undoing it.   *)
RemovalStands == \A p \in removed : member[p].status = "disabled"

(* Each permission of platform staff is one of reading and comes from a    *)
(* request for it that an administrator of the company approved and whose  *)
(* withdrawal by either side has not been committed, even when an approval *)
(* that had read the request as pending commits after the withdrawal.      *)
SupportEnds ==
  \A s \in Staff : \A code \in Permissions(s) :
    /\ code \in SUPPORT_READ_PERMISSIONS
    /\ \E g \in DOMAIN support \ withdrawn :
         /\ support[g].requester = s /\ code \in support[g].codes
         /\ support[g].status = "approved"
=============================================================================
