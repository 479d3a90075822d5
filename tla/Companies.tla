------------------------------ MODULE Companies ------------------------------
(***************************************************************************)
(* Who belongs to which company: invitations and members of                *)
(* backend/admin_routes.py, their acceptance in auth_routes.py, the bulk   *)
(* import of member_import_routes.py, the companies people found in        *)
(* onboarding.py and what platform_routes.py does to companies and members.*)
(*                                                                         *)
(* Requests interleave where the code reads a row without a lock and       *)
(* writes it later, and where an acceptance holds the row of its           *)
(* invitation.  What the rows say of a person (names, departments,         *)
(* employee numbers) is left out.                                          *)
(***************************************************************************)
EXTENDS Naturals, Sequences, FiniteSets

CONSTANTS
  CompanyIds,       \* companies that may exist
  First,            \* the one that exists at first
  People,           \* people, by their e-mail address
  Chief,            \* its administrator
  BatchRows,        \* the people in the import batch of a company
  Clients,          \* API requests that may be under way at once
  NoCompany,        \* the company of a person who has none
  MaxInvitations    \* bound: invitations

ASSUME CompaniesAssumption ==
  /\ First \in CompanyIds /\ NoCompany \notin CompanyIds
  /\ Chief \in People /\ BatchRows \subseteq People \ {Chief} /\ IsFiniteSet(BatchRows)
  /\ MaxInvitations \in Nat

VARIABLES
  company,      \* company -> status of the Tenant row
  ms,           \* company -> person -> TenantMembership
  registered,   \* people with an account
  inv,          \* UserInvitation rows in the order of creation
  entry,        \* company -> people with a CompanyDirectoryEntry
  batch,        \* company -> status of its CompanyMemberImport
  req,          \* client -> the request under way
  orphan        \* history: directory places a transfer has left behind

data == <<company, ms, registered, inv, entry, batch, orphan>>
companiesVars == <<company, ms, registered, inv, entry, batch, req, orphan>>

NoMembership == [status |-> "none", admin |-> FALSE]
Membership == [status : {"none", "disabled", "active"}, admin : BOOLEAN]

(* "expired": pending in the row, past expires_at.  "deleted": no row any  *)
(* more.  batch: made by the import.  joins counts the memberships made.   *)
InvitationStatus == {"pending", "expired", "accepted", "revoked", "deleted"}
Invitation == [company : CompanyIds, person : People, admin : BOOLEAN,
               status : InvitationStatus, batch : BOOLEAN, joins : Nat]
NewInvitation(k, p, admin, byBatch) ==
  [company |-> k, person |-> p, admin |-> admin, status |-> "pending",
   batch |-> byBatch, joins |-> 0]

Idle == [op |-> "idle"]
Request ==
  {Idle}
  \cup [op : {"accept"}, of : 1 .. MaxInvitations]
  \cup [op : {"revoke", "delete"}, of : 1 .. MaxInvitations]
  \cup [op : {"revokeWritten", "deleteWritten"}, of : 1 .. MaxInvitations, free : BOOLEAN]
  \cup [op : {"invite", "resend"}, company : CompanyIds, person : People, admin : BOOLEAN,
        of : 0 .. MaxInvitations, write : BOOLEAN]
  \cup [op : {"transfer"}, person : People, from : CompanyIds \cup {NoCompany},
        to : CompanyIds, admin : BOOLEAN]

Active(k, p) == ms[k][p].status = "active"
CompanyOf(p) == {k \in CompanyIds : Active(k, p)}
Admins(k) == {p \in People : Active(k, p) /\ ms[k][p].admin}
Administered(k) == company[k] = "active" /\ Admins(k) # {}
Join(k, p, admin) == [ms EXCEPT ![k][p] = [status |-> "active", admin |-> admin]]

Open(i) == inv[i].status \in {"pending", "expired"}
OpenFor(k, p) == {i \in DOMAIN inv : Open(i) /\ inv[i].company = k /\ inv[i].person = p}

(* Mutant: an acceptance only reads the row of its invitation.             *)
LockedByWrite(i) ==
  \E c \in Clients : req[c].op \in {"revokeWritten", "deleteWritten"} /\ req[c].of = i

(* The transaction that has updated the row of an invitation and not yet   *)
(* committed, and the one that holds the row of a company.                 *)
Locked(i) ==
  \E c \in Clients : req[c].op \in {"accept", "revokeWritten", "deleteWritten"} /\ req[c].of = i
TenantLocked(k) == \E c \in Clients : req[c].op = "invite" /\ req[c].company = k

Begin(c, r) == req[c] = Idle /\ req' = [req EXCEPT ![c] = r] /\ UNCHANGED data
Finish(c) == req' = [req EXCEPT ![c] = Idle]
Fail(c) == Finish(c) /\ UNCHANGED data

-----------------------------------------------------------------------------
(* Invitations *)

(* create_invitation, under the lock of the company's row.                 *)
Invite(c, k, p, admin) ==
  /\ Administered(k) /\ ~TenantLocked(k)
  /\ CompanyOf(p) = {}
  /\ LET found == OpenFor(k, p) IN
     Begin(c, [op |-> "invite", company |-> k, person |-> p, admin |-> admin,
               of |-> IF found = {} THEN 0 ELSE CHOOSE i \in found : TRUE,
               write |-> found # {}])

Resend(c, i) ==
  /\ inv[i].status \notin {"accepted", "deleted"} /\ Administered(inv[i].company)
  /\ Begin(c, [op |-> "resend", company |-> inv[i].company, person |-> inv[i].person,
               admin |-> inv[i].admin, of |-> i, write |-> inv[i].status # "revoked"])

(* Mutant: the earlier invitation gets a status of its own.                *)
RenewedAsReplaced(r) ==
  IF r.write THEN [inv EXCEPT ![r.of].status = "replaced"] ELSE inv

(* The earlier invitation becomes revoked, whatever it has become, and a   *)
(* new one is made, unless the partial unique index finds another open one.*)
Renewed(r) ==
  IF r.write THEN [inv EXCEPT ![r.of].status = "revoked"] ELSE inv
RenewFails(r) ==
  \/ r.write /\ inv[r.of].status = "deleted"
  \/ OpenFor(r.company, r.person) \ (IF r.write THEN {r.of} ELSE {}) # {}

CommitRenew(c) ==
  LET r == req[c] IN
  /\ r.op \in {"invite", "resend"}
  /\ r.write => ~Locked(r.of)
  /\ ~RenewFails(r)
  /\ Len(inv) < MaxInvitations
  /\ inv' = Append(Renewed(r), NewInvitation(r.company, r.person, r.admin, FALSE))
  /\ Finish(c)
  /\ UNCHANGED <<company, ms, registered, entry, batch, orphan>>

RefuseRenew(c) ==
  /\ req[c].op \in {"invite", "resend"}
  /\ req[c].write => ~Locked(req[c].of)
  /\ RenewFails(req[c]) \/ Len(inv) = MaxInvitations
  /\ Fail(c)

Revoke(c, i) ==
  /\ Open(i) /\ Administered(inv[i].company)
  /\ Begin(c, [op |-> "revoke", of |-> i])

Delete(c, i) ==
  /\ inv[i].status # "deleted" /\ Administered(inv[i].company)
  /\ Begin(c, [op |-> "delete", of |-> i])

(* The write waits for whoever holds the row, then the directory is looked *)
(* at: the place is free without another open invitation or a membership.  *)
(* A deletion goes on when the row is already gone, a revocation fails.    *)
Written(i, op) == IF op = "revoke" THEN "revokeWritten" ELSE "deleteWritten"

(* Mutant: the look-up sees the invitation as it was, still open.          *)
UnusedBeforeFlush(i) ==
  /\ OpenFor(inv[i].company, inv[i].person) = {}
  /\ ms[inv[i].company][inv[i].person].status = "none"

Unused(i) ==
  /\ OpenFor(inv[i].company, inv[i].person) \subseteq {i}
  /\ ms[inv[i].company][inv[i].person].status = "none"

Write(c) ==
  LET i == req[c].of IN
  /\ req[c].op \in {"revoke", "delete"}
  /\ ~Locked(i)
  /\ req[c].op = "revoke" => inv[i].status # "deleted"
  /\ req' = [req EXCEPT ![c] = [op |-> Written(i, req[c].op), of |-> i, free |-> Unused(i)]]
  /\ UNCHANGED data

RowGone(c) ==
  /\ req[c].op = "revoke"
  /\ ~Locked(req[c].of) /\ inv[req[c].of].status = "deleted"
  /\ Fail(c)

(* _release_unused_directory_entry and the commit.                         *)
Release(c) ==
  LET r == req[c]
      row == inv[r.of] IN
  /\ r.op \in {"revokeWritten", "deleteWritten"}
  /\ inv' = [inv EXCEPT ![r.of].status = IF r.op = "revokeWritten" THEN "revoked" ELSE "deleted"]
  /\ entry' = IF r.free THEN [entry EXCEPT ![row.company] = @ \ {row.person}] ELSE entry
  /\ Finish(c)
  /\ UNCHANGED <<company, ms, registered, batch, orphan>>

Expire(i) ==
  /\ inv[i].status = "pending" /\ ~Locked(i)
  /\ inv' = [inv EXCEPT ![i].status = "expired"]
  /\ UNCHANGED <<company, ms, registered, entry, batch, req, orphan>>

(* accept_invitation takes the invitation by one conditional update, then  *)
(* checks the company and the person.                                      *)
Accept(c, i) ==
  LET k == inv[i].company IN
  /\ inv[i].status = "pending" /\ ~Locked(i)
  /\ company[k] = "active"
  /\ CompanyOf(inv[i].person) \subseteq {k}
  /\ ms[k][inv[i].person].status = "none"
  /\ Begin(c, [op |-> "accept", of |-> i])

(* Mutant: the partial unique index is missing.                            *)
JoinableAnywhere(k, p) == ms[k][p].status = "none"

(* At the commit the unique constraint on memberships and the partial      *)
(* unique index on active ones decide once more.                           *)
Joinable(k, p) == CompanyOf(p) = {} /\ ms[k][p].status = "none"

CommitAccept(c) ==
  LET i == req[c].of
      k == inv[i].company
      p == inv[i].person IN
  /\ req[c].op = "accept"
  /\ Joinable(k, p)
  /\ inv' = [inv EXCEPT ![i].status = "accepted", ![i].joins = @ + 1]
  /\ ms' = Join(k, p, inv[i].admin)
  /\ registered' = registered \cup {p}
  /\ Finish(c)
  /\ UNCHANGED <<company, entry, batch, orphan>>

AcceptConflict(c) ==
  /\ req[c].op = "accept"
  /\ ~Joinable(inv[req[c].of].company, inv[req[c].of].person)
  /\ Fail(c)

-----------------------------------------------------------------------------
(* Bulk import *)

(* validate_rows: a person of another company is an error, a member or an  *)
(* open invitation is skipped.                                             *)
RowErrors(k) == {p \in BatchRows : CompanyOf(p) \ {k} # {}}
NewRows(k) == {p \in BatchRows : ms[k][p].status = "none" /\ OpenFor(k, p) = {}}

Validate(k) ==
  /\ Administered(k) /\ batch[k] = "none"
  /\ batch' = [batch EXCEPT ![k] = "validated"]
  /\ UNCHANGED <<company, ms, registered, inv, entry, req, orphan>>

InvitationsOf(k, rows) ==
  {s \in [1 .. Cardinality(rows) -> {NewInvitation(k, p, FALSE, TRUE) : p \in rows}] :
     \A p \in rows : \E n \in DOMAIN s : s[n].person = p}

(* Mutant: a committed batch is done again.                                *)
CommitBatchAgain(k) ==
  /\ Administered(k) /\ ~TenantLocked(k)
  /\ batch[k] \in {"validated", "committed"}
  /\ RowErrors(k) = {}
  /\ Len(inv) + Cardinality(NewRows(k)) <= MaxInvitations
  /\ \E s \in InvitationsOf(k, NewRows(k)) : inv' = inv \o s
  /\ entry' = [entry EXCEPT ![k] = @ \cup NewRows(k)]
  /\ batch' = [batch EXCEPT ![k] = "committed"]
  /\ UNCHANGED <<company, ms, registered, req, orphan>>

(* commit_batch holds the company's row and the batch, validates again and *)
(* does all or nothing; a committed batch only answers again.              *)
CommitBatch(k) ==
  /\ Administered(k) /\ ~TenantLocked(k)
  /\ batch[k] = "validated"
  /\ RowErrors(k) = {}
  /\ Len(inv) + Cardinality(NewRows(k)) <= MaxInvitations
  /\ \E s \in InvitationsOf(k, NewRows(k)) : inv' = inv \o s
  /\ entry' = [entry EXCEPT ![k] = @ \cup NewRows(k)]
  /\ batch' = [batch EXCEPT ![k] = "committed"]
  /\ UNCHANGED <<company, ms, registered, req, orphan>>

-----------------------------------------------------------------------------
(* Companies and members *)

Register(p) ==
  /\ p \notin registered
  /\ registered' = registered \cup {p}
  /\ UNCHANGED <<company, ms, inv, entry, batch, req, orphan>>

(* create_company, under the lock of the user's row.                       *)
CreateCompany(k, p) ==
  /\ company[k] = "absent" /\ p \in registered
  /\ CompanyOf(p) = {}
  /\ company' = [company EXCEPT ![k] = "active"]
  /\ ms' = Join(k, p, TRUE)
  /\ UNCHANGED <<registered, inv, entry, batch, req, orphan>>

CreateTenant(k, p) ==
  /\ company[k] = "absent" /\ p \notin registered
  /\ Len(inv) < MaxInvitations
  /\ company' = [company EXCEPT ![k] = "active"]
  /\ inv' = Append(inv, NewInvitation(k, p, TRUE, FALSE))
  /\ UNCHANGED <<ms, registered, entry, batch, req, orphan>>

UpdateTenant(k, status) ==
  /\ company[k] # "absent"
  /\ company' = [company EXCEPT ![k] = status]
  /\ UNCHANGED <<ms, registered, inv, entry, batch, req, orphan>>

(* update_member, by an administrator; nobody disables themselves, and the *)
(* partial unique index refuses a second active company.                   *)
UpdateMember(k, p, admin, status) ==
  /\ company[k] = "active" /\ ms[k][p].status # "none"
  /\ IF status = "disabled" THEN Admins(k) \ {p} # {} ELSE Admins(k) # {}
  /\ status = "active" => CompanyOf(p) \subseteq {k}
  /\ ms' = [ms EXCEPT ![k][p] = [status |-> status, admin |-> admin]]
  /\ UNCHANGED <<company, registered, inv, entry, batch, req, orphan>>

(* transfer_company loads the membership and counts the administrators.    *)
BeginTransfer(c, p, k, admin) ==
  LET from == IF CompanyOf(p) = {} THEN NoCompany ELSE CHOOSE j \in CompanyIds : Active(j, p) IN
  /\ p \in registered /\ company[k] = "active" /\ from # k
  /\ from # NoCompany /\ ms[from][p].admin => Cardinality(Admins(from)) > 1
  /\ Begin(c, [op |-> "transfer", person |-> p, from |-> from, to |-> k, admin |-> admin])

Left(r) == IF r.from = NoCompany THEN ms ELSE [ms EXCEPT ![r.from][r.person].status = "disabled"]
Ends(i, r) == inv[i].person = r.person /\ Open(i)
TransferConflict(r) == CompanyOf(r.person) \ {r.from, r.to} # {}

(* It ends the open invitations of the person, in every company.           *)
CommitTransfer(c) ==
  LET r == req[c] IN
  /\ r.op = "transfer"
  /\ \A i \in DOMAIN inv : Ends(i, r) => ~Locked(i)
  /\ ~TransferConflict(r)
  /\ ms' = [Left(r) EXCEPT ![r.to][r.person] = [status |-> "active", admin |-> r.admin]]
  /\ inv' = [i \in DOMAIN inv |-> IF Ends(i, r) THEN [inv[i] EXCEPT !.status = "revoked"] ELSE inv[i]]
  /\ orphan' = orphan \cup {<<inv[i].company, r.person>> : i \in {j \in DOMAIN inv : Ends(j, r)}}
  /\ Finish(c)
  /\ UNCHANGED <<company, registered, entry, batch>>

RefuseTransfer(c) == req[c].op = "transfer" /\ TransferConflict(req[c]) /\ Fail(c)

-----------------------------------------------------------------------------
CompaniesInit ==
  /\ company = [k \in CompanyIds |-> IF k = First THEN "active" ELSE "absent"]
  /\ ms = [k \in CompanyIds |-> [p \in People |->
             IF k = First /\ p = Chief THEN [status |-> "active", admin |-> TRUE] ELSE NoMembership]]
  /\ registered = {Chief}
  /\ inv = <<>>
  /\ entry = [k \in CompanyIds |-> {}]
  /\ batch = [k \in CompanyIds |-> "none"]
  /\ req = [c \in Clients |-> Idle]
  /\ orphan = {}

InvitationStep ==
  \/ \E c \in Clients :
       \/ \E k \in CompanyIds, p \in People, admin \in BOOLEAN : Invite(c, k, p, admin)
       \/ \E i \in DOMAIN inv : Resend(c, i) \/ Revoke(c, i) \/ Delete(c, i) \/ Accept(c, i)
       \/ CommitRenew(c) \/ RefuseRenew(c)
       \/ Write(c) \/ RowGone(c) \/ Release(c)
       \/ CommitAccept(c) \/ AcceptConflict(c)
  \/ \E i \in DOMAIN inv : Expire(i)

MemberStep ==
  \/ \E k \in CompanyIds : Validate(k) \/ CommitBatch(k)
  \/ \E p \in People : Register(p)
  \/ \E k \in CompanyIds, p \in People : CreateCompany(k, p) \/ CreateTenant(k, p)
  \/ \E k \in CompanyIds, status \in {"active", "disabled"} : UpdateTenant(k, status)
  \/ \E k \in CompanyIds, p \in People, admin \in BOOLEAN :
       \/ \E status \in {"active", "disabled"} : UpdateMember(k, p, admin, status)
       \/ \E c \in Clients : BeginTransfer(c, p, k, admin)
  \/ \E c \in Clients : CommitTransfer(c) \/ RefuseTransfer(c)

CompaniesNext == InvitationStep \/ MemberStep
CompaniesSpec == CompaniesInit /\ [][CompaniesNext]_companiesVars

-----------------------------------------------------------------------------
(* Properties *)

CompaniesTypeOK ==
  /\ company \in [CompanyIds -> {"absent", "active", "disabled"}]
  /\ ms \in [CompanyIds -> [People -> Membership]]
  /\ registered \subseteq People
  /\ inv \in Seq(Invitation) /\ Len(inv) <= MaxInvitations
  /\ entry \in [CompanyIds -> SUBSET People]
  /\ batch \in [CompanyIds -> {"none", "validated", "committed"}]
  /\ req \in [Clients -> Request]
  /\ orphan \subseteq CompanyIds \X People

(* A customer is an active member of at most one company, whatever         *)
(* acceptances, transfers, foundations and reactivations interleave.       *)
OneCompany == \A p \in People : \A j, k \in CompanyOf(p) : j = k

(* A link that was revoked, replaced by a new one, used or deleted never   *)
(* makes anyone a member, also while its acceptance races what ended it.   *)
DeadLinksStayDead ==
  [][\A i \in DOMAIN inv :
       inv[i].status # "pending" => inv'[i].joins = inv[i].joins]_companiesVars

(* The directory keeps a place only for a member or for someone who can    *)
(* still become one, apart from the places a transfer leaves behind.       *)
PlacesUsed ==
  \A k \in CompanyIds : \A p \in entry[k] :
    \/ ms[k][p].status # "none"
    \/ OpenFor(k, p) # {}
    \/ <<k, p>> \in orphan

(* A batch invites each of its people at most once, however often it is    *)
(* submitted and whatever has become of the invitation since.              *)
BatchOnce ==
  \A i, j \in DOMAIN inv :
    (/\ inv[i].batch /\ inv[j].batch
     /\ inv[i].company = inv[j].company /\ inv[i].person = inv[j].person) => i = j
=============================================================================
