--------------------------- MODULE CompaniesProofs ---------------------------
(***************************************************************************)
(* Proofs about Companies for any companies, people, requests and bounds.  *)
(*                                                                         *)
(* The invariant says what the rows have in common (one open invitation of *)
(* a person to a company, one active company of a person, a use for every  *)
(* place in the directory) and what a request under way may rely on.       *)
(***************************************************************************)
EXTENDS Companies, FiniteSetTheorems, TLAPS

SameRow(row, old) ==
  row.company = old.company /\ row.person = old.person /\ row.batch = old.batch

(* Two open invitations of a person to a company are one, and a company    *)
(* that does not exist has invited nobody.                                 *)
OneOpen ==
  /\ \A i, j \in DOMAIN inv :
       Open(i) /\ Open(j) /\ inv[i].company = inv[j].company /\ inv[i].person = inv[j].person => i = j
  /\ \A i \in DOMAIN inv : company[inv[i].company] # "absent"

BatchInv ==
  /\ BatchOnce
  /\ \A i \in DOMAIN inv : inv[i].batch => batch[inv[i].company] = "committed"

(* What a request may rely on until it commits.                            *)
WrittenOps == {"revokeWritten", "deleteWritten"}
RequestInv(r) ==
  /\ r.op \in {"accept", "revoke", "delete"} \cup WrittenOps => r.of \in DOMAIN inv
  /\ r.op = "accept" => inv[r.of].status = "pending"
  /\ r.op \in WrittenOps /\ ~r.free =>
       ~Open(r.of) \/ ms[inv[r.of].company][inv[r.of].person].status # "none"
  /\ r.op \in {"invite", "resend"} =>
       /\ company[r.company] # "absent"
       /\ r.write => /\ r.of \in DOMAIN inv
                     /\ inv[r.of].company = r.company /\ inv[r.of].person = r.person

Requests == \A c \in Clients : RequestInv(req[c])

(* One request at a time holds the row of an invitation.                   *)
Holds(r, i) == r.op \in {"accept"} \cup WrittenOps /\ r.of = i
Exclusive ==
  \A c, d \in Clients : Holds(req[c], req[c].of) /\ Holds(req[d], req[c].of) => c = d

CompaniesInv ==
  /\ CompaniesTypeOK
  /\ OneCompany
  /\ OneOpen
  /\ PlacesUsed
  /\ BatchInv
  /\ Requests
  /\ Exclusive

-----------------------------------------------------------------------------
(* Requests *)

LEMMA LockedIs == \A i : Locked(i) <=> \E c \in Clients : Holds(req[c], i)
BY DEF Locked, Holds, WrittenOps

LEMMA NewRequest ==
  ASSUME CompaniesInv, UNCHANGED data, NEW c \in Clients, NEW r \in Request,
         req' = [req EXCEPT ![c] = r], RequestInv(r),
         \A d \in Clients \ {c} : Holds(r, r.of) => ~Holds(req[d], r.of)
  PROVE  CompaniesInv'
<1>1. req' \in [Clients -> Request] /\ \A d \in Clients : req'[d] = IF d = c THEN r ELSE req[d]
  BY DEF CompaniesInv, CompaniesTypeOK
<1>2. CompaniesTypeOK'
  BY <1>1 DEF CompaniesInv, CompaniesTypeOK, data
<1>3. OneCompany' /\ OneOpen' /\ PlacesUsed' /\ BatchInv'
  BY DEF CompaniesInv, OneCompany, OneOpen, PlacesUsed, BatchInv, BatchOnce, CompanyOf, Active,
     OpenFor, Open, data
<1>4. Requests'
  BY <1>1 DEF CompaniesInv, Requests, RequestInv, Open, data
<1>5. Exclusive'
  BY <1>1 DEF CompaniesInv, Exclusive, Holds
<1> QED
  BY <1>2, <1>3, <1>4, <1>5 DEF CompaniesInv

LEMMA Ended ==
  ASSUME CompaniesInv, NEW c \in Clients, Fail(c)
  PROVE  CompaniesInv'
<1>1. Idle \in Request /\ RequestInv(Idle) /\ ~Holds(Idle, Idle.of)
  BY DEF Idle, Request, RequestInv, Holds, WrittenOps
<1> QED
  BY <1>1, NewRequest DEF Fail, Finish

(* The rows only change so that requests may go on.                        *)
Monotone ==
  /\ \A k \in CompanyIds : company[k] # "absent" => company'[k] # "absent"
  /\ \A k \in CompanyIds, p \in People : ms[k][p].status # "none" => ms'[k][p].status # "none"
  /\ DOMAIN inv \subseteq DOMAIN inv'
  /\ \A i \in DOMAIN inv : SameRow(inv'[i], inv[i])
  /\ \A i \in DOMAIN inv : inv'[i].status \in {"pending", "expired"} => Open(i)

LEMMA RequestsKeep ==
  ASSUME CompaniesInv, Monotone,
         \A d \in Clients : req'[d] = req[d] \/ req'[d] = Idle,
         \A d \in Clients : req'[d] = req[d] /\ req[d].op = "accept" =>
                              inv'[req[d].of].status = "pending"
  PROVE  Requests' /\ Exclusive'
<1>1. ASSUME NEW d \in Clients PROVE RequestInv(req[d])'
  <2>1. CASE req'[d] = Idle
    BY <2>1 DEF RequestInv, Idle, WrittenOps
  <2>2. CASE req'[d] = req[d]
    <3> DEFINE r == req[d]
    <3>1. RequestInv(r) /\ r \in Request
      BY DEF CompaniesInv, CompaniesTypeOK, Requests
    <3>2. r.op = "accept" => inv'[r.of].status = "pending"
      BY <2>2
    <3>3. r.op \in {"accept", "revoke", "delete"} \cup WrittenOps => r.of \in DOMAIN inv'
      BY <3>1 DEF RequestInv, Monotone
    <3>4. ASSUME r.op \in {"invite", "resend"}
          PROVE  /\ company'[r.company] # "absent"
                 /\ r.write => /\ r.of \in DOMAIN inv'
                               /\ inv'[r.of].company = r.company /\ inv'[r.of].person = r.person
      <4>1. r.company \in CompanyIds
        BY <3>1, <3>4 DEF Request, Idle
      <4> QED
        BY <3>1, <3>4, <4>1 DEF RequestInv, Monotone, SameRow
    <3>5. ASSUME r.op \in WrittenOps, ~r.free
          PROVE  \/ inv'[r.of].status \notin {"pending", "expired"}
                 \/ ms'[inv'[r.of].company][inv'[r.of].person].status # "none"
      <4>1. r.of \in DOMAIN inv /\ inv[r.of] \in Invitation
        BY <3>1, <3>5 DEF RequestInv, CompaniesInv, CompaniesTypeOK
      <4>2. inv[r.of].company \in CompanyIds /\ inv[r.of].person \in People
        BY <4>1 DEF Invitation
      <4> QED
        BY <3>1, <3>5, <4>1, <4>2 DEF RequestInv, Monotone, SameRow
    <3> QED
      BY <2>2, <3>2, <3>3, <3>4, <3>5 DEF RequestInv, Open
  <2> QED
    BY <2>1, <2>2
<1>2. Requests'
  BY <1>1 DEF Requests
<1>3. Exclusive'
  <2>1. \A i : \A d \in Clients : Holds(req'[d], i) => req'[d] = req[d]
    BY DEF Holds, Idle, WrittenOps
  <2> QED
    BY <2>1 DEF CompaniesInv, Exclusive
<1> QED
  BY <1>2, <1>3

LEMMA FinishTyped ==
  ASSUME CompaniesTypeOK, NEW c \in Clients, Finish(c)
  PROVE  /\ req' \in [Clients -> Request]
         /\ \A d \in Clients : req'[d] = req[d] \/ req'[d] = Idle
         /\ req'[c] = Idle /\ \A d \in Clients \ {c} : req'[d] = req[d]
<1>1. Idle \in Request
  BY DEF Idle, Request
<1> QED
  BY <1>1 DEF Finish, CompaniesTypeOK

-----------------------------------------------------------------------------
(* Rows *)

LEMMA UpdateRow ==
  ASSUME NEW S, NEW s \in Seq(S), NEW i, NEW v, i \in DOMAIN s => v \in S
  PROVE  /\ [s EXCEPT ![i] = v] \in Seq(S)
         /\ Len([s EXCEPT ![i] = v]) = Len(s)
         /\ \A j \in DOMAIN s : [s EXCEPT ![i] = v][j] = IF j = i THEN v ELSE s[j]
<1>1. s \in [1 .. Len(s) -> S] /\ Len(s) \in Nat
  OBVIOUS
<1>2. [s EXCEPT ![i] = v] \in [1 .. Len(s) -> S]
  BY <1>1
<1> QED
  BY <1>1, <1>2

LEMMA RowTyped ==
  ASSUME CompaniesTypeOK, NEW i \in DOMAIN inv
  PROVE  /\ inv[i] \in Invitation /\ inv[i].company \in CompanyIds /\ inv[i].person \in People
         /\ inv[i].batch \in BOOLEAN /\ inv[i].status \in InvitationStatus /\ inv[i].joins \in Nat
<1>1. inv[i] \in Invitation
  BY DEF CompaniesTypeOK
<1> QED
  BY <1>1 DEF Invitation

LEMMA StatusTyped ==
  ASSUME NEW row \in Invitation, NEW status \in InvitationStatus
  PROVE  LET new == [row EXCEPT !.status = status] IN
         new \in Invitation /\ SameRow(new, row) /\ new.status = status /\ new.joins = row.joins
BY DEF Invitation, SameRow

LEMMA AcceptedTyped ==
  ASSUME NEW row \in Invitation
  PROVE  LET new == [row EXCEPT !.status = "accepted", !.joins = @ + 1] IN
         new \in Invitation /\ SameRow(new, row) /\ new.status = "accepted"
<1> DEFINE mid == [row EXCEPT !.status = "accepted"]
           new == [mid EXCEPT !.joins = @ + 1]
<1>1. mid \in Invitation /\ SameRow(mid, row) /\ mid.status = "accepted" /\ mid.joins + 1 \in Nat
  BY DEF Invitation, InvitationStatus, SameRow
<1>2. new = [row EXCEPT !.status = "accepted", !.joins = @ + 1]
  BY DEF Invitation
<1> HIDE DEF mid
<1>3. new \in Invitation /\ SameRow(new, mid) /\ new.status = "accepted"
  BY <1>1 DEF Invitation, SameRow
<1> HIDE DEF new
<1> QED
  BY <1>1, <1>2, <1>3 DEF SameRow

LEMMA NewInvitationTyped ==
  ASSUME NEW k \in CompanyIds, NEW p \in People, NEW admin \in BOOLEAN, NEW byBatch \in BOOLEAN
  PROVE  LET row == NewInvitation(k, p, admin, byBatch) IN
         /\ row \in Invitation /\ row.company = k /\ row.person = p
         /\ row.batch = byBatch /\ row.status = "pending"
BY DEF NewInvitation, Invitation, InvitationStatus

(* New rows keep what the rows have in common if they duplicate nothing.   *)
LEMMA RowsGrow ==
  ASSUME CompaniesInv, Monotone,
         \A k \in CompanyIds : batch[k] = "committed" => batch'[k] = "committed",
         \A i \in DOMAIN inv' \ DOMAIN inv :
           /\ company'[inv'[i].company] # "absent"
           /\ inv'[i].batch => /\ batch[inv'[i].company] # "committed"
                               /\ batch'[inv'[i].company] = "committed",
         \A i \in DOMAIN inv' \ DOMAIN inv, j \in DOMAIN inv :
           inv'[j].status \in {"pending", "expired"} =>
             ~(inv'[i].company = inv[j].company /\ inv'[i].person = inv[j].person),
         \A i, j \in DOMAIN inv' \ DOMAIN inv :
           inv'[i].company = inv'[j].company /\ inv'[i].person = inv'[j].person => i = j
  PROVE  OneOpen' /\ BatchInv'
<1>1. \A i \in DOMAIN inv : inv[i].company \in CompanyIds
  BY RowTyped DEF CompaniesInv
<1>2. \A i \in DOMAIN inv' : company'[inv'[i].company] # "absent"
  BY <1>1 DEF CompaniesInv, OneOpen, Monotone, SameRow
<1>3. ASSUME NEW i \in DOMAIN inv', NEW j \in DOMAIN inv',
             inv'[i].status \in {"pending", "expired"}, inv'[j].status \in {"pending", "expired"},
             inv'[i].company = inv'[j].company, inv'[i].person = inv'[j].person
      PROVE  i = j
  BY <1>3 DEF CompaniesInv, OneOpen, Monotone, SameRow, Open
<1>4. \A i \in DOMAIN inv' : inv'[i].batch => batch'[inv'[i].company] = "committed"
  BY <1>1 DEF CompaniesInv, BatchInv, Monotone, SameRow
<1>5. ASSUME NEW i \in DOMAIN inv', NEW j \in DOMAIN inv', inv'[i].batch, inv'[j].batch,
             inv'[i].company = inv'[j].company, inv'[i].person = inv'[j].person
      PROVE  i = j
  BY <1>5 DEF CompaniesInv, BatchInv, BatchOnce, Monotone, SameRow
<1> QED
  BY <1>2, <1>3, <1>4, <1>5 DEF OneOpen, Open, BatchInv, BatchOnce

LEMMA RowsStay ==
  ASSUME CompaniesInv, Monotone, UNCHANGED batch, DOMAIN inv' = DOMAIN inv
  PROVE  OneOpen' /\ BatchInv'
BY RowsGrow

LEMMA OneRowMore ==
  ASSUME CompaniesInv, Monotone, UNCHANGED batch, NEW n, DOMAIN inv' = DOMAIN inv \cup {n},
         ~inv'[n].batch, company'[inv'[n].company] # "absent",
         \A j \in DOMAIN inv :
           inv'[j].status \in {"pending", "expired"} =>
             ~(inv'[n].company = inv[j].company /\ inv'[n].person = inv[j].person)
  PROVE  OneOpen' /\ BatchInv'
BY RowsGrow

(* A place is given up or keeps a use.                                     *)
LEMMA PlacesKeep ==
  ASSUME CompaniesInv, Monotone, orphan \subseteq orphan',
         entry' \in [CompanyIds -> SUBSET People],
         \A k \in CompanyIds : \A p \in entry'[k] : p \in entry[k] \/ OpenFor(k, p)' # {},
         \A k \in CompanyIds : \A p \in entry'[k] : \A i \in OpenFor(k, p) :
           ms'[k][p].status # "none" \/ OpenFor(k, p)' # {} \/ <<k, p>> \in orphan'
  PROVE  PlacesUsed'
<1>1. ASSUME NEW k \in CompanyIds, NEW p \in entry'[k]
      PROVE  ms'[k][p].status # "none" \/ OpenFor(k, p)' # {} \/ <<k, p>> \in orphan'
  <2>1. p \in People
    BY <1>1
  <2> QED
    BY <1>1, <2>1 DEF CompaniesInv, PlacesUsed, Monotone
<1> QED
  BY <1>1 DEF PlacesUsed

LEMMA SameMembers ==
  ASSUME OneCompany, UNCHANGED ms
  PROVE  OneCompany'
BY DEF OneCompany, CompanyOf, Active

-----------------------------------------------------------------------------
(* Invitations *)

LEMMA RenewKeeps ==
  ASSUME CompaniesInv, NEW c \in Clients, CommitRenew(c)
  PROVE  CompaniesInv'
<1> DEFINE r == req[c]
           n == Len(inv) + 1
           kept == Renewed(r)
           row == NewInvitation(r.company, r.person, r.admin, FALSE)
<1>1. /\ r \in Request /\ r.op \in {"invite", "resend"} /\ RequestInv(r)
      /\ inv \in Seq(Invitation) /\ CompaniesTypeOK
  BY DEF CommitRenew, CompaniesInv, CompaniesTypeOK, Requests
<1>2. /\ r.company \in CompanyIds /\ r.person \in People /\ r.admin \in BOOLEAN /\ r.write \in BOOLEAN
      /\ company[r.company] # "absent"
  BY <1>1 DEF Request, Idle, RequestInv
<1>3. /\ row \in Invitation /\ row.company = r.company /\ row.person = r.person /\ ~row.batch
      /\ row.status = "pending"
  BY <1>2 DEF NewInvitation, Invitation, InvitationStatus
<1>4. /\ kept \in Seq(Invitation) /\ Len(kept) = Len(inv)
      /\ \A j \in DOMAIN inv :
           /\ SameRow(kept[j], inv[j])
           /\ kept[j] = inv[j] \/ (r.write /\ j = r.of)
           /\ r.write /\ j = r.of => kept[j].status = "revoked"
  <2>1. CASE ~r.write
    BY <1>1, <2>1 DEF Renewed, SameRow
  <2>2. CASE r.write
    <3> DEFINE new == [inv[r.of] EXCEPT !.status = "revoked"]
    <3>1. r.of \in DOMAIN inv /\ inv[r.of] \in Invitation
      BY <1>1, <2>2 DEF RequestInv
    <3>2. new \in Invitation /\ SameRow(new, inv[r.of]) /\ new.status = "revoked"
      BY <3>1, StatusTyped DEF InvitationStatus
    <3>3. kept = [inv EXCEPT ![r.of] = new]
      BY <2>2 DEF Renewed
    <3> HIDE DEF new, kept
    <3> QED
      BY <1>1, <2>2, <3>1, <3>2, <3>3, UpdateRow DEF SameRow
  <2> QED
    BY <1>2, <2>1, <2>2
<1>5. /\ inv' = Append(kept, row) /\ Len(inv) < MaxInvitations /\ ~RenewFails(r)
      /\ Finish(c) /\ UNCHANGED <<company, ms, registered, entry, batch, orphan>>
      /\ r.write => ~Locked(r.of)
  BY DEF CommitRenew
<1> HIDE DEF kept, row
<1>6. /\ inv' \in Seq(Invitation) /\ DOMAIN inv' = DOMAIN inv \cup {n} /\ inv'[n] = row
      /\ Len(inv') = n /\ \A j \in DOMAIN inv : inv'[j] = kept[j]
  BY <1>1, <1>3, <1>4, <1>5
<1>7. Len(inv') <= MaxInvitations
  BY <1>1, <1>5, <1>6, CompaniesAssumption
<1>8. Monotone
  BY <1>4, <1>5, <1>6 DEF Monotone, Open, SameRow
<1>9. CompaniesTypeOK'
  BY <1>1, <1>5, <1>6, <1>7, FinishTyped DEF CompaniesTypeOK
<1>10. OneOpen' /\ BatchInv'
  <2>1. ASSUME NEW j \in DOMAIN inv, inv'[j].status \in {"pending", "expired"},
               row.company = inv[j].company, row.person = inv[j].person
        PROVE  FALSE
    <3>1. j \in OpenFor(r.company, r.person)
      BY <1>3, <1>8, <2>1 DEF OpenFor, Monotone
    <3>2. ~(r.write /\ j = r.of)
      BY <1>4, <1>6, <2>1
    <3> QED
      BY <1>5, <3>1, <3>2 DEF RenewFails
  <2> QED
    BY <1>2, <1>3, <1>5, <1>6, <1>8, <2>1, OneRowMore
<1>11. PlacesUsed'
  <2>1. ASSUME NEW k \in CompanyIds, NEW p \in People, NEW i \in OpenFor(k, p)
        PROVE  OpenFor(k, p)' # {}
    <3>1. i \in DOMAIN inv /\ Open(i) /\ inv[i].company = k /\ inv[i].person = p
      BY DEF OpenFor
    <3>2. CASE inv'[i] = inv[i]
      <4>1. i \in OpenFor(k, p)'
        BY <1>6, <3>1, <3>2 DEF OpenFor, Open
      <4> QED
        BY <4>1
    <3>3. CASE inv'[i] # inv[i]
      <4>1. r.write /\ i = r.of /\ inv[r.of].company = r.company /\ inv[r.of].person = r.person
        BY <1>1, <1>4, <1>6, <3>1, <3>3 DEF RequestInv
      <4>2. n \in OpenFor(k, p)'
        BY <1>3, <1>6, <3>1, <4>1 DEF OpenFor, Open
      <4> QED
        BY <4>2
    <3> QED
      BY <3>2, <3>3
  <2>2. entry' \in [CompanyIds -> SUBSET People]
    BY <1>9 DEF CompaniesTypeOK
  <2> QED
    BY <1>5, <1>8, <2>1, <2>2, PlacesKeep
<1>12. Requests' /\ Exclusive'
  <2>1. ASSUME NEW d \in Clients, req[d].op = "accept" PROVE inv'[req[d].of].status = "pending"
    <3>1. req[d].of \in DOMAIN inv /\ inv[req[d].of].status = "pending" /\ Holds(req[d], req[d].of)
      BY <2>1 DEF CompaniesInv, Requests, RequestInv, Holds
    <3>2. ~(r.write /\ req[d].of = r.of)
      BY <1>5, <3>1, LockedIs
    <3> QED
      BY <1>4, <1>6, <3>1, <3>2
  <2> QED
    BY <1>1, <1>5, <1>8, <2>1, FinishTyped, RequestsKeep
<1> QED
  BY <1>5, <1>9, <1>10, <1>11, <1>12, SameMembers DEF CompaniesInv

(* One row gets another status; who holds it waits or is the one.          *)
LEMMA StatusKeeps ==
  ASSUME CompaniesInv, NEW i \in DOMAIN inv, NEW row \in Invitation,
         inv' = [inv EXCEPT ![i] = row], SameRow(row, inv[i]),
         row.status \in {"pending", "expired"} => Open(i),
         UNCHANGED <<company, batch, orphan>>,
         ms' \in [CompanyIds -> [People -> Membership]], OneCompany',
         \A k \in CompanyIds, p \in People : ms[k][p].status # "none" => ms'[k][p].status # "none",
         registered' \subseteq People,
         \A k \in CompanyIds : entry'[k] \subseteq entry[k],
         entry' \in [CompanyIds -> SUBSET People],
         Open(i) /\ inv[i].person \in entry'[inv[i].company] =>
           row.status \in {"pending", "expired"} \/ ms'[inv[i].company][inv[i].person].status # "none",
         req' \in [Clients -> Request],
         \A d \in Clients : req'[d] = req[d] \/ req'[d] = Idle,
         \A d \in Clients : req'[d] = req[d] => ~Holds(req[d], i)
  PROVE  CompaniesInv'
<1>1. CompaniesTypeOK /\ inv \in Seq(Invitation)
  BY DEF CompaniesInv, CompaniesTypeOK
<1>2. /\ inv' \in Seq(Invitation) /\ Len(inv') = Len(inv)
      /\ \A j \in DOMAIN inv : inv'[j] = IF j = i THEN row ELSE inv[j]
  BY <1>1, UpdateRow
<1>3. DOMAIN inv' = DOMAIN inv
  BY <1>1, <1>2
<1>4. Monotone
  BY <1>2, <1>3 DEF Monotone, SameRow, Open
<1>5. CompaniesTypeOK'
  BY <1>1, <1>2 DEF CompaniesTypeOK
<1>6. OneOpen' /\ BatchInv'
  BY <1>3, <1>4, RowsStay
<1>7. PlacesUsed'
  <2>1. ASSUME NEW k \in CompanyIds, NEW p \in entry'[k], NEW j \in OpenFor(k, p)
        PROVE  ms'[k][p].status # "none" \/ OpenFor(k, p)' # {}
    <3>1. j \in DOMAIN inv /\ Open(j) /\ inv[j].company = k /\ inv[j].person = p
      BY DEF OpenFor
    <3>2. CASE inv'[j].status \in {"pending", "expired"}
      <4>1. j \in OpenFor(k, p)'
        BY <1>2, <1>3, <3>1, <3>2 DEF OpenFor, Open, SameRow
      <4> QED
        BY <4>1
    <3>3. CASE inv'[j].status \notin {"pending", "expired"}
      BY <1>2, <3>1, <3>3 DEF Open
    <3> QED
      BY <3>2, <3>3
  <2> QED
    BY <1>4, <2>1, PlacesKeep
<1>8. Requests' /\ Exclusive'
  <2>1. ASSUME NEW d \in Clients, req'[d] = req[d], req[d].op = "accept"
        PROVE  inv'[req[d].of].status = "pending"
    <3>1. req[d].of \in DOMAIN inv /\ inv[req[d].of].status = "pending" /\ Holds(req[d], req[d].of)
      BY <2>1 DEF CompaniesInv, Requests, RequestInv, Holds
    <3> QED
      BY <1>2, <2>1, <3>1
  <2> QED
    BY <1>4, <2>1, RequestsKeep
<1> QED
  BY <1>5, <1>6, <1>7, <1>8 DEF CompaniesInv

LEMMA ReleaseKeeps ==
  ASSUME CompaniesInv, NEW c \in Clients, Release(c)
  PROVE  CompaniesInv'
<1> DEFINE r == req[c]
           i == r.of
           status == IF r.op = "revokeWritten" THEN "revoked" ELSE "deleted"
           row == [inv[i] EXCEPT !.status = status]
           k == inv[i].company
           p == inv[i].person
<1>1. /\ r \in Request /\ r.op \in WrittenOps /\ RequestInv(r) /\ CompaniesTypeOK
  BY DEF Release, CompaniesInv, CompaniesTypeOK, Requests, WrittenOps
<1>2. i \in DOMAIN inv /\ (~r.free => ~Open(i) \/ ms[k][p].status # "none")
  BY <1>1 DEF RequestInv
<1>3. /\ inv[i] \in Invitation /\ k \in CompanyIds /\ p \in People
  BY <1>1, <1>2, RowTyped
<1>4. row \in Invitation /\ SameRow(row, inv[i]) /\ row.status = status
  <2>1. status \in InvitationStatus
    BY DEF InvitationStatus
  <2> HIDE DEF status
  <2> QED
    BY <1>3, <2>1, StatusTyped
<1>5. /\ inv' = [inv EXCEPT ![i] = row] /\ Finish(c)
      /\ entry' = IF r.free THEN [entry EXCEPT ![k] = @ \ {p}] ELSE entry
      /\ UNCHANGED <<company, ms, registered, batch, orphan>>
  BY DEF Release
<1>6. status \notin {"pending", "expired"}
  OBVIOUS
<1> HIDE DEF row, status
<1>7. /\ entry' \in [CompanyIds -> SUBSET People] /\ \A j \in CompanyIds : entry'[j] \subseteq entry[j]
      /\ r.free => p \notin entry'[k]
  BY <1>1, <1>3, <1>5 DEF CompaniesTypeOK
<1>8. /\ req' \in [Clients -> Request] /\ \A d \in Clients : req'[d] = req[d] \/ req'[d] = Idle
      /\ req'[c] # req[c]
  BY <1>1, <1>5, FinishTyped DEF Idle, WrittenOps
<1>9. Holds(req[c], req[c].of)
  BY <1>1 DEF Holds
<1>10. ASSUME NEW d \in Clients, req'[d] = req[d] PROVE ~Holds(req[d], i)
  BY <1>8, <1>9, <1>10 DEF CompaniesInv, Exclusive
<1> QED
  BY <1>1, <1>2, <1>4, <1>5, <1>6, <1>7, <1>8, <1>10, StatusKeeps, SameMembers
     DEF CompaniesInv, CompaniesTypeOK

LEMMA ExpireKeeps ==
  ASSUME CompaniesInv, NEW i \in DOMAIN inv, Expire(i)
  PROVE  CompaniesInv'
<1> DEFINE row == [inv[i] EXCEPT !.status = "expired"]
<1>1. CompaniesTypeOK /\ inv[i] \in Invitation
  BY RowTyped DEF CompaniesInv
<1>2. row \in Invitation /\ SameRow(row, inv[i]) /\ row.status = "expired"
  BY <1>1, StatusTyped DEF InvitationStatus
<1>3. /\ inv' = [inv EXCEPT ![i] = row] /\ Open(i) /\ ~Locked(i)
      /\ UNCHANGED <<company, ms, registered, entry, batch, req, orphan>>
  BY DEF Expire, Open
<1> HIDE DEF row
<1>4. \A d \in Clients : ~Holds(req[d], i)
  BY <1>3, LockedIs
<1> QED
  BY <1>1, <1>2, <1>3, <1>4, StatusKeeps, SameMembers DEF CompaniesInv, CompaniesTypeOK

LEMMA JoinKeeps ==
  ASSUME CompaniesTypeOK, OneCompany, NEW k \in CompanyIds, NEW p \in People, NEW admin \in BOOLEAN,
         CompanyOf(p) = {}, ms' = Join(k, p, admin)
  PROVE  /\ ms' \in [CompanyIds -> [People -> Membership]] /\ OneCompany'
         /\ \A j \in CompanyIds, q \in People : ms[j][q].status # "none" => ms'[j][q].status # "none"
         /\ ms'[k][p].status = "active"
<1> DEFINE place == [status |-> "active", admin |-> admin]
<1>1. place \in Membership /\ place.status = "active"
  BY DEF Membership
<1>2. ms' = [ms EXCEPT ![k][p] = place]
  BY DEF Join
<1> HIDE DEF place
<1>3. /\ ms' \in [CompanyIds -> [People -> Membership]]
      /\ \A j \in CompanyIds, q \in People : ms'[j][q] = IF j = k /\ q = p THEN place ELSE ms[j][q]
  BY <1>1, <1>2 DEF CompaniesTypeOK
<1>4. OneCompany'
  BY <1>3 DEF OneCompany, CompanyOf, Active
<1> QED
  BY <1>1, <1>3, <1>4

LEMMA AcceptKeeps ==
  ASSUME CompaniesInv, NEW c \in Clients, CommitAccept(c)
  PROVE  CompaniesInv'
<1> DEFINE r == req[c]
           i == r.of
           row == [inv[i] EXCEPT !.status = "accepted", !.joins = @ + 1]
           k == inv[i].company
           p == inv[i].person
<1>1. r \in Request /\ r.op = "accept" /\ RequestInv(r) /\ CompaniesTypeOK /\ OneCompany
  BY DEF CommitAccept, CompaniesInv, CompaniesTypeOK, Requests
<1>2. i \in DOMAIN inv
  BY <1>1 DEF RequestInv
<1>3. /\ inv[i] \in Invitation /\ k \in CompanyIds /\ p \in People /\ inv[i].admin \in BOOLEAN
  BY <1>1, <1>2, RowTyped DEF Invitation
<1>4. row \in Invitation /\ SameRow(row, inv[i]) /\ row.status = "accepted"
  BY <1>3, AcceptedTyped
<1>5. /\ inv' = [inv EXCEPT ![i] = row] /\ Finish(c) /\ ms' = Join(k, p, inv[i].admin)
      /\ CompanyOf(p) = {} /\ registered' = registered \cup {p}
      /\ UNCHANGED <<company, entry, batch, orphan>>
  BY DEF CommitAccept, Joinable
<1> HIDE DEF row
<1>6. /\ ms' \in [CompanyIds -> [People -> Membership]] /\ OneCompany'
      /\ \A j \in CompanyIds, q \in People : ms[j][q].status # "none" => ms'[j][q].status # "none"
      /\ ms'[k][p].status # "none"
  BY <1>1, <1>3, <1>5, JoinKeeps
<1>7. /\ req' \in [Clients -> Request] /\ \A d \in Clients : req'[d] = req[d] \/ req'[d] = Idle
      /\ req'[c] # req[c]
  BY <1>1, <1>5, FinishTyped DEF Idle
<1>8. Holds(req[c], req[c].of)
  BY <1>1 DEF Holds
<1>9. ASSUME NEW d \in Clients, req'[d] = req[d] PROVE ~Holds(req[d], i)
  BY <1>7, <1>8, <1>9 DEF CompaniesInv, Exclusive
<1>10. entry' \in [CompanyIds -> SUBSET People] /\ registered' \subseteq People
  BY <1>1, <1>3, <1>5 DEF CompaniesTypeOK
<1> QED
  BY <1>2, <1>4, <1>5, <1>6, <1>7, <1>9, <1>10, StatusKeeps

LEMMA TenantKeeps ==
  ASSUME CompaniesInv, NEW k \in CompanyIds, NEW p \in People, CreateTenant(k, p)
  PROVE  CompaniesInv'
<1> DEFINE n == Len(inv) + 1
           row == NewInvitation(k, p, TRUE, FALSE)
<1>1. CompaniesTypeOK /\ inv \in Seq(Invitation) /\ OneCompany
  BY DEF CompaniesInv, CompaniesTypeOK
<1>2. /\ row \in Invitation /\ row.company = k /\ row.person = p /\ ~row.batch
  BY DEF NewInvitation, Invitation, InvitationStatus
<1>3. /\ inv' = Append(inv, row) /\ Len(inv) < MaxInvitations /\ company[k] = "absent"
      /\ company' = [company EXCEPT ![k] = "active"]
      /\ UNCHANGED <<ms, registered, entry, batch, req, orphan>>
  BY DEF CreateTenant
<1> HIDE DEF row
<1>4. /\ inv' \in Seq(Invitation) /\ DOMAIN inv' = DOMAIN inv \cup {n} /\ inv'[n] = row
      /\ Len(inv') = n /\ \A j \in DOMAIN inv : inv'[j] = inv[j]
  BY <1>1, <1>2, <1>3
<1>5. Len(inv') <= MaxInvitations
  BY <1>1, <1>3, <1>4, CompaniesAssumption
<1>6. /\ company' \in [CompanyIds -> {"absent", "active", "disabled"}] /\ company'[k] = "active"
      /\ \A j \in CompanyIds : company[j] # "absent" => company'[j] # "absent"
  BY <1>1, <1>3 DEF CompaniesTypeOK
<1>7. CompaniesTypeOK'
  BY <1>1, <1>3, <1>4, <1>5, <1>6 DEF CompaniesTypeOK
<1>8. Monotone
  BY <1>3, <1>4, <1>6 DEF Monotone, SameRow, Open
<1>9. OneOpen' /\ BatchInv'
  <2>1. \A j \in DOMAIN inv : inv[j].company # k
    BY <1>3 DEF CompaniesInv, OneOpen
  <2> QED
    BY <1>2, <1>3, <1>4, <1>6, <1>8, <2>1, OneRowMore
<1>10. PlacesUsed'
  <2>1. ASSUME NEW j \in CompanyIds, NEW q \in People, NEW i \in OpenFor(j, q) PROVE OpenFor(j, q)' # {}
    <3>1. i \in OpenFor(j, q)'
      BY <1>4 DEF OpenFor, Open
    <3> QED
      BY <3>1
  <2> QED
    BY <1>1, <1>3, <1>8, <2>1, PlacesKeep DEF CompaniesTypeOK
<1>11. Requests' /\ Exclusive'
  <2>1. ASSUME NEW d \in Clients, req[d].op = "accept" PROVE inv'[req[d].of].status = "pending"
    BY <1>4, <2>1 DEF CompaniesInv, Requests, RequestInv
  <2> QED
    BY <1>3, <1>8, <2>1, RequestsKeep
<1> QED
  BY <1>1, <1>3, <1>7, <1>9, <1>10, <1>11, SameMembers DEF CompaniesInv

(* As many new invitations as rows, one for each: none is there twice.     *)
LEMMA InvitationsAre ==
  ASSUME NEW k \in CompanyIds, NEW people \in SUBSET BatchRows,
         NEW s \in InvitationsOf(k, people)
  PROVE  /\ s \in Seq(Invitation) /\ Len(s) = Cardinality(people) /\ Len(s) \in Nat
         /\ \A n \in DOMAIN s : s[n].company = k /\ s[n].batch /\ s[n].person \in people
                                /\ s[n].status = "pending"
         /\ \A m, n \in DOMAIN s : s[m].person = s[n].person => m = n
         /\ \A p \in people : \E n \in DOMAIN s : s[n].person = p
<1> DEFINE N == Cardinality(people)
           invitations == {NewInvitation(k, p, FALSE, TRUE) : p \in people}
           f == [n \in 1 .. N |-> s[n].person]
<1>1. IsFiniteSet(people) /\ N \in Nat
  BY CompaniesAssumption, FS_Subset, FS_CardinalityType
<1>2. s \in [1 .. N -> invitations] /\ \A p \in people : \E n \in DOMAIN s : s[n].person = p
  BY DEF InvitationsOf
<1>3. \A row \in invitations : row \in Invitation /\ row.company = k /\ row.batch
                               /\ row.person \in people /\ row.status = "pending"
  <2>1. ASSUME NEW p \in people
        PROVE  LET row == NewInvitation(k, p, FALSE, TRUE) IN
               /\ row \in Invitation /\ row.company = k /\ row.batch
               /\ row.person \in people /\ row.status = "pending"
    <3>1. p \in People
      BY CompaniesAssumption
    <3> QED
      BY <3>1 DEF NewInvitation, Invitation, InvitationStatus
  <2> QED
    BY <2>1
<1> HIDE DEF invitations
<1>4. f \in Surjection(1 .. N, people)
  BY <1>2, <1>3 DEF Surjection
<1>5. IsFiniteSet(1 .. N) /\ Cardinality(1 .. N) = N
  BY <1>1, FS_Interval
<1>6. f \in Injection(1 .. N, people)
  BY <1>1, <1>4, <1>5, FS_SurjSameCardinalityImpliesInj
<1>7. \A m, n \in 1 .. N : f[m] = f[n] => m = n
  BY <1>6 DEF Injection, IsInjective
<1>8. \A m, n \in 1 .. N : s[m].person = s[n].person => m = n
  BY <1>7
<1> HIDE DEF N
<1>9. s \in [1 .. N -> Invitation]
  BY <1>2, <1>3
<1>10. s \in Seq(Invitation) /\ Len(s) = N /\ DOMAIN s = 1 .. N
  BY <1>1, <1>9
<1> QED
  BY <1>1, <1>2, <1>3, <1>8, <1>10 DEF N

LEMMA BatchKeeps ==
  ASSUME CompaniesInv, NEW k \in CompanyIds, CommitBatch(k)
  PROVE  CompaniesInv'
<1> DEFINE people == NewRows(k)
           n == Len(inv)
<1>1. CompaniesTypeOK /\ inv \in Seq(Invitation) /\ OneCompany /\ n \in Nat
  BY DEF CompaniesInv, CompaniesTypeOK
<1>2. PICK s \in InvitationsOf(k, people) : inv' = inv \o s
  BY DEF CommitBatch
<1>3. /\ company[k] = "active" /\ batch[k] = "validated" /\ n + Cardinality(people) <= MaxInvitations
      /\ entry' = [entry EXCEPT ![k] = @ \cup people] /\ batch' = [batch EXCEPT ![k] = "committed"]
      /\ UNCHANGED <<company, ms, registered, req, orphan>>
  BY DEF CommitBatch, Administered
<1>4. people \subseteq BatchRows /\ people \subseteq People /\ \A p \in people : OpenFor(k, p) = {}
  BY CompaniesAssumption DEF NewRows
<1> HIDE DEF people
<1>5. /\ s \in Seq(Invitation) /\ Len(s) = Cardinality(people) /\ Len(s) \in Nat
      /\ \A m \in DOMAIN s : s[m].company = k /\ s[m].batch /\ s[m].person \in people
                             /\ s[m].status = "pending"
      /\ \A l, m \in DOMAIN s : s[l].person = s[m].person => l = m
      /\ \A p \in people : \E m \in DOMAIN s : s[m].person = p
  BY <1>2, <1>4, InvitationsAre
<1>6. /\ inv' \in Seq(Invitation) /\ Len(inv') = n + Len(s) /\ DOMAIN inv = 1 .. n
      /\ DOMAIN inv' = 1 .. n + Len(s) /\ DOMAIN s = 1 .. Len(s)
      /\ \A j \in 1 .. n : inv'[j] = inv[j]
      /\ \A j \in 1 .. n + Len(s) : j > n => inv'[j] = s[j - n]
      /\ \A m \in 1 .. Len(s) : inv'[n + m] = s[m]
  BY <1>1, <1>2, <1>5
<1>7. \A j \in DOMAIN inv' \ DOMAIN inv : j - n \in DOMAIN s /\ inv'[j] = s[j - n]
  BY <1>1, <1>5, <1>6
<1>8. /\ entry' \in [CompanyIds -> SUBSET People]
      /\ \A j \in CompanyIds : entry'[j] = IF j = k THEN entry[k] \cup people ELSE entry[j]
      /\ batch' \in [CompanyIds -> {"none", "validated", "committed"}]
      /\ \A j \in CompanyIds : batch'[j] = IF j = k THEN "committed" ELSE batch[j]
  BY <1>1, <1>3, <1>4 DEF CompaniesTypeOK
<1>9. CompaniesTypeOK'
  BY <1>1, <1>3, <1>5, <1>6, <1>8 DEF CompaniesTypeOK
<1>10. Monotone
  BY <1>3, <1>5, <1>6 DEF Monotone, SameRow, Open
<1>11. OneOpen' /\ BatchInv'
  <2>1. ASSUME NEW i \in DOMAIN inv' \ DOMAIN inv, NEW j \in DOMAIN inv,
               inv'[j].status \in {"pending", "expired"}, inv'[i].company = inv[j].company,
               inv'[i].person = inv[j].person
        PROVE  FALSE
    <3>1. inv'[i].company = k /\ inv'[i].person \in people
      BY <1>5, <1>7
    <3>2. j \in OpenFor(k, inv[j].person)
      BY <1>10, <2>1, <3>1 DEF OpenFor, Monotone
    <3> QED
      BY <1>4, <2>1, <3>1, <3>2
  <2>2. ASSUME NEW i \in DOMAIN inv' \ DOMAIN inv, NEW j \in DOMAIN inv' \ DOMAIN inv,
               inv'[i].person = inv'[j].person
        PROVE  i = j
    <3>1. i - n = j - n /\ i \in Nat /\ j \in Nat
      BY <1>5, <1>6, <1>7, <2>2
    <3> QED
      BY <1>1, <3>1
  <2>3. \A i \in DOMAIN inv' \ DOMAIN inv : inv'[i].company = k
    BY <1>5, <1>7
  <2> QED
    BY <1>3, <1>8, <1>10, <2>1, <2>2, <2>3, RowsGrow
<1>12. PlacesUsed'
  <2>1. ASSUME NEW j \in CompanyIds, NEW q \in People, NEW i \in OpenFor(j, q) PROVE OpenFor(j, q)' # {}
    <3>1. i \in OpenFor(j, q)'
      BY <1>5, <1>6 DEF OpenFor, Open
    <3> QED
      BY <3>1
  <2>2. ASSUME NEW p \in people PROVE OpenFor(k, p)' # {}
    <3>1. PICK m \in DOMAIN s : s[m].person = p
      BY <1>5
    <3>2. n + m \in DOMAIN inv' /\ inv'[n + m] = s[m]
      BY <1>1, <1>5, <1>6, <3>1
    <3>3. n + m \in OpenFor(k, p)'
      BY <1>5, <3>1, <3>2 DEF OpenFor, Open
    <3> QED
      BY <3>3
  <2> QED
    BY <1>3, <1>8, <1>10, <2>1, <2>2, PlacesKeep
<1>13. Requests' /\ Exclusive'
  <2>1. ASSUME NEW d \in Clients, req[d].op = "accept" PROVE inv'[req[d].of].status = "pending"
    BY <1>6, <2>1 DEF CompaniesInv, Requests, RequestInv
  <2> QED
    BY <1>3, <1>10, <2>1, RequestsKeep
<1> QED
  BY <1>1, <1>3, <1>9, <1>11, <1>12, <1>13, SameMembers DEF CompaniesInv

-----------------------------------------------------------------------------
(* Companies and members *)

LEMMA TransferKeeps ==
  ASSUME CompaniesInv, NEW c \in Clients, CommitTransfer(c)
  PROVE  CompaniesInv'
<1> DEFINE r == req[c]
           p == r.person
           place == [status |-> "active", admin |-> r.admin]
           revoked == [i \in DOMAIN inv |-> IF Ends(i, r) THEN [inv[i] EXCEPT !.status = "revoked"] ELSE inv[i]]
<1>1. r \in Request /\ r.op = "transfer" /\ CompaniesTypeOK /\ OneCompany /\ inv \in Seq(Invitation)
  BY DEF CommitTransfer, CompaniesInv, CompaniesTypeOK
<1>2. p \in People /\ r.from \in CompanyIds \cup {NoCompany} /\ r.to \in CompanyIds /\ r.admin \in BOOLEAN
  BY <1>1 DEF Request, Idle
<1>3. /\ ms' = [Left(r) EXCEPT ![r.to][p] = place] /\ inv' = revoked /\ Finish(c)
      /\ orphan' = orphan \cup {<<inv[i].company, p>> : i \in {j \in DOMAIN inv : Ends(j, r)}}
      /\ \A i \in DOMAIN inv : Ends(i, r) => ~Locked(i)
      /\ CompanyOf(p) \subseteq {r.from, r.to}
      /\ UNCHANGED <<company, registered, entry, batch>>
  BY DEF CommitTransfer, TransferConflict
<1>4. place \in Membership /\ place.status = "active"
  BY <1>2 DEF Membership
<1>5. /\ Left(r) \in [CompanyIds -> [People -> Membership]]
      /\ \A k \in CompanyIds, q \in People :
           /\ Left(r)[k][q].status # "active" => ms[k][q].status # "active" \/ (k = r.from /\ q = p)
           /\ Left(r)[k][q].status = "active" => ms[k][q].status = "active" /\ ~(k = r.from /\ q = p)
           /\ ms[k][q].status # "none" => Left(r)[k][q].status # "none"
  <2>1. CASE r.from = NoCompany
    BY <1>1, <2>1, CompaniesAssumption DEF Left, CompaniesTypeOK
  <2>2. CASE r.from # NoCompany
    <3> DEFINE gone == [ms[r.from][p] EXCEPT !.status = "disabled"]
    <3>1. r.from \in CompanyIds /\ ms \in [CompanyIds -> [People -> Membership]]
      BY <1>1, <1>2, <2>2 DEF CompaniesTypeOK
    <3>2. gone \in Membership /\ gone.status = "disabled"
      BY <1>2, <3>1 DEF Membership
    <3>3. Left(r) = [ms EXCEPT ![r.from][p] = gone]
      BY <2>2 DEF Left
    <3> HIDE DEF gone
    <3>4. /\ Left(r) \in [CompanyIds -> [People -> Membership]]
          /\ \A k \in CompanyIds, q \in People :
               Left(r)[k][q] = IF k = r.from /\ q = p THEN gone ELSE ms[k][q]
      BY <1>2, <3>1, <3>2, <3>3
    <3> QED
      BY <3>2, <3>4
  <2> QED
    BY <2>1, <2>2
<1> HIDE DEF place
<1>6. /\ ms' \in [CompanyIds -> [People -> Membership]]
      /\ \A k \in CompanyIds, q \in People :
           ms'[k][q] = IF k = r.to /\ q = p THEN place ELSE Left(r)[k][q]
  BY <1>2, <1>3, <1>4, <1>5
<1>7. OneCompany'
  <2>1. ASSUME NEW q \in People, NEW j \in CompanyIds, NEW k \in CompanyIds,
               ms'[j][q].status = "active", ms'[k][q].status = "active"
        PROVE  j = k
    <3>1. CASE q = p
      BY <1>2, <1>3, <1>5, <1>6, <2>1, <3>1 DEF CompanyOf, Active
    <3>2. CASE q # p
      BY <1>1, <1>5, <1>6, <2>1, <3>2 DEF OneCompany, CompanyOf, Active
    <3> QED
      BY <3>1, <3>2
  <2> QED
    BY <2>1 DEF OneCompany, CompanyOf, Active
<1>8. \A k \in CompanyIds, q \in People : ms[k][q].status # "none" => ms'[k][q].status # "none"
  BY <1>4, <1>5, <1>6
<1>9. /\ inv' \in Seq(Invitation) /\ Len(inv') = Len(inv) /\ DOMAIN inv' = DOMAIN inv
      /\ \A i \in DOMAIN inv : SameRow(inv'[i], inv[i])
      /\ \A i \in DOMAIN inv : inv'[i] = inv[i] \/ (Ends(i, r) /\ inv'[i].status = "revoked")
  <2>1. DOMAIN inv = 1 .. Len(inv) /\ Len(inv) \in Nat
    BY <1>1
  <2>2. ASSUME NEW i \in DOMAIN inv
        PROVE  /\ revoked[i] \in Invitation /\ SameRow(revoked[i], inv[i])
               /\ revoked[i] = inv[i] \/ (Ends(i, r) /\ revoked[i].status = "revoked")
    <3>1. inv[i] \in Invitation
      BY <1>1
    <3> QED
      BY <3>1, StatusTyped DEF InvitationStatus, SameRow
  <2>3. revoked \in [1 .. Len(inv) -> Invitation]
    BY <2>1, <2>2
  <2> HIDE DEF revoked
  <2> QED
    BY <1>3, <2>1, <2>2, <2>3
<1> HIDE DEF revoked
<1>10. orphan' \subseteq CompanyIds \X People /\ orphan \subseteq orphan'
  <2>1. \A i \in DOMAIN inv : inv[i].company \in CompanyIds
    BY <1>1, RowTyped
  <2> QED
    BY <1>1, <1>2, <1>3, <2>1 DEF CompaniesTypeOK
<1>11. CompaniesTypeOK'
  BY <1>1, <1>3, <1>6, <1>9, <1>10, FinishTyped DEF CompaniesTypeOK
<1>12. Monotone
  BY <1>3, <1>8, <1>9 DEF Monotone, Open
<1>13. OneOpen' /\ BatchInv'
  BY <1>3, <1>9, <1>12, RowsStay
<1>14. PlacesUsed'
  <2>1. ASSUME NEW k \in CompanyIds, NEW q \in People, NEW i \in OpenFor(k, q)
        PROVE  OpenFor(k, q)' # {} \/ <<k, q>> \in orphan'
    <3>1. i \in DOMAIN inv /\ Open(i) /\ inv[i].company = k /\ inv[i].person = q
      BY DEF OpenFor
    <3>2. CASE inv'[i] = inv[i]
      <4>1. i \in OpenFor(k, q)'
        BY <1>9, <3>1, <3>2 DEF OpenFor, Open
      <4> QED
        BY <4>1
    <3>3. CASE Ends(i, r)
      BY <1>3, <3>1, <3>3 DEF Ends
    <3> QED
      BY <1>9, <3>1, <3>2, <3>3
  <2> QED
    BY <1>1, <1>3, <1>10, <1>12, <2>1, PlacesKeep DEF CompaniesTypeOK
<1>15. Requests' /\ Exclusive'
  <2>1. ASSUME NEW d \in Clients, req[d].op = "accept" PROVE inv'[req[d].of].status = "pending"
    <3>1. req[d].of \in DOMAIN inv /\ inv[req[d].of].status = "pending" /\ Holds(req[d], req[d].of)
      BY <2>1 DEF CompaniesInv, Requests, RequestInv, Holds
    <3>2. ~Ends(req[d].of, r)
      BY <1>3, <3>1, LockedIs
    <3> QED
      BY <1>9, <3>1, <3>2
  <2> QED
    BY <1>1, <1>3, <1>12, <2>1, FinishTyped, RequestsKeep
<1> QED
  BY <1>7, <1>11, <1>13, <1>14, <1>15 DEF CompaniesInv

(* What leaves invitations, directory and requests alone.                  *)
LEMMA MembersKeep ==
  ASSUME CompaniesInv, UNCHANGED <<inv, entry, req, orphan>>,
         company' \in [CompanyIds -> {"absent", "active", "disabled"}],
         \A k \in CompanyIds : company[k] # "absent" => company'[k] # "absent",
         ms' \in [CompanyIds -> [People -> Membership]], OneCompany',
         \A k \in CompanyIds, p \in People : ms[k][p].status # "none" => ms'[k][p].status # "none",
         registered' \subseteq People,
         batch' \in [CompanyIds -> {"none", "validated", "committed"}],
         \A k \in CompanyIds : batch[k] = "committed" => batch'[k] = "committed"
  PROVE  CompaniesInv'
<1>1. CompaniesTypeOK'
  BY DEF CompaniesInv, CompaniesTypeOK
<1>2. Monotone
  BY DEF Monotone, SameRow, Open
<1>3. OneOpen' /\ BatchInv'
  BY <1>2, RowsGrow
<1>4. PlacesUsed'
  <2>1. \A k, p : OpenFor(k, p)' = OpenFor(k, p)
    BY DEF OpenFor, Open
  <2> QED
    BY <1>2, <2>1, PlacesKeep DEF CompaniesInv, CompaniesTypeOK
<1>5. Requests' /\ Exclusive'
  BY <1>2, RequestsKeep DEF CompaniesInv, Requests, RequestInv
<1> QED
  BY <1>1, <1>3, <1>4, <1>5 DEF CompaniesInv

LEMMA MemberActionsKeep ==
  ASSUME CompaniesInv
  PROVE  /\ \A k \in CompanyIds : Validate(k) => CompaniesInv'
         /\ \A p \in People : Register(p) => CompaniesInv'
         /\ \A k \in CompanyIds, p \in People : CreateCompany(k, p) => CompaniesInv'
         /\ \A k \in CompanyIds, status \in {"active", "disabled"} :
              UpdateTenant(k, status) => CompaniesInv'
         /\ \A k \in CompanyIds, p \in People, admin \in BOOLEAN, status \in {"active", "disabled"} :
              UpdateMember(k, p, admin, status) => CompaniesInv'
<1>1. /\ CompaniesTypeOK /\ OneCompany /\ registered \subseteq People
      /\ company \in [CompanyIds -> {"absent", "active", "disabled"}]
      /\ ms \in [CompanyIds -> [People -> Membership]]
      /\ batch \in [CompanyIds -> {"none", "validated", "committed"}]
  BY DEF CompaniesInv, CompaniesTypeOK
<1>2. ASSUME NEW k \in CompanyIds, Validate(k) PROVE CompaniesInv'
  <2>1. /\ batch' \in [CompanyIds -> {"none", "validated", "committed"}]
        /\ \A j \in CompanyIds : batch[j] = "committed" => batch'[j] = "committed"
        /\ UNCHANGED <<company, ms, registered, inv, entry, req, orphan>>
    BY <1>1, <1>2 DEF Validate
  <2> QED
    BY <1>1, <2>1, MembersKeep, SameMembers
<1>3. ASSUME NEW p \in People, Register(p) PROVE CompaniesInv'
  BY <1>1, <1>3, MembersKeep, SameMembers DEF Register
<1>4. ASSUME NEW k \in CompanyIds, NEW p \in People, CreateCompany(k, p) PROVE CompaniesInv'
  <2>1. /\ company' \in [CompanyIds -> {"absent", "active", "disabled"}]
        /\ \A j \in CompanyIds : company[j] # "absent" => company'[j] # "absent"
    BY <1>1, <1>4 DEF CreateCompany
  <2>2. /\ UNCHANGED <<registered, inv, entry, batch, req, orphan>> /\ CompanyOf(p) = {}
        /\ ms' = Join(k, p, TRUE)
    BY <1>4 DEF CreateCompany
  <2>3. /\ ms' \in [CompanyIds -> [People -> Membership]] /\ OneCompany'
        /\ \A j \in CompanyIds, q \in People : ms[j][q].status # "none" => ms'[j][q].status # "none"
    BY <1>1, <2>2, JoinKeeps
  <2> QED
    BY <1>1, <2>1, <2>2, <2>3, MembersKeep
<1>5. ASSUME NEW k \in CompanyIds, NEW status \in {"active", "disabled"}, UpdateTenant(k, status)
      PROVE  CompaniesInv'
  <2>1. /\ company' \in [CompanyIds -> {"absent", "active", "disabled"}]
        /\ \A j \in CompanyIds : company[j] # "absent" => company'[j] # "absent"
        /\ UNCHANGED <<ms, registered, inv, entry, batch, req, orphan>>
    BY <1>1, <1>5 DEF UpdateTenant
  <2> QED
    BY <1>1, <2>1, MembersKeep, SameMembers
<1>6. ASSUME NEW k \in CompanyIds, NEW p \in People, NEW admin \in BOOLEAN,
             NEW status \in {"active", "disabled"}, UpdateMember(k, p, admin, status)
      PROVE  CompaniesInv'
  <2> DEFINE place == [status |-> status, admin |-> admin]
  <2>1. place \in Membership /\ place.status = status
    BY DEF Membership
  <2>2. /\ ms' = [ms EXCEPT ![k][p] = place] /\ (status = "active" => CompanyOf(p) \subseteq {k})
        /\ UNCHANGED <<company, registered, inv, entry, batch, req, orphan>>
    BY <1>6 DEF UpdateMember
  <2> HIDE DEF place
  <2>3. /\ ms' \in [CompanyIds -> [People -> Membership]]
        /\ \A j \in CompanyIds, q \in People : ms'[j][q] = IF j = k /\ q = p THEN place ELSE ms[j][q]
    BY <1>1, <2>1, <2>2
  <2>4. OneCompany'
    BY <1>1, <2>1, <2>2, <2>3 DEF OneCompany, CompanyOf, Active
  <2>5. \A j \in CompanyIds, q \in People : ms[j][q].status # "none" => ms'[j][q].status # "none"
    BY <2>1, <2>3
  <2> QED
    BY <1>1, <2>2, <2>3, <2>4, <2>5, MembersKeep
<1> QED
  BY <1>2, <1>3, <1>4, <1>5, <1>6

-----------------------------------------------------------------------------
(* Requests that begin, and the write of a revocation or a deletion *)

LEMMA BeginsKeep ==
  ASSUME CompaniesInv, NEW c \in Clients
  PROVE  /\ \A k \in CompanyIds, p \in People, admin \in BOOLEAN : Invite(c, k, p, admin) => CompaniesInv'
         /\ \A i \in DOMAIN inv : Resend(c, i) \/ Revoke(c, i) \/ Delete(c, i) \/ Accept(c, i) => CompaniesInv'
         /\ \A k \in CompanyIds, p \in People, admin \in BOOLEAN :
              BeginTransfer(c, p, k, admin) => CompaniesInv'
<1>1. CompaniesTypeOK /\ Requests /\ Exclusive /\ OneOpen
  BY DEF CompaniesInv
<1>2. ASSUME NEW i \in DOMAIN inv
      PROVE  i \in 1 .. MaxInvitations /\ i \in 0 .. MaxInvitations /\ inv[i] \in Invitation
  BY <1>1, CompaniesAssumption DEF CompaniesTypeOK
<1>3. ASSUME NEW k \in CompanyIds, NEW p \in People, NEW admin \in BOOLEAN, Invite(c, k, p, admin)
      PROVE  CompaniesInv'
  <2> DEFINE found == OpenFor(k, p)
             of == IF found = {} THEN 0 ELSE CHOOSE i \in found : TRUE
             r == [op |-> "invite", company |-> k, person |-> p, admin |-> admin,
                   of |-> of, write |-> found # {}]
  <2>1. Begin(c, r) /\ company[k] # "absent"
    BY <1>3 DEF Invite, Administered
  <2>2. found # {} => of \in found
    OBVIOUS
  <2>3. \A i \in found : i \in DOMAIN inv /\ inv[i].company = k /\ inv[i].person = p
    BY DEF OpenFor
  <2>4. of \in 0 .. MaxInvitations
    BY <1>2, <2>2, <2>3, CompaniesAssumption
  <2> HIDE DEF found, of
  <2>5. r \in Request
    BY <2>4 DEF Request
  <2>6. RequestInv(r) /\ \A i : ~Holds(r, i)
    BY <2>1, <2>2, <2>3 DEF RequestInv, Holds, WrittenOps
  <2> QED
    BY <2>1, <2>5, <2>6, NewRequest DEF Begin
<1>4. ASSUME NEW i \in DOMAIN inv, Resend(c, i) PROVE CompaniesInv'
  <2> DEFINE r == [op |-> "resend", company |-> inv[i].company, person |-> inv[i].person,
                   admin |-> inv[i].admin, of |-> i, write |-> inv[i].status # "revoked"]
  <2>1. Begin(c, r)
    BY <1>4 DEF Resend
  <2>2. r \in Request
    BY <1>2 DEF Request, Invitation
  <2>3. RequestInv(r) /\ \A j : ~Holds(r, j)
    BY <1>1 DEF RequestInv, Holds, WrittenOps, OneOpen
  <2> QED
    BY <2>1, <2>2, <2>3, NewRequest DEF Begin
<1>5. ASSUME NEW i \in DOMAIN inv, NEW op \in {"revoke", "delete"}, Begin(c, [op |-> op, of |-> i])
      PROVE  CompaniesInv'
  <2> DEFINE r == [op |-> op, of |-> i]
  <2>1. r \in Request
    BY <1>2 DEF Request
  <2>2. RequestInv(r) /\ \A j : ~Holds(r, j)
    BY DEF RequestInv, Holds, WrittenOps
  <2> QED
    BY <1>5, <2>1, <2>2, NewRequest DEF Begin
<1>6. ASSUME NEW i \in DOMAIN inv, Accept(c, i) PROVE CompaniesInv'
  <2> DEFINE r == [op |-> "accept", of |-> i]
  <2>1. r \in Request
    BY <1>2 DEF Request
  <2>2. RequestInv(r)
    BY <1>6 DEF RequestInv, Accept, WrittenOps
  <2>3. Begin(c, r) /\ \A d \in Clients : ~Holds(req[d], i)
    BY <1>6, LockedIs DEF Accept
  <2> QED
    BY <2>1, <2>2, <2>3, NewRequest DEF Begin
<1>7. ASSUME NEW k \in CompanyIds, NEW p \in People, NEW admin \in BOOLEAN, BeginTransfer(c, p, k, admin)
      PROVE  CompaniesInv'
  <2> DEFINE from == IF CompanyOf(p) = {} THEN NoCompany ELSE CHOOSE j \in CompanyIds : Active(j, p)
             r == [op |-> "transfer", person |-> p, from |-> from, to |-> k, admin |-> admin]
  <2>1. Begin(c, r)
    BY <1>7 DEF BeginTransfer
  <2>2. from \in CompanyIds \cup {NoCompany}
    BY DEF CompanyOf
  <2> HIDE DEF from
  <2>3. r \in Request
    BY <2>2 DEF Request
  <2>4. RequestInv(r) /\ \A j : ~Holds(r, j)
    BY DEF RequestInv, Holds, WrittenOps
  <2> QED
    BY <2>1, <2>3, <2>4, NewRequest DEF Begin
<1> QED
  BY <1>3, <1>4, <1>5, <1>6, <1>7 DEF Revoke, Delete

LEMMA WriteKeeps ==
  ASSUME CompaniesInv, NEW c \in Clients, Write(c)
  PROVE  CompaniesInv'
<1> DEFINE i == req[c].of
           r == [op |-> Written(i, req[c].op), of |-> i, free |-> Unused(i)]
<1>1. CompaniesTypeOK /\ OneOpen /\ req[c] \in Request /\ RequestInv(req[c])
  BY DEF CompaniesInv, CompaniesTypeOK, Requests
<1>2. req[c].op \in {"revoke", "delete"} /\ ~Locked(i) /\ UNCHANGED data /\ req' = [req EXCEPT ![c] = r]
  BY DEF Write
<1>3. i \in DOMAIN inv /\ i \in 1 .. MaxInvitations
  BY <1>1, <1>2 DEF RequestInv, Request, Idle
<1>4. r.op \in WrittenOps /\ r.of = i /\ r.free = Unused(i) /\ r \in Request
  BY <1>3 DEF Written, WrittenOps, Request, Unused
<1>5. ~Unused(i) => ~Open(i) \/ ms[inv[i].company][inv[i].person].status # "none"
  <2>1. Open(i) => OpenFor(inv[i].company, inv[i].person) \subseteq {i}
    BY <1>1, <1>3 DEF OneOpen, OpenFor
  <2> QED
    BY <2>1 DEF Unused
<1> HIDE DEF r
<1>6. RequestInv(r)
  BY <1>3, <1>4, <1>5 DEF RequestInv, WrittenOps
<1>7. \A d \in Clients : ~Holds(req[d], r.of)
  BY <1>2, <1>4, LockedIs
<1> QED
  BY <1>2, <1>4, <1>6, <1>7, NewRequest

LEMMA CompaniesStep ==
  ASSUME CompaniesInv, [CompaniesNext]_companiesVars
  PROVE  CompaniesInv'
<1>1. CASE UNCHANGED companiesVars
  <2>1. UNCHANGED <<company, ms, registered, inv, entry, batch, req, orphan>>
    BY <1>1 DEF companiesVars
  <2> QED
    BY <2>1, MembersKeep, SameMembers DEF CompaniesInv, CompaniesTypeOK
<1>2. CASE InvitationStep
  <2>1. ASSUME NEW c \in Clients, RefuseRenew(c) \/ RowGone(c) \/ AcceptConflict(c) PROVE CompaniesInv'
    BY <2>1, Ended DEF RefuseRenew, RowGone, AcceptConflict
  <2> QED
    BY <1>2, <2>1, BeginsKeep, RenewKeeps, WriteKeeps, ReleaseKeeps, AcceptKeeps, ExpireKeeps
       DEF InvitationStep
<1>3. CASE MemberStep
  <2>1. ASSUME NEW c \in Clients, RefuseTransfer(c) PROVE CompaniesInv'
    BY <2>1, Ended DEF RefuseTransfer
  <2> QED
    BY <1>3, <2>1, BeginsKeep, TransferKeeps, BatchKeeps, TenantKeeps, MemberActionsKeep
       DEF MemberStep
<1> QED
  BY <1>1, <1>2, <1>3 DEF CompaniesNext

-----------------------------------------------------------------------------
(* Memberships made by links *)

JoinsStay == \A i \in DOMAIN inv : inv[i].status # "pending" => inv'[i].joins = inv[i].joins

LEMMA InvitationsStayDead ==
  ASSUME CompaniesInv, [CompaniesNext]_companiesVars
  PROVE  JoinsStay
<1>1. /\ CompaniesTypeOK /\ Requests /\ inv \in Seq(Invitation)
      /\ DOMAIN inv = 1 .. Len(inv) /\ Len(inv) \in Nat
  BY DEF CompaniesInv, CompaniesTypeOK
<1>2. ASSUME UNCHANGED inv PROVE JoinsStay
  BY <1>2 DEF JoinsStay
<1>3. ASSUME NEW i, NEW status, inv' = [inv EXCEPT ![i].status = status] PROVE JoinsStay
  <2>1. ASSUME NEW j \in DOMAIN inv PROVE inv'[j].joins = inv[j].joins
    BY <1>1, <1>3 DEF Invitation
  <2> QED
    BY <2>1 DEF JoinsStay
<1>4. ASSUME NEW c \in Clients, CommitRenew(c) PROVE JoinsStay
  <2> DEFINE r == req[c]
             kept == Renewed(r)
             row == NewInvitation(r.company, r.person, r.admin, FALSE)
  <2>1. inv' = Append(kept, row)
    BY <1>4 DEF CommitRenew
  <2>2. /\ kept \in [1 .. Len(inv) -> Invitation]
        /\ \A j \in DOMAIN inv : kept[j].joins = inv[j].joins
    <3>1. CASE r.write
      <4> DEFINE new == [inv[r.of] EXCEPT !.status = "revoked"]
      <4>0. r.of \in DOMAIN inv
        BY <1>1, <1>4, <3>1 DEF CommitRenew, Requests, RequestInv
      <4>1. r.of \in DOMAIN inv /\ inv[r.of] \in Invitation
        BY <1>1, <4>0
      <4>2. new \in Invitation /\ new.joins = inv[r.of].joins
        BY <1>1, <4>1, StatusTyped DEF InvitationStatus
      <4>3. kept = [inv EXCEPT ![r.of] = new]
        BY <3>1 DEF Renewed
      <4> HIDE DEF new, kept
      <4> QED
        BY <1>1, <4>1, <4>2, <4>3
    <3>2. CASE ~r.write
      BY <1>1, <3>2 DEF Renewed
    <3> QED
      BY <3>1, <3>2
  <2> HIDE DEF kept, row
  <2>3. kept \in Seq(Invitation) /\ Len(kept) = Len(inv)
    BY <1>1, <2>2
  <2>4. \A j \in 1 .. Len(inv) : inv'[j] = kept[j]
    BY <2>1, <2>3
  <2> QED
    BY <1>1, <2>2, <2>4 DEF JoinsStay
<1>5. ASSUME NEW c \in Clients, CommitAccept(c) PROVE JoinsStay
  <2>1. req[c].of \in DOMAIN inv /\ inv[req[c].of].status = "pending"
    BY <1>1, <1>5 DEF CommitAccept, Requests, RequestInv
  <2>2. \A j \in DOMAIN inv \ {req[c].of} : inv'[j] = inv[j]
    BY <1>1, <1>5 DEF CommitAccept
  <2> QED
    BY <2>1, <2>2 DEF JoinsStay
<1>6. ASSUME NEW k \in CompanyIds, NEW p \in People, CreateTenant(k, p) PROVE JoinsStay
  <2>1. \A j \in 1 .. Len(inv) : inv'[j] = inv[j]
    BY <1>1, <1>6 DEF CreateTenant
  <2> QED
    BY <1>1, <2>1 DEF JoinsStay
<1>7. ASSUME NEW k \in CompanyIds, CommitBatch(k) PROVE JoinsStay
  <2>1. PICK s \in InvitationsOf(k, NewRows(k)) : inv' = inv \o s
    BY <1>7 DEF CommitBatch
  <2>2. NewRows(k) \subseteq BatchRows
    BY DEF NewRows
  <2>3. s \in Seq(Invitation)
    BY <2>1, <2>2, InvitationsAre
  <2>4. \A j \in 1 .. Len(inv) : inv'[j] = inv[j]
    BY <1>1, <2>1, <2>3
  <2> QED
    BY <1>1, <2>4 DEF JoinsStay
<1>8. ASSUME NEW c \in Clients, CommitTransfer(c) PROVE JoinsStay
  <2>1. inv' = [i \in DOMAIN inv |->
                 IF Ends(i, req[c]) THEN [inv[i] EXCEPT !.status = "revoked"] ELSE inv[i]]
    BY <1>8 DEF CommitTransfer
  <2>2. ASSUME NEW j \in DOMAIN inv PROVE inv'[j].joins = inv[j].joins
    <3>1. inv[j] \in Invitation
      BY <1>1
    <3> QED
      BY <2>1, <3>1 DEF Invitation
  <2> QED
    BY <2>2 DEF JoinsStay
<1>9. CASE UNCHANGED companiesVars
  BY <1>2, <1>9 DEF companiesVars
<1>10. CASE InvitationStep
  <2>1. ASSUME NEW c \in Clients, RefuseRenew(c) \/ Write(c) \/ RowGone(c) \/ AcceptConflict(c)
        PROVE  UNCHANGED inv
    BY <2>1 DEF RefuseRenew, Write, RowGone, AcceptConflict, Fail, data
  <2>2. ASSUME NEW c \in Clients, NEW k \in CompanyIds, NEW p \in People, NEW admin \in BOOLEAN,
               Invite(c, k, p, admin)
        PROVE  UNCHANGED inv
    BY <2>2 DEF Invite, Begin, data
  <2>3. ASSUME NEW c \in Clients, NEW i \in DOMAIN inv,
               Resend(c, i) \/ Revoke(c, i) \/ Delete(c, i) \/ Accept(c, i)
        PROVE  UNCHANGED inv
    BY <2>3 DEF Resend, Revoke, Delete, Accept, Begin, data
  <2>4. ASSUME NEW c \in Clients, Release(c) PROVE JoinsStay
    <3>1. inv' = [inv EXCEPT ![req[c].of].status =
                   IF req[c].op = "revokeWritten" THEN "revoked" ELSE "deleted"]
      BY <2>4 DEF Release
    <3> QED
      BY <1>3, <3>1
  <2>5. ASSUME NEW i \in DOMAIN inv, Expire(i) PROVE JoinsStay
    BY <1>3, <2>5 DEF Expire
  <2> QED
    BY <1>2, <1>4, <1>5, <1>10, <2>1, <2>2, <2>3, <2>4, <2>5 DEF InvitationStep
<1>11. CASE MemberStep
  <2>1. ASSUME NEW k \in CompanyIds, Validate(k) PROVE UNCHANGED inv
    BY <2>1 DEF Validate
  <2>2. ASSUME NEW p \in People, Register(p) PROVE UNCHANGED inv
    BY <2>2 DEF Register
  <2>3. ASSUME NEW k \in CompanyIds, NEW p \in People, CreateCompany(k, p) PROVE UNCHANGED inv
    BY <2>3 DEF CreateCompany
  <2>4. ASSUME NEW k \in CompanyIds, NEW status, UpdateTenant(k, status) PROVE UNCHANGED inv
    BY <2>4 DEF UpdateTenant
  <2>5. ASSUME NEW k \in CompanyIds, NEW p \in People, NEW admin \in BOOLEAN, NEW status,
               UpdateMember(k, p, admin, status)
        PROVE  UNCHANGED inv
    BY <2>5 DEF UpdateMember
  <2>6. ASSUME NEW c \in Clients, NEW k \in CompanyIds, NEW p \in People, NEW admin \in BOOLEAN,
               BeginTransfer(c, p, k, admin)
        PROVE  UNCHANGED inv
    BY <2>6 DEF BeginTransfer, Begin, data
  <2>7. ASSUME NEW c \in Clients, RefuseTransfer(c) PROVE UNCHANGED inv
    BY <2>7 DEF RefuseTransfer, Fail, data
  <2> QED
    BY <1>2, <1>6, <1>7, <1>8, <1>11, <2>1, <2>2, <2>3, <2>4, <2>5, <2>6, <2>7 DEF MemberStep
<1> QED
  BY <1>9, <1>10, <1>11 DEF CompaniesNext

-----------------------------------------------------------------------------
(* Theorems *)

LEMMA CompaniesInvInit == CompaniesInit => CompaniesInv
<1> SUFFICES ASSUME CompaniesInit PROVE CompaniesInv
  OBVIOUS
<1>1. inv \in Seq(Invitation) /\ Len(inv) = 0 /\ DOMAIN inv = {}
  BY DEF CompaniesInit
<1>2. ms \in [CompanyIds -> [People -> Membership]]
  BY DEF CompaniesInit, Membership, NoMembership
<1>3. OneCompany
  BY DEF CompaniesInit, NoMembership, OneCompany, CompanyOf, Active
<1>4. req \in [Clients -> Request] /\ \A c \in Clients : req[c].op = "idle"
  BY DEF CompaniesInit, Request, Idle
<1>5. CompaniesTypeOK
  BY <1>1, <1>2, <1>4, CompaniesAssumption DEF CompaniesInit, CompaniesTypeOK
<1>6. OneOpen /\ PlacesUsed /\ BatchInv
  BY <1>1 DEF CompaniesInit, OneOpen, PlacesUsed, BatchInv, BatchOnce
<1>7. Requests /\ Exclusive
  BY <1>4 DEF Requests, RequestInv, Exclusive, Holds, WrittenOps
<1> QED
  BY <1>3, <1>5, <1>6, <1>7 DEF CompaniesInv

(* What invitations, acceptances, imports, transfers and administration    *)
(* keep, from which the other theorems follow.                             *)
THEOREM CompaniesInvariant == CompaniesSpec => []CompaniesInv
<1>1. CompaniesInv /\ [CompaniesNext]_companiesVars => CompaniesInv'
  BY CompaniesStep
<1> QED
  BY <1>1, CompaniesInvInit, PTL DEF CompaniesSpec

(* Rows and requests are of their types.                                   *)
THEOREM CompaniesTyped == CompaniesSpec => []CompaniesTypeOK
<1>1. CompaniesInv => CompaniesTypeOK
  BY DEF CompaniesInv
<1> QED
  BY <1>1, CompaniesInvariant, PTL

(* Nobody is an active member of two companies, although acceptances,      *)
(* transfers, foundations and reactivations check this at different times. *)
THEOREM NobodyInTwoCompanies == CompaniesSpec => []OneCompany
<1>1. CompaniesInv => OneCompany
  BY DEF CompaniesInv
<1> QED
  BY <1>1, CompaniesInvariant, PTL

(* Every place in a company's directory has a member, an open invitation,  *)
(* or a transfer that left it behind.                                      *)
THEOREM DirectoryInUse == CompaniesSpec => []PlacesUsed
<1>1. CompaniesInv => PlacesUsed
  BY DEF CompaniesInv
<1> QED
  BY <1>1, CompaniesInvariant, PTL

(* A batch of the import, of any size, invites nobody twice.               *)
THEOREM ImportedOnce == CompaniesSpec => []BatchOnce
<1>1. CompaniesInv => BatchOnce
  BY DEF CompaniesInv, BatchInv
<1> QED
  BY <1>1, CompaniesInvariant, PTL

(* A link that is no longer pending makes nobody a member.                 *)
THEOREM LinksStayDead == CompaniesSpec => DeadLinksStayDead
<1>1. CompaniesInv /\ [CompaniesNext]_companiesVars
      => [\A i \in DOMAIN inv :
            inv[i].status # "pending" => inv'[i].joins = inv[i].joins]_companiesVars
  BY InvitationsStayDead DEF JoinsStay
<1> QED
  BY <1>1, CompaniesInvariant, PTL DEF CompaniesSpec, DeadLinksStayDead
=============================================================================
