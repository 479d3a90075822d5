---------------------------- MODULE AccountsProofs ----------------------------
(***************************************************************************)
(* Proofs about Accounts for any people, addresses, requests and bounds.   *)
(*                                                                         *)
(* The invariant has four parts: the types of the sessions, the accounts,  *)
(* the links with the requests that use them, and the users whose sessions *)
(* were ended, who have none and no request about to open one.             *)
(***************************************************************************)
EXTENDS Accounts, TLAPS

(* Sessions are of users; NoUser, the user of a dead one, is none.         *)
SessionsInv ==
  /\ session \in [Slots -> Users \cup {Dead}]
  /\ cleared \subseteq Users

(* A verified address is one, and an account yet to come has none.         *)
AccountsInv ==
  /\ account \in [Users -> Account]
  /\ OneAddress
  /\ \A u \in Users :
       /\ account[u].verified => account[u].address \in Addresses
       /\ account[u].status = "absent" => ~account[u].verified /\ account[u].address = NoAddress

(* Links are for the users their kind is for.                              *)
LinkFor(l) ==
  /\ l.kind = "verify" => l.address \in Addresses /\ l.user \in Customers \cup {NoUser}
  /\ l.kind = "reset" => l.user \in Users
  /\ l.kind = "staff" => l.user \in Staff

(* A request has a link of its kind.  A link that has been used, or is     *)
(* used by two requests, is no verification if it may act again.           *)
LinkOps == {"verify", "reset", "staff"}
Uses(c, n) == req[c].op \in LinkOps /\ req[c].link = n
MayRepeat(n) == link[n].kind # "verify"
LinksInv ==
  /\ link \in Seq(Link) /\ Len(link) <= MaxLinks
  /\ req \in [Clients -> Request]
  /\ \A n \in DOMAIN link :
       /\ LinkFor(link[n])
       /\ link[n].uses > 0 => link[n].status = "used"
       /\ link[n].uses > 1 => MayRepeat(n)
  /\ \A c \in Clients :
       req[c].op \in LinkOps =>
         /\ req[c].link \in DOMAIN link
         /\ link[req[c].link].kind = req[c].op
         /\ link[req[c].link].uses > 0 => MayRepeat(req[c].link)
  /\ \A c, d \in Clients :
       req[c].op \in LinkOps /\ Uses(d, req[c].link) /\ c # d => MayRepeat(req[c].link)

(* A user whose sessions were ended has an account and no session, and no  *)
(* request is about to open one; a reset token is of an account there is.  *)
ClearedInv ==
  /\ \A n \in DOMAIN link : link[n].kind = "reset" => account[link[n].user].status # "absent"
  /\ \A u \in cleared :
       /\ account[u].status # "absent"
       /\ \A i \in Slots : session[i] # u
       /\ \A c \in Clients : ~Opening(c, u)

AInv == SessionsInv /\ AccountsInv /\ LinksInv /\ ClearedInv

-----------------------------------------------------------------------------
(* Sessions *)

LEMMA OpenTyped ==
  ASSUME SessionsInv, NEW u \in Users, Open(u)
  PROVE  session' \in [Slots -> Users \cup {Dead}]
BY DEF Open, SessionsInv

LEMMA EndAllTyped ==
  ASSUME SessionsInv, NEW u \in Users, EndAll(u), Ended(u)
  PROVE  SessionsInv'
<1>1. session' = [i \in Slots |-> IF session[i] = u THEN Dead ELSE session[i]]
  BY DEF EndAll
<1>2. session' \in [Slots -> Users \cup {Dead}]
  BY <1>1 DEF SessionsInv
<1>3. cleared' \subseteq Users
  BY DEF Ended, SessionsInv
<1> QED
  BY <1>2, <1>3 DEF SessionsInv

LEMMA SessionsStep ==
  ASSUME SessionsInv, LinksInv, [AccountsNext]_accountsVars
  PROVE  SessionsInv'
<1>1. CASE UNCHANGED session /\ cleared' \subseteq cleared
  BY <1>1 DEF SessionsInv
<1>2. ASSUME NEW c \in Clients, CommitLogin(c) PROVE SessionsInv'
  <2>1. req[c].user \in Users
    BY <1>2 DEF CommitLogin, LinksInv, Request, Idle
  <2> QED
    BY <1>2, <2>1, OpenTyped DEF CommitLogin, SessionsInv
<1>3. ASSUME NEW c \in Clients, CommitSwitch(c) PROVE SessionsInv'
  <2>1. req[c].user \in Users
    BY <1>3 DEF CommitSwitch, LinksInv, Request, Idle
  <2> QED
    BY <1>3, <2>1 DEF CommitSwitch, SessionsInv
<1>4. ASSUME NEW u \in Users, RevokeUserSessions(u) \/ DisableUser(u) PROVE SessionsInv'
  BY <1>4, EndAllTyped DEF RevokeUserSessions, DisableUser
<1>5. ASSUME NEW c \in Clients, CommitReset(c) PROVE SessionsInv'
  <2>1. link[req[c].link].user \in Users
    BY <1>5 DEF CommitReset, LinksInv, LinkOps, LinkFor
  <2> QED
    BY <1>5, <2>1, EndAllTyped DEF CommitReset
<1>6. ASSUME NEW c \in Clients, CommitStaff(c) PROVE SessionsInv'
  <2>1. link[req[c].link].user \in Users
    BY <1>6 DEF CommitStaff, LinksInv, LinkOps, LinkFor, Users
  <2> QED
    BY <1>6, <2>1, OpenTyped DEF CommitStaff, SessionsInv
<1>7. ASSUME NEW u \in Customers, Open(u), UNCHANGED cleared PROVE SessionsInv'
  BY <1>7, OpenTyped DEF SessionsInv, Users
<1>8. ASSUME NEW c \in Clients, CommitRegistration(c) PROVE SessionsInv'
  <2>1. UNCHANGED cleared /\ (UNCHANGED session \/ \E u \in Customers : Open(u))
    BY <1>8 DEF CommitRegistration
  <2> QED
    BY <1>1, <1>7, <2>1
<1>9. ASSUME NEW u \in Customers, Register(u) \/ \E a \in Addresses : AcceptInvitation(u, a)
      PROVE  SessionsInv'
  BY <1>7, <1>9 DEF Register, AcceptInvitation
<1>10. ASSUME NEW i \in Slots, EndSession(i) PROVE SessionsInv'
  BY <1>10 DEF EndSession, SessionsInv
<1>11. CASE SessionStep
  <2>1. ASSUME NEW c \in Clients, NEW u \in Users, Login(c, u) PROVE SessionsInv'
    BY <1>1, <2>1 DEF Login, Admitted, rows
  <2>2. ASSUME NEW c \in Clients, NEW i \in Slots, Switch(c, i) PROVE SessionsInv'
    BY <1>1, <2>2 DEF Switch, rows
  <2>3. ASSUME NEW u \in Users, EnableUser(u) PROVE SessionsInv'
    BY <1>1, <2>3 DEF EnableUser
  <2> QED
    BY <1>2, <1>3, <1>4, <1>10, <1>11, <2>1, <2>2, <2>3 DEF SessionStep
<1>12. CASE LinkStep
  <2>1. ASSUME NEW c \in Clients, NEW n \in DOMAIN link,
               TakeReset(c, n) \/ TakeStaff(c, n) \/ TakeVerification(c, n)
        PROVE  SessionsInv'
    BY <1>1, <2>1 DEF TakeReset, TakeStaff, TakeVerification, Take, Admitted, rows
  <2>2. ASSUME NEW c \in Clients, CommitBinding(c) \/ Fail(c) PROVE SessionsInv'
    BY <1>1, <2>2 DEF CommitBinding, Fail, rows
  <2>3. ASSUME NEW n \in DOMAIN link, ExpireLink(n) PROVE SessionsInv'
    BY <1>1, <2>3 DEF ExpireLink
  <2>4. ASSUME NEW u \in Users, ForgotPassword(u) \/ RequestVerification(u) PROVE SessionsInv'
    BY <1>1, <2>4 DEF ForgotPassword, RequestVerification, Issue
  <2>5. ASSUME NEW u \in Customers, NEW a \in Addresses, BindEmail(u, a) PROVE SessionsInv'
    BY <1>1, <2>5 DEF BindEmail, Issue
  <2>6. ASSUME NEW a \in Addresses, RegisterByEmail(a) PROVE SessionsInv'
    BY <1>1, <2>6 DEF RegisterByEmail, Issue
  <2>7. ASSUME NEW s \in Staff, InviteStaff(s) PROVE SessionsInv'
    BY <1>1, <2>7 DEF InviteStaff
  <2> QED
    BY <1>5, <1>6, <1>8, <1>9, <1>12, <2>1, <2>2, <2>3, <2>4, <2>5, <2>6, <2>7
       DEF LinkStep, Users
<1> QED
  BY <1>1, <1>11, <1>12 DEF AccountsNext, accountsVars

-----------------------------------------------------------------------------
(* Accounts *)

Stays == \A u \in Users : account[u].verified =>
           account'[u].verified /\ account'[u].address = account[u].address
Remain == \A u \in Users : account[u].status # "absent" => account'[u].status # "absent"

LEMMA StatusKeeps ==
  ASSUME AccountsInv, NEW u \in Users, NEW status \in {"active", "disabled"},
         account' = [account EXCEPT ![u].status = status]
  PROVE  AccountsInv' /\ Stays /\ Remain
<1>1. account'[u] = [account[u] EXCEPT !.status = status] /\ account[u] \in Account
  BY DEF AccountsInv
<1>2. account' \in [Users -> Account]
  BY <1>1 DEF AccountsInv, Account
<1>3. \A v \in Users : account'[v].address = account[v].address
                      /\ account'[v].verified = account[v].verified
  BY <1>1 DEF AccountsInv, Account
<1>4. \A v \in Users : account'[v].status = "absent" => account[v].status = "absent"
  BY <1>1 DEF AccountsInv, Account
<1>5. OneAddress'
  BY <1>3 DEF AccountsInv, OneAddress, Users
<1> QED
  BY <1>2, <1>3, <1>4, <1>5 DEF AccountsInv, Stays, Remain

(* An address goes to an account that has it or has none, and nobody else. *)
LEMMA VerifiedKeeps ==
  ASSUME AccountsInv, NEW u \in Customers, NEW a \in Addresses,
         account' = [account EXCEPT ![u] = Verified(u, a)],
         Holder(a) \cap Customers \subseteq {u},
         account[u].verified => account[u].address = a
  PROVE  AccountsInv' /\ Stays /\ Remain
<1>1. u \in Users /\ account[u] \in Account /\ a # NoAddress
  BY AccountsAssumption DEF Users, AccountsInv
<1>2. /\ Verified(u, a) \in Account /\ Verified(u, a).verified = TRUE
      /\ Verified(u, a).address = a /\ Verified(u, a).status # "absent"
  BY <1>1 DEF Verified, Account
<1>3. account' \in [Users -> Account] /\ account'[u] = Verified(u, a)
  BY <1>1, <1>2 DEF AccountsInv
<1>4. \A v \in Users \ {u} : account'[v] = account[v]
  BY DEF AccountsInv
<1>5. OneAddress'
  <2>1. \A v \in Customers \ {u} : account[v].address # a
    BY DEF Holder, Users
  <2> QED
    BY <1>2, <1>3, <1>4, <2>1 DEF AccountsInv, OneAddress, Users
<1> QED
  BY <1>1, <1>2, <1>3, <1>4, <1>5 DEF AccountsInv, Stays, Remain

LEMMA BindingKeeps ==
  ASSUME AccountsInv, LinksInv, NEW c \in Clients, CommitBinding(c)
  PROVE  AccountsInv' /\ Stays /\ Remain
<1> DEFINE n == req[c].link
           u == link[n].user
           a == link[n].address
<1>1. u \in Customers /\ a \in Addresses
  BY DEF CommitBinding, LinksInv, LinkOps, LinkFor
<1>2. account[u].verified => account[u].address = a
  BY <1>1, AccountsAssumption DEF CommitBinding, Matches, AccountsInv, Users
<1> QED
  BY <1>1, <1>2, VerifiedKeeps DEF CommitBinding

LEMMA RegistrationKeeps ==
  ASSUME AccountsInv, LinksInv, NEW c \in Clients, CommitRegistration(c)
  PROVE  AccountsInv' /\ Stays /\ Remain
<1> DEFINE a == link[req[c].link].address
<1>1. a \in Addresses
  BY DEF CommitRegistration, LinksInv, LinkOps, LinkFor
<1>2. ASSUME NEW u \in Holder(a) \cap Customers, account' = [account EXCEPT ![u] = Verified(u, a)]
      PROVE  AccountsInv' /\ Stays /\ Remain
  <2>1. account[u].address = a /\ Holder(a) \cap Customers \subseteq {u}
    BY <1>1, AccountsAssumption DEF Holder, AccountsInv, OneAddress
  <2> QED
    BY <1>1, <1>2, <2>1, VerifiedKeeps
<1>3. ASSUME NEW u \in Customers, account[u].status = "absent", Holder(a) = {},
             account' = [account EXCEPT ![u] = Verified(u, a)]
      PROVE  AccountsInv' /\ Stays /\ Remain
  BY <1>1, <1>3, VerifiedKeeps DEF AccountsInv, Users
<1> QED
  BY <1>2, <1>3 DEF CommitRegistration

LEMMA AcceptanceKeeps ==
  ASSUME AccountsInv, NEW u \in Customers, NEW a \in Addresses, AcceptInvitation(u, a)
  PROVE  AccountsInv' /\ Stays /\ Remain
<1>1. account[u].verified => account[u].address = a
  BY AccountsAssumption DEF AcceptInvitation, Matches, AccountsInv, Users
<1> QED
  BY <1>1, VerifiedKeeps DEF AcceptInvitation

LEMMA AccountsStep ==
  ASSUME AccountsInv, LinksInv, [AccountsNext]_accountsVars
  PROVE  AccountsInv' /\ Stays /\ Remain
<1>1. CASE UNCHANGED account
  BY <1>1 DEF AccountsInv, OneAddress, Stays, Remain
<1>2. CASE SessionStep
  <2>1. ASSUME NEW u \in Users, RevokeUserSessions(u) \/ DisableUser(u) \/ EnableUser(u)
        PROVE  AccountsInv' /\ Stays /\ Remain
    BY <1>1, <2>1, StatusKeeps DEF RevokeUserSessions, DisableUser, EnableUser
  <2>2. ASSUME NEW c \in Clients, NEW u \in Users, Login(c, u) PROVE UNCHANGED account
    BY <2>2 DEF Login, rows
  <2>3. ASSUME NEW c \in Clients, NEW i \in Slots, Switch(c, i) PROVE UNCHANGED account
    BY <2>3 DEF Switch, rows
  <2>4. ASSUME NEW c \in Clients, CommitLogin(c) \/ CommitSwitch(c) PROVE UNCHANGED account
    BY <2>4 DEF CommitLogin, CommitSwitch
  <2>5. ASSUME NEW i \in Slots, EndSession(i) PROVE UNCHANGED account
    BY <2>5 DEF EndSession
  <2> QED
    BY <1>1, <1>2, <2>1, <2>2, <2>3, <2>4, <2>5 DEF SessionStep
<1>3. CASE LinkStep
  <2>1. ASSUME NEW c \in Clients, NEW n \in DOMAIN link,
               TakeReset(c, n) \/ TakeStaff(c, n) \/ TakeVerification(c, n)
        PROVE  UNCHANGED account
    BY <2>1 DEF TakeReset, TakeStaff, TakeVerification, Take, rows
  <2>2. ASSUME NEW c \in Clients, CommitReset(c) \/ Fail(c) PROVE UNCHANGED account
    BY <2>2 DEF CommitReset, Fail, rows
  <2>3. ASSUME NEW c \in Clients, CommitStaff(c) PROVE AccountsInv' /\ Stays /\ Remain
    <3>1. link[req[c].link].user \in Users
      BY <2>3 DEF CommitStaff, LinksInv, LinkOps, LinkFor, Users
    <3> QED
      BY <2>3, <3>1, StatusKeeps DEF CommitStaff
  <2>4. ASSUME NEW u \in Customers, Register(u) PROVE AccountsInv' /\ Stays /\ Remain
    BY <2>4, StatusKeeps DEF Register, Users
  <2>5. ASSUME NEW n \in DOMAIN link, ExpireLink(n) PROVE UNCHANGED account
    BY <2>5 DEF ExpireLink
  <2>6. ASSUME NEW u \in Users, ForgotPassword(u) \/ RequestVerification(u)
        PROVE  UNCHANGED account
    BY <2>6 DEF ForgotPassword, RequestVerification, Issue
  <2>7. ASSUME NEW u \in Customers, NEW a \in Addresses, BindEmail(u, a) PROVE UNCHANGED account
    BY <2>7 DEF BindEmail, Issue
  <2>8. ASSUME NEW a \in Addresses, RegisterByEmail(a) PROVE UNCHANGED account
    BY <2>8 DEF RegisterByEmail, Issue
  <2>9. ASSUME NEW s \in Staff, InviteStaff(s) PROVE UNCHANGED account
    BY <2>9 DEF InviteStaff
  <2> QED
    BY <1>1, <1>3, <2>1, <2>2, <2>3, <2>4, <2>5, <2>6, <2>7, <2>8, <2>9,
       BindingKeeps, RegistrationKeeps, AcceptanceKeeps DEF LinkStep, Users
<1> QED
  BY <1>1, <1>2, <1>3 DEF AccountsNext, accountsVars
-----------------------------------------------------------------------------
(* Links *)

(* Links stay and keep their kind and user; a new reset link is for an     *)
(* account there is.                                                       *)
Grows ==
  /\ \A n \in DOMAIN link :
       n \in DOMAIN link' /\ link'[n].kind = link[n].kind /\ link'[n].user = link[n].user
  /\ \A n \in DOMAIN link' \ DOMAIN link :
       link'[n].kind = "reset" => account[link'[n].user].status # "absent"

LEMMA IdleKeeps ==
  ASSUME LinksInv, NEW c \in Clients, NEW r \in Request, r.op \notin LinkOps,
         req' = [req EXCEPT ![c] = r], UNCHANGED link
  PROVE  LinksInv'
<1>1. req' \in [Clients -> Request] /\ req'[c] = r
  BY DEF LinksInv
<1>2. \A d \in Clients : req'[d].op \in LinkOps => d # c /\ req'[d] = req[d]
  BY <1>1 DEF LinksInv
<1> QED
  BY <1>1, <1>2 DEF LinksInv, Uses, MayRepeat

LEMMA FinishKeeps ==
  ASSUME LinksInv, NEW c \in Clients, Finish(c), UNCHANGED link
  PROVE  LinksInv'
<1>1. Idle \in Request /\ Idle.op \notin LinkOps
  BY DEF Idle, Request, LinkOps
<1> QED
  BY <1>1, IdleKeeps DEF Finish

(* Links may become void and new ones may be added.                        *)
SameLink(k, l) ==
  /\ k.kind = l.kind /\ k.user = l.user /\ k.address = l.address
  /\ k.uses = l.uses
  /\ l.status = "used" => k.status = "used"

LEMMA VoidSame ==
  ASSUME NEW l \in Link
  PROVE  Void(l) \in Link /\ SameLink(Void(l), l)
BY DEF Void, Link, SameLink

LEMMA NewLinkTyped ==
  ASSUME NEW kind \in {"verify", "reset", "staff"}, NEW u \in Users \cup {NoUser},
         NEW a \in Addresses \cup {NoAddress}
  PROVE  /\ NewLink(kind, u, a) \in Link /\ NewLink(kind, u, a).uses = 0
         /\ NewLink(kind, u, a).kind = kind /\ NewLink(kind, u, a).user = u
         /\ NewLink(kind, u, a).address = a
BY DEF NewLink, Link

LEMMA MoreLinksKeep ==
  ASSUME LinksInv, UNCHANGED req, link' \in Seq(Link), Len(link') <= MaxLinks,
         \A n \in DOMAIN link : n \in DOMAIN link' /\ SameLink(link'[n], link[n]),
         \A n \in DOMAIN link' \ DOMAIN link : LinkFor(link'[n]) /\ link'[n].uses = 0
  PROVE  LinksInv'
<1>1. ASSUME NEW n \in DOMAIN link'
      PROVE  /\ LinkFor(link'[n])
             /\ link'[n].uses > 0 => link'[n].status = "used"
             /\ link'[n].uses > 1 => MayRepeat(n)'
  <2>1. CASE n \in DOMAIN link
    BY <2>1 DEF LinksInv, SameLink, LinkFor, MayRepeat
  <2>2. CASE n \notin DOMAIN link
    BY <1>1, <2>2
  <2> QED
    BY <2>1, <2>2
<1>2. \A n \in DOMAIN link : MayRepeat(n)' = MayRepeat(n) /\ link'[n].uses = link[n].uses
  BY DEF MayRepeat, SameLink
<1>3. ASSUME NEW c \in Clients, req'[c].op \in LinkOps
      PROVE  /\ req'[c].link \in DOMAIN link'
             /\ link'[req'[c].link].kind = req'[c].op
             /\ link'[req'[c].link].uses > 0 => MayRepeat(req[c].link)'
  BY <1>2, <1>3 DEF LinksInv, SameLink
<1>4. ASSUME NEW c \in Clients, NEW d \in Clients, req'[c].op \in LinkOps,
             Uses(d, req[c].link)', c # d
      PROVE  MayRepeat(req[c].link)'
  BY <1>2, <1>4 DEF LinksInv, Uses
<1> QED
  BY <1>1, <1>3, <1>4 DEF LinksInv

LEMMA UpdateLink ==
  ASSUME NEW S, NEW s \in Seq(S), NEW i, NEW v \in S
  PROVE  /\ [s EXCEPT ![i] = v] \in Seq(S)
         /\ Len([s EXCEPT ![i] = v]) = Len(s)
         /\ \A j \in DOMAIN s : [s EXCEPT ![i] = v][j] = IF j = i THEN v ELSE s[j]
<1>1. s \in [1 .. Len(s) -> S] /\ Len(s) \in Nat
  OBVIOUS
<1>2. [s EXCEPT ![i] = v] \in [1 .. Len(s) -> S]
  BY <1>1
<1> QED
  BY <1>1, <1>2

(* Some links become void and a new one is sent.                           *)
LEMMA SendKeeps ==
  ASSUME LinksInv, LinksLeft, UNCHANGED req, NEW S, NEW l \in Link,
         LinkFor(l), l.uses = 0, l.kind = "reset" => account[l.user].status # "absent",
         link' = Append([n \in DOMAIN link |-> IF n \in S THEN Void(link[n]) ELSE link[n]], l)
  PROVE  LinksInv' /\ Grows
<1> DEFINE kept == [n \in DOMAIN link |-> IF n \in S THEN Void(link[n]) ELSE link[n]]
<1>1. link \in Seq(Link) /\ Len(link) \in Nat /\ DOMAIN link = 1 .. Len(link)
  BY DEF LinksInv
<1>2. \A n \in DOMAIN link : kept[n] \in Link /\ SameLink(kept[n], link[n])
  BY <1>1, VoidSame DEF SameLink
<1>3. kept \in [1 .. Len(link) -> Link]
  BY <1>1, <1>2
<1>4. kept \in Seq(Link) /\ Len(kept) = Len(link)
  BY <1>1, <1>3
<1> HIDE DEF kept
<1>5. link' = Append(kept, l)
  BY DEF kept
<1>6. /\ link' \in Seq(Link) /\ Len(link') = Len(link) + 1
      /\ \A n \in 1 .. Len(link) : link'[n] = kept[n]
      /\ link'[Len(link) + 1] = l
      /\ DOMAIN link' = 1 .. Len(link) + 1
  BY <1>1, <1>4, <1>5
<1>7. Len(link') <= MaxLinks
  BY <1>1, <1>6, AccountsAssumption DEF LinksLeft
<1>8. \A n \in DOMAIN link' \ DOMAIN link : link'[n] = l
  BY <1>1, <1>6
<1>9. LinksInv'
  BY <1>1, <1>2, <1>6, <1>7, <1>8, MoreLinksKeep
<1>10. Grows
  BY <1>1, <1>2, <1>6, <1>8 DEF Grows, SameLink
<1> QED
  BY <1>9, <1>10

LEMMA ExpireKeeps ==
  ASSUME LinksInv, NEW n \in DOMAIN link, ExpireLink(n)
  PROVE  LinksInv' /\ Grows
<1>1. link[n] \in Link
  BY DEF LinksInv
<1>2. link' = [link EXCEPT ![n] = Void(link[n])] /\ UNCHANGED req
  BY DEF ExpireLink
<1>3. /\ link' \in Seq(Link) /\ Len(link') = Len(link)
      /\ \A j \in DOMAIN link : link'[j] = IF j = n THEN Void(link[n]) ELSE link[j]
  BY <1>1, <1>2, VoidSame, UpdateLink DEF LinksInv
<1>4. DOMAIN link' = DOMAIN link
  BY <1>3 DEF LinksInv
<1>5. \A j \in DOMAIN link : SameLink(link'[j], link[j])
  BY <1>1, <1>3, VoidSame DEF SameLink
<1>6. Grows
  BY <1>4, <1>5 DEF Grows, SameLink
<1> QED
  BY <1>2, <1>3, <1>4, <1>5, <1>6, MoreLinksKeep DEF LinksInv

(* A link is taken unused, and a verification by one request at a time.    *)
LEMMA TakeKeeps ==
  ASSUME LinksInv, NEW c \in Clients, NEW n \in DOMAIN link,
         TakeReset(c, n) \/ TakeStaff(c, n) \/ TakeVerification(c, n)
  PROVE  LinksInv' /\ UNCHANGED link
<1> PICK op \in LinkOps : Take(c, n, op) /\ (op = "verify" => ~Locked(n))
  BY DEF TakeReset, TakeStaff, TakeVerification, LinkOps
<1> DEFINE r == [op |-> op, link |-> n]
<1>1. /\ link[n] \in Link /\ link[n].kind = op /\ link[n].status = "open"
      /\ link[n].uses = 0
  <2>1. link[n] \in Link /\ link[n].kind = op /\ link[n].status = "open"
    BY DEF Take, LinksInv
  <2>2. ~(link[n].uses > 0)
    BY <2>1 DEF LinksInv
  <2>3. link[n].uses \in Nat
    BY <2>1 DEF Link
  <2> QED
    BY <2>1, <2>2, <2>3
<1>2. r \in Request
  <2>1. n \in 1 .. MaxLinks
    BY AccountsAssumption DEF LinksInv
  <2> QED
    BY <2>1 DEF Request, LinkOps
<1>3. req' = [req EXCEPT ![c] = r] /\ UNCHANGED link
  BY DEF Take, Begin, rows
<1>4. req' \in [Clients -> Request] /\ req'[c] = r
      /\ \A d \in Clients \ {c} : req'[d] = req[d]
  BY <1>2, <1>3 DEF LinksInv
<1>5. r.op = op /\ r.link = n
  OBVIOUS
<1> HIDE DEF r
<1>6. ASSUME NEW d \in Clients \ {c}, Uses(d, n)
      PROVE  MayRepeat(n)
  <2>1. Underway(n)
    BY <1>6 DEF Underway, Uses, LinkOps
  <2> QED
    BY <1>1, <2>1 DEF Locked, MayRepeat
<1>7. ASSUME NEW d \in Clients, req'[d].op \in LinkOps
      PROVE  /\ req'[d].link \in DOMAIN link
             /\ link[req'[d].link].kind = req'[d].op
             /\ link[req'[d].link].uses > 0 => MayRepeat(req'[d].link)
  <2>1. CASE d = c
    BY <1>1, <1>4, <1>5, <2>1
  <2>2. CASE d # c
    BY <1>4, <1>7, <2>2 DEF LinksInv
  <2> QED
    BY <2>1, <2>2
<1>8. ASSUME NEW d \in Clients, NEW e \in Clients, req'[d].op \in LinkOps,
             req'[e].op \in LinkOps, req'[e].link = req'[d].link, d # e
      PROVE  MayRepeat(req'[d].link)
  <2>1. CASE d = c
    BY <1>4, <1>5, <1>6, <1>8, <2>1 DEF Uses
  <2>2. CASE e = c
    BY <1>4, <1>5, <1>6, <1>8, <2>2 DEF Uses
  <2>3. CASE d # c /\ e # c
    BY <1>4, <1>8, <2>3 DEF LinksInv, Uses
  <2> QED
    BY <2>1, <2>2, <2>3
<1> QED
  BY <1>3, <1>4, <1>7, <1>8 DEF LinksInv, Uses, MayRepeat

LEMMA SpentLink ==
  ASSUME NEW k \in Link
  PROVE  LET l == [k EXCEPT !.status = "used", !.uses = @ + 1] IN
         /\ l \in Link /\ l.kind = k.kind /\ l.user = k.user
         /\ l.address = k.address
         /\ l.status = "used" /\ l.uses = k.uses + 1 /\ k.uses \in Nat
<1> DEFINE m == [k EXCEPT !.status = "used"]
           l == [m EXCEPT !.uses = @ + 1]
<1>1. /\ m \in Link /\ m.kind = k.kind /\ m.user = k.user /\ m.address = k.address
      /\ m.status = "used" /\ m.uses = k.uses /\ k.uses \in Nat
  BY DEF Link
<1> HIDE DEF m
<1>2. m.uses + 1 \in Nat
  BY <1>1
<1>3. /\ l \in Link /\ l.kind = m.kind /\ l.user = m.user /\ l.address = m.address
      /\ l.status = m.status /\ l.uses = m.uses + 1
  BY <1>1, <1>2 DEF Link
<1>4. l = [k EXCEPT !.status = "used", !.uses = @ + 1]
  BY <1>1 DEF m, Link
<1> HIDE DEF l
<1> QED
  BY <1>1, <1>3, <1>4

(* A link that acted may be left with another request that is acting with  *)
(* it only if it is no verification.                                       *)
LEMMA SpentKeeps ==
  ASSUME LinksInv, NEW c \in Clients, req[c].op \in LinkOps,
         link' = Spent(req[c].link), Finish(c)
  PROVE  LinksInv' /\ Grows
<1> DEFINE n == req[c].link
           l == [link[n] EXCEPT !.status = "used", !.uses = @ + 1]
<1>1. /\ n \in DOMAIN link /\ link[n] \in Link /\ LinkFor(link[n])
      /\ link[n].uses > 0 => MayRepeat(n)
  BY DEF LinksInv
<1>2. /\ l \in Link /\ l.kind = link[n].kind /\ l.user = link[n].user
      /\ l.address = link[n].address
      /\ l.status = "used" /\ l.uses = link[n].uses + 1 /\ link[n].uses \in Nat
  BY <1>1, SpentLink
<1>3. /\ link' \in Seq(Link) /\ Len(link') = Len(link)
      /\ \A j \in DOMAIN link : link'[j] = IF j = n THEN l ELSE link[j]
  <2>1. link' = [link EXCEPT ![n] = l]
    BY DEF Spent
  <2> QED
    BY <1>2, <2>1, UpdateLink DEF LinksInv
<1>4. DOMAIN link' = DOMAIN link
  BY <1>3 DEF LinksInv
<1>5. /\ req' \in [Clients -> Request]
      /\ \A d \in Clients : req'[d].op \in LinkOps => d # c /\ req'[d] = req[d]
  BY DEF Finish, LinksInv, Idle, Request, LinkOps
<1> HIDE DEF l
<1>6. \A j \in DOMAIN link : MayRepeat(j) => MayRepeat(j)'
  BY <1>1, <1>2, <1>3 DEF MayRepeat
<1>7. ASSUME NEW j \in DOMAIN link'
      PROVE  /\ LinkFor(link'[j])
             /\ link'[j].uses > 0 => link'[j].status = "used"
             /\ link'[j].uses > 1 => MayRepeat(j)'
  <2>1. CASE j = n
    BY <1>1, <1>2, <1>3, <1>6, <2>1 DEF LinkFor
  <2>2. CASE j # n
    BY <1>3, <1>4, <1>6, <1>7, <2>2 DEF LinksInv
  <2> QED
    BY <2>1, <2>2
<1>8. ASSUME NEW d \in Clients, NEW j, Uses(d, j)'
      PROVE  /\ j \in DOMAIN link'
             /\ link'[j].kind = req'[d].op
             /\ link'[j].uses > 0 => MayRepeat(j)'
  <2>1. /\ d # c /\ req'[d] = req[d] /\ j \in DOMAIN link /\ Uses(d, j)
        /\ link[j].kind = req[d].op
        /\ link[j].uses > 0 => MayRepeat(j)
    BY <1>5, <1>8 DEF LinksInv, Uses
  <2>2. CASE j = n
    <3>1. MayRepeat(n)
      BY <2>1, <2>2 DEF LinksInv
    <3> QED
      BY <1>2, <1>3, <1>4, <1>6, <2>1, <2>2, <3>1
  <2>3. CASE j # n
    BY <1>3, <1>4, <1>6, <2>1, <2>3
  <2> QED
    BY <2>2, <2>3
<1>9. ASSUME NEW d \in Clients, NEW e \in Clients, NEW j, Uses(d, j)', Uses(e, j)', d # e
      PROVE  MayRepeat(j)'
  <2>1. req[d].op \in LinkOps /\ Uses(e, req[d].link) /\ req[d].link = j
    BY <1>5, <1>9 DEF Uses
  <2> QED
    BY <1>6, <1>9, <2>1 DEF LinksInv
<1>10. \A d \in Clients :
         req'[d].op \in LinkOps =>
           /\ req'[d].link \in DOMAIN link'
           /\ link'[req'[d].link].kind = req'[d].op
           /\ link'[req'[d].link].uses > 0 =>
                link'[req'[d].link].kind # "verify"
  BY <1>8 DEF Uses, MayRepeat
<1>11. \A d, e \in Clients :
         req'[d].op \in LinkOps /\ req'[e].op \in LinkOps /\ req'[e].link = req'[d].link
           /\ d # e =>
             link'[req'[d].link].kind # "verify"
  BY <1>9 DEF Uses, MayRepeat
<1>12. Grows
  BY <1>2, <1>3, <1>4 DEF Grows
<1> QED
  BY <1>3, <1>5, <1>7, <1>10, <1>11, <1>12 DEF LinksInv, Uses, MayRepeat

LEMMA IssueKeeps ==
  ASSUME LinksInv, NEW u \in Customers \cup {NoUser}, NEW a \in Addresses, Issue(u, a)
  PROVE  LinksInv' /\ Grows
<1> DEFINE S == {n \in DOMAIN link : link[n].kind = "verify" /\ link[n].user = u /\ u # NoUser}
           l == NewLink("verify", u, a)
<1>1. LinksLeft /\ UNCHANGED req
  BY DEF Issue
<1>2. link' = Append([n \in DOMAIN link |-> IF n \in S THEN Void(link[n]) ELSE link[n]], l)
  BY DEF Issue
<1>3. l \in Link /\ l.uses = 0 /\ LinkFor(l)
      /\ (l.kind = "reset" => account[l.user].status # "absent")
  BY NewLinkTyped DEF LinkFor, Users
<1> HIDE DEF S, l
<1> QED
  BY <1>1, <1>2, <1>3, SendKeeps

LEMMA ForgotKeeps ==
  ASSUME LinksInv, NEW u \in Users, ForgotPassword(u)
  PROVE  LinksInv' /\ Grows
<1> DEFINE S == {}
           l == NewLink("reset", u, NoAddress)
<1>1. LinksLeft /\ UNCHANGED req /\ link \in Seq(Link)
  BY DEF ForgotPassword, LinksInv
<1>2. link = [n \in DOMAIN link |-> link[n]]
  BY <1>1
<1>3. link' = Append([n \in DOMAIN link |-> IF n \in S THEN Void(link[n]) ELSE link[n]], l)
  BY <1>2 DEF ForgotPassword
<1>4. l \in Link /\ l.uses = 0 /\ LinkFor(l)
      /\ (l.kind = "reset" => account[l.user].status # "absent")
  BY NewLinkTyped DEF LinkFor, ForgotPassword
<1> HIDE DEF S, l
<1> QED
  BY <1>1, <1>3, <1>4, SendKeeps

LEMMA InviteKeeps ==
  ASSUME LinksInv, NEW s \in Staff, InviteStaff(s)
  PROVE  LinksInv' /\ Grows
<1> DEFINE S == {n \in DOMAIN link : link[n].kind = "staff" /\ link[n].user = s}
           l == NewLink("staff", s, NoAddress)
<1>1. LinksLeft /\ UNCHANGED req
  BY DEF InviteStaff
<1>2. link' = Append([n \in DOMAIN link |-> IF n \in S THEN Void(link[n]) ELSE link[n]], l)
  BY DEF InviteStaff
<1>3. l \in Link /\ l.uses = 0 /\ LinkFor(l)
      /\ (l.kind = "reset" => account[l.user].status # "absent")
  BY NewLinkTyped DEF LinkFor, Users
<1> HIDE DEF S, l
<1> QED
  BY <1>1, <1>2, <1>3, SendKeeps

LEMMA LinksStep ==
  ASSUME SessionsInv, AccountsInv, LinksInv, [AccountsNext]_accountsVars
  PROVE  LinksInv' /\ Grows
<1>0. UNCHANGED link => Grows
  BY DEF Grows
<1>1. CASE UNCHANGED <<link, req>>
  BY <1>0, <1>1 DEF LinksInv, Uses, MayRepeat
<1>2. CASE SessionStep
  <2>1. ASSUME NEW c \in Clients, NEW u \in Users, Login(c, u) PROVE LinksInv' /\ Grows
    <3> DEFINE r == [op |-> "login", user |-> u]
    <3>1. r \in Request /\ r.op \notin LinkOps
      BY DEF Request, LinkOps
    <3>2. req' = [req EXCEPT ![c] = r] /\ UNCHANGED link
      BY <2>1 DEF Login, Begin, rows
    <3> QED
      BY <1>0, <3>1, <3>2, IdleKeeps
  <2>2. ASSUME NEW c \in Clients, NEW i \in Slots, Switch(c, i) PROVE LinksInv' /\ Grows
    <3> DEFINE u == session[i]
               r == [op |-> "switch", slot |-> i, user |-> u]
    <3>1. u \in Users
      BY <2>2 DEF Switch, Users
    <3>2. r \in Request /\ r.op \notin LinkOps
      BY <3>1 DEF Request, LinkOps
    <3>3. req' = [req EXCEPT ![c] = r] /\ UNCHANGED link
      BY <2>2 DEF Switch, Begin, rows
    <3> QED
      BY <1>0, <3>2, <3>3, IdleKeeps
  <2>3. ASSUME NEW c \in Clients, CommitLogin(c) \/ CommitSwitch(c) PROVE LinksInv' /\ Grows
    BY <1>0, <2>3, FinishKeeps DEF CommitLogin, CommitSwitch
  <2>4. ASSUME NEW i \in Slots, EndSession(i) PROVE LinksInv' /\ Grows
    BY <1>1, <2>4 DEF EndSession
  <2>5. ASSUME NEW u \in Users, RevokeUserSessions(u) \/ DisableUser(u) \/ EnableUser(u)
        PROVE  LinksInv' /\ Grows
    BY <1>1, <2>5 DEF RevokeUserSessions, DisableUser, EnableUser
  <2> QED
    BY <1>2, <2>1, <2>2, <2>3, <2>4, <2>5 DEF SessionStep
<1>3. CASE LinkStep
  <2>1. ASSUME NEW c \in Clients,
               CommitReset(c) \/ CommitStaff(c) \/ CommitBinding(c) \/ CommitRegistration(c)
        PROVE  LinksInv' /\ Grows
    BY <2>1, SpentKeeps
       DEF CommitReset, CommitStaff, CommitBinding, CommitRegistration, LinkOps
  <2>2. ASSUME NEW c \in Clients, Fail(c) PROVE LinksInv' /\ Grows
    BY <1>0, <2>2, FinishKeeps DEF Fail, rows
  <2>3. ASSUME NEW u \in Customers, Register(u) PROVE LinksInv' /\ Grows
    BY <1>1, <2>3 DEF Register
  <2>4. ASSUME NEW u \in Customers, NEW a \in Addresses, AcceptInvitation(u, a) PROVE LinksInv' /\ Grows
    BY <1>1, <2>4 DEF AcceptInvitation
  <2>5. ASSUME NEW u \in Customers, NEW a \in Addresses, BindEmail(u, a) PROVE LinksInv' /\ Grows
    BY <2>5, IssueKeeps DEF BindEmail
  <2>6. ASSUME NEW u \in Customers, RequestVerification(u) PROVE LinksInv' /\ Grows
    <3>1. account[u].address \in Addresses
      BY <2>6 DEF RequestVerification, AccountsInv, Account, Users
    <3> QED
      BY <2>6, <3>1, IssueKeeps DEF RequestVerification
  <2>7. ASSUME NEW a \in Addresses, RegisterByEmail(a) PROVE LinksInv' /\ Grows
    BY <2>7, IssueKeeps DEF RegisterByEmail
  <2> QED
    BY <1>0, <1>3, <2>1, <2>2, <2>3, <2>4, <2>5, <2>6, <2>7, TakeKeeps, ExpireKeeps,
       ForgotKeeps, InviteKeeps DEF LinkStep
<1> QED
  BY <1>1, <1>2, <1>3 DEF AccountsNext, accountsVars

-----------------------------------------------------------------------------
(* Users whose sessions were ended *)

(* Steps that open no session of such a user and begin no request to.      *)
LEMMA ClearedFrame ==
  ASSUME SessionsInv, LinksInv, ClearedInv, Grows, Remain, LinksInv',
         cleared' \subseteq cleared,
         \A i \in Slots : session'[i] \in cleared' => session'[i] = session[i],
         \A c \in Clients : req'[c] = req[c] \/ \A u \in cleared' : ~Opening(c, u)'
  PROVE  ClearedInv'
<1>1. ASSUME NEW n \in DOMAIN link', link'[n].kind = "reset"
      PROVE  account'[link'[n].user].status # "absent"
  <2>1. link'[n].user \in Users
    BY <1>1 DEF LinksInv, LinkFor
  <2> QED
    BY <1>1, <2>1 DEF ClearedInv, Grows, Remain
<1>2. ASSUME NEW u \in cleared', NEW c \in Clients, req'[c] = req[c]
      PROVE  ~Opening(c, u)'
  <2>1. ~Opening(c, u)
    BY <1>2 DEF ClearedInv
  <2>2. req[c].op = "staff" => link'[req[c].link].user = link[req[c].link].user
    BY <1>2 DEF LinksInv, LinkOps, Grows
  <2> QED
    BY <1>2, <2>1, <2>2 DEF Opening
<1>3. ASSUME NEW u \in cleared'
      PROVE  /\ account'[u].status # "absent"
             /\ \A i \in Slots : session'[i] # u
             /\ \A c \in Clients : ~Opening(c, u)'
  <2>1. account'[u].status # "absent" /\ \A i \in Slots : session'[i] # u
    BY <1>3 DEF ClearedInv, SessionsInv, Remain
  <2> QED
    BY <1>2, <1>3, <2>1
<1> QED
  BY <1>1, <1>3 DEF ClearedInv

(* The end of all sessions of u.                                           *)
LEMMA EndedKeeps ==
  ASSUME SessionsInv, LinksInv, ClearedInv, Grows, Remain, LinksInv',
         NEW u \in Users, account[u].status # "absent", EndAll(u), Ended(u),
         \A c \in Clients : req'[c] \in {req[c], Idle}
  PROVE  ClearedInv'
<1>1. \A i \in Slots : session'[i] \in {session[i], Dead} /\ session'[i] # u
  BY AccountsAssumption DEF EndAll, Dead, SessionsInv
<1>2. ASSUME NEW n \in DOMAIN link', link'[n].kind = "reset"
      PROVE  account'[link'[n].user].status # "absent"
  <2>1. link'[n].user \in Users
    BY <1>2 DEF LinksInv, LinkFor
  <2> QED
    BY <1>2, <2>1 DEF ClearedInv, Grows, Remain
<1>3. ASSUME NEW v \in cleared', NEW c \in Clients
      PROVE  ~Opening(c, v)'
  <2>1. ~Opening(c, v)
    BY DEF Ended, ClearedInv
  <2>2. req[c].op = "staff" => link'[req[c].link].user = link[req[c].link].user
    BY DEF LinksInv, LinkOps, Grows
  <2>3. CASE req'[c] = req[c]
    BY <2>1, <2>2, <2>3 DEF Opening
  <2>4. CASE req'[c] = Idle
    BY <2>4 DEF Opening, Idle
  <2> QED
    BY <2>3, <2>4
<1>4. ASSUME NEW v \in cleared'
      PROVE  account'[v].status # "absent" /\ \A i \in Slots : session'[i] # v
  <2>1. v \in Users /\ (v \in cleared \/ v = u)
    BY DEF Ended, SessionsInv
  <2>2. account'[v].status # "absent"
    BY <2>1 DEF ClearedInv, Remain
  <2> QED
    BY <1>1, <2>1, <2>2, AccountsAssumption DEF ClearedInv, Dead
<1> QED
  BY <1>2, <1>3, <1>4 DEF ClearedInv

(* A session of u is opened, as a request of u or with u not cleared.      *)
LEMMA OpenKeeps ==
  ASSUME SessionsInv, LinksInv, ClearedInv, Grows, Remain, LinksInv', NEW u, u \notin cleared,
         Open(u), UNCHANGED cleared, \A c \in Clients : req'[c] \in {req[c], Idle}
  PROVE  ClearedInv'
<1>1. \A i \in Slots : session'[i] \in cleared' => session'[i] = session[i]
  BY DEF Open, SessionsInv
<1>2. \A c \in Clients : req'[c] = req[c] \/ \A v \in cleared' : ~Opening(c, v)'
  BY DEF Opening, Idle
<1> QED
  BY <1>1, <1>2, ClearedFrame

LEMMA ClearedStep ==
  ASSUME SessionsInv, AccountsInv, LinksInv, ClearedInv, [AccountsNext]_accountsVars
  PROVE  ClearedInv'
<1>1. Grows /\ Remain /\ LinksInv'
  BY LinksStep, AccountsStep
<1>2. ASSUME UNCHANGED <<session, cleared>>, \A c \in Clients : req'[c] \in {req[c], Idle}
      PROVE  ClearedInv'
  <2>1. \A c \in Clients : req'[c] = req[c] \/ \A v \in cleared' : ~Opening(c, v)'
    BY <1>2 DEF Opening, Idle
  <2> QED
    BY <1>1, <1>2, <2>1, ClearedFrame
<1>3. ASSUME NEW c \in Clients, Finish(c) PROVE \A d \in Clients : req'[d] \in {req[d], Idle}
  BY <1>3 DEF Finish, LinksInv
<1>4. ASSUME NEW c \in Clients, NEW r, req' = [req EXCEPT ![c] = r], UNCHANGED session,
             cleared' \subseteq cleared, \A u \in cleared' : ~Opening(c, u)'
      PROVE  ClearedInv'
  <2>1. \A d \in Clients : req'[d] = req[d] \/ \A u \in cleared' : ~Opening(d, u)'
    BY <1>4 DEF LinksInv
  <2> QED
    BY <1>1, <1>4, <2>1, ClearedFrame
<1>5. ASSUME NEW u \in Users, SignedIn(u) \/ account[u].status = "absent" PROVE u \notin cleared
  BY <1>5 DEF SignedIn, ClearedInv
<1>6. CASE SessionStep
  <2>1. ASSUME NEW c \in Clients, NEW u \in Users, Login(c, u) PROVE ClearedInv'
    <3> DEFINE r == [op |-> "login", user |-> u]
    <3>1. /\ req' = [req EXCEPT ![c] = r] /\ UNCHANGED session
          /\ cleared' = cleared \ {u}
      BY <2>1 DEF Login, Begin, Admitted, rows
    <3>2. req'[c] = r
      BY <3>1 DEF LinksInv
    <3>3. \A v \in cleared' : ~Opening(c, v)'
      BY <3>1, <3>2 DEF Opening
    <3> QED
      BY <1>4, <3>1, <3>3
  <2>2. ASSUME NEW c \in Clients, NEW i \in Slots, Switch(c, i) PROVE ClearedInv'
    <3> DEFINE u == session[i]
               r == [op |-> "switch", slot |-> i, user |-> u]
    <3>1. /\ req' = [req EXCEPT ![c] = r] /\ UNCHANGED <<session, cleared>>
          /\ u \notin cleared
      BY <2>2 DEF Switch, Begin, ClearedInv, rows
    <3>2. req'[c] = r
      BY <3>1 DEF LinksInv
    <3>3. \A v \in cleared' : ~Opening(c, v)'
      BY <3>1, <3>2 DEF Opening
    <3> QED
      BY <1>4, <3>1, <3>3
  <2>3. ASSUME NEW c \in Clients, CommitLogin(c) PROVE ClearedInv'
    <3>1. req[c].user \notin cleared
      BY <2>3 DEF CommitLogin, ClearedInv, Opening
    <3> QED
      BY <1>1, <1>3, <2>3, <3>1, OpenKeeps DEF CommitLogin
  <2>4. ASSUME NEW c \in Clients, CommitSwitch(c) PROVE ClearedInv'
    <3>1. req[c].user \notin cleared
      BY <2>4 DEF CommitSwitch, ClearedInv, Opening
    <3>2. \A i \in Slots : session'[i] \in cleared' => session'[i] = session[i]
      BY <2>4, <3>1 DEF CommitSwitch, SessionsInv
    <3>3. \A d \in Clients : req'[d] = req[d] \/ \A v \in cleared' : ~Opening(d, v)'
      BY <1>3, <2>4 DEF CommitSwitch, Opening, Idle
    <3> QED
      BY <1>1, <2>4, <3>2, <3>3, ClearedFrame DEF CommitSwitch
  <2>5. ASSUME NEW i \in Slots, EndSession(i) PROVE ClearedInv'
    <3>1. \A j \in Slots : session'[j] \in cleared' => session'[j] = session[j]
      BY <2>5, AccountsAssumption DEF EndSession, SessionsInv, Dead
    <3> QED
      BY <1>1, <2>5, <3>1, ClearedFrame DEF EndSession
  <2>6. ASSUME NEW u \in Users, RevokeUserSessions(u) \/ DisableUser(u) PROVE ClearedInv'
    BY <1>1, <2>6, EndedKeeps DEF RevokeUserSessions, DisableUser
  <2>7. ASSUME NEW u \in Users, EnableUser(u) PROVE ClearedInv'
    BY <1>2, <2>7 DEF EnableUser
  <2> QED
    BY <1>6, <2>1, <2>2, <2>3, <2>4, <2>5, <2>6, <2>7 DEF SessionStep
<1>7. CASE LinkStep
  <2>1. ASSUME NEW c \in Clients, NEW n \in DOMAIN link, TakeReset(c, n) \/ TakeVerification(c, n)
        PROVE  ClearedInv'
    <3>1. PICK op \in {"reset", "verify"} :
            req' = [req EXCEPT ![c] = [op |-> op, link |-> n]] /\ UNCHANGED <<session, cleared>>
      BY <2>1 DEF TakeReset, TakeVerification, Take, Begin, rows
    <3>2. req'[c].op = op
      BY <3>1 DEF LinksInv
    <3> QED
      BY <1>4, <3>1, <3>2 DEF Opening
  <2>2. ASSUME NEW c \in Clients, NEW n \in DOMAIN link, TakeStaff(c, n) PROVE ClearedInv'
    <3> DEFINE r == [op |-> "staff", link |-> n]
    <3>1. /\ req' = [req EXCEPT ![c] = r] /\ UNCHANGED <<session, link>>
          /\ cleared' = cleared \ {link[n].user}
      BY <2>2 DEF TakeStaff, Take, Begin, Admitted, rows
    <3>2. req'[c] = r
      BY <3>1 DEF LinksInv
    <3>3. \A v \in cleared' : ~Opening(c, v)'
      BY <3>1, <3>2 DEF Opening
    <3> QED
      BY <1>4, <3>1, <3>3
  <2>3. ASSUME NEW c \in Clients, CommitReset(c) PROVE ClearedInv'
    <3> DEFINE u == link[req[c].link].user
    <3>1. u \in Users /\ account[u].status # "absent"
      BY <2>3 DEF CommitReset, LinksInv, LinkOps, LinkFor, ClearedInv
    <3> QED
      BY <1>1, <1>3, <2>3, <3>1, EndedKeeps DEF CommitReset
  <2>4. ASSUME NEW c \in Clients, CommitStaff(c) PROVE ClearedInv'
    <3>1. link[req[c].link].user \notin cleared
      BY <2>4 DEF CommitStaff, ClearedInv, Opening
    <3> QED
      BY <1>1, <1>3, <2>4, <3>1, OpenKeeps DEF CommitStaff
  <2>5. ASSUME NEW c \in Clients, CommitRegistration(c) PROVE ClearedInv'
    <3>1. \A d \in Clients : req'[d] \in {req[d], Idle}
      BY <1>3, <2>5 DEF CommitRegistration
    <3>2. /\ UNCHANGED cleared
          /\ UNCHANGED session \/ \E u \in Customers : account[u].status = "absent" /\ Open(u)
      BY <2>5 DEF CommitRegistration
    <3>3. ASSUME NEW u \in Customers, account[u].status = "absent", Open(u) PROVE ClearedInv'
      BY <1>1, <1>5, <3>1, <3>2, <3>3, OpenKeeps DEF Users
    <3> QED
      BY <1>2, <3>1, <3>2, <3>3
  <2>6. ASSUME NEW u \in Customers, Register(u) \/ \E a \in Addresses : AcceptInvitation(u, a)
        PROVE  ClearedInv'
    <3>1. /\ SignedIn(u) \/ account[u].status = "absent"
          /\ Open(u) /\ UNCHANGED <<req, cleared>>
      BY <2>6 DEF Register, AcceptInvitation
    <3> QED
      BY <1>1, <1>5, <3>1, OpenKeeps DEF Users
  <2>7. ASSUME NEW c \in Clients, CommitBinding(c) \/ Fail(c) PROVE ClearedInv'
    BY <1>2, <1>3, <2>7 DEF CommitBinding, Fail, rows
  <2>8. ASSUME NEW n \in DOMAIN link, ExpireLink(n) PROVE ClearedInv'
    BY <1>2, <2>8 DEF ExpireLink
  <2>9. ASSUME NEW u \in Users, ForgotPassword(u) \/ RequestVerification(u) PROVE ClearedInv'
    BY <1>2, <2>9 DEF ForgotPassword, RequestVerification, Issue
  <2>10. ASSUME NEW a \in Addresses, RegisterByEmail(a) \/ \E u \in Customers : BindEmail(u, a)
         PROVE  ClearedInv'
    BY <1>2, <2>10 DEF RegisterByEmail, BindEmail, Issue
  <2>11. ASSUME NEW s \in Staff, InviteStaff(s) PROVE ClearedInv'
    BY <1>2, <2>11 DEF InviteStaff
  <2> QED
    BY <1>7, <2>1, <2>2, <2>3, <2>4, <2>5, <2>6, <2>7, <2>8, <2>9, <2>10, <2>11
       DEF LinkStep, Users
<1>8. CASE UNCHANGED accountsVars
  BY <1>2, <1>8 DEF accountsVars
<1> QED
  BY <1>6, <1>7, <1>8 DEF AccountsNext

-----------------------------------------------------------------------------
(* Theorems *)

LEMMA AInvInit == AccountsInit => AInv
<1> SUFFICES ASSUME AccountsInit PROVE AInv
  OBVIOUS
<1>1. SessionsInv
  BY DEF AccountsInit, SessionsInv
<1>2. AccountsInv
  BY DEF AccountsInit, AccountsInv, OneAddress, NoAccount, Account, Users
<1>3. LinksInv
  <2>1. link \in Seq(Link) /\ Len(link) = 0 /\ DOMAIN link = {}
    BY DEF AccountsInit
  <2>2. req \in [Clients -> Request] /\ \A c \in Clients : req[c].op \notin LinkOps
    BY DEF AccountsInit, Request, Idle, LinkOps
  <2> QED
    BY <2>1, <2>2, AccountsAssumption DEF LinksInv, Uses
<1>4. ClearedInv
  BY DEF AccountsInit, ClearedInv
<1> QED
  BY <1>1, <1>2, <1>3, <1>4 DEF AInv

LEMMA AInvStep == AInv /\ [AccountsNext]_accountsVars => AInv' /\ Stays
BY SessionsStep, AccountsStep, LinksStep, ClearedStep DEF AInv

(* The invariant that login, links, verification and the administration of *)
(* accounts keep, from which the other theorems follow.                    *)
THEOREM AccountsInvariant == AccountsSpec => []AInv
BY AInvInit, AInvStep, PTL DEF AccountsSpec

(* Every row and every request under way is of its type: a session is of   *)
(* a user, a link of a kind, and no more is counted than the bounds allow. *)
THEOREM AccountsTyped == AccountsSpec => []AccountsTypeOK
<1>1. AInv => AccountsTypeOK
  BY DEF AInv, SessionsInv, AccountsInv, LinksInv, AccountsTypeOK
<1> QED
  BY <1>1, AccountsInvariant, PTL

(* A user whose sessions were ended is not signed in again before a login  *)
(* or an invitation admits them anew, for any interleaving of the handlers *)
(* that open, replace and end sessions; a request that was opening one at  *)
(* the time of the end is the one exception.                               *)
THEOREM SessionsStayEnded == AccountsSpec => []SessionsEnd
<1>1. AInv => SessionsEnd
  BY DEF AInv, ClearedInv, SessionsEnd, SignedIn
<1> QED
  BY <1>1, AccountsInvariant, PTL

(* A verification link acts once, whatever is under way; of reset tokens   *)
(* and invitations the run used_link shows that they do not.               *)
THEOREM LinksActOnce == AccountsSpec => []OneTimeLinks
<1>1. AInv => OneTimeLinks
  <2>1. ASSUME AInv, NEW n \in DOMAIN link, link[n].kind = "verify"
        PROVE  link[n].uses <= 1
    <3>1. link[n] \in Link /\ ~(link[n].uses > 1)
      BY <2>1 DEF AInv, LinksInv, MayRepeat
    <3>2. link[n].uses \in Nat
      BY <3>1 DEF Link
    <3> QED
      BY <3>1, <3>2
  <2> QED
    BY <2>1 DEF OneTimeLinks
<1> QED
  BY <1>1, AccountsInvariant, PTL

(* No address belongs to two accounts, by whichever of the three ways the  *)
(* code has to give one: a link of the user, a registration, an invitation.*)
THEOREM AddressesDistinct == AccountsSpec => []OneAddress
<1>1. AInv => OneAddress
  BY DEF AInv, AccountsInv
<1> QED
  BY <1>1, AccountsInvariant, PTL

(* An address that was proved stays with its account.                      *)
THEOREM AddressesStay == AccountsSpec => AddressStays
<1>1. AInv /\ [AccountsNext]_accountsVars
      => [\A u \in Users : account[u].verified =>
            account'[u].verified /\ account'[u].address = account[u].address]_accountsVars
  BY AInvStep DEF Stays
<1> QED
  BY <1>1, AccountsInvariant, PTL DEF AccountsSpec, AddressStays
=============================================================================
