------------------------------- MODULE Accounts -------------------------------
(***************************************************************************)
(* Accounts, their sessions and the links sent to them by mail: login,     *)
(* logout and password reset of backend/auth_routes.py, registration and   *)
(* verification of addresses in onboarding.py, what platform_routes.py     *)
(* does to accounts and staff, and the sessions of security.py.            *)
(*                                                                         *)
(* A request that reads a row without a lock and writes later is a pair of *)
(* actions.  Passwords are left out: a login begins when the password has  *)
(* been checked.  The space a session is for belongs to Companies; the     *)
(* platform administrator of bootstrap_identity, who governs the others,   *)
(* is always there and not among the users.                                *)
(***************************************************************************)
EXTENDS Naturals, Sequences

CONSTANTS
  Customers,     \* customer accounts that may come to exist
  Staff,         \* platform accounts that may come to exist
  Addresses,     \* e-mail addresses of customers
  NoAddress,     \* the address of an account without one
  NoUser,        \* the user of a registration link, or of a session that is dead
  Clients,       \* API requests that may be under way at once
  Slots,         \* bound: sessions that may be live at once
  MaxLinks       \* bound: links sent

Users == Customers \cup Staff

ASSUME AccountsAssumption ==
  /\ Customers \cap Staff = {}
  /\ NoAddress \notin Addresses /\ NoUser \notin Users
  /\ MaxLinks \in Nat

VARIABLES
  account,   \* user -> status, address and whether it is verified
  session,   \* the user of each AuthSession row that is neither revoked nor expired
  link,      \* EmailVerification, PasswordResetToken and PlatformInvitation rows
  req,       \* client -> the request under way
  cleared    \* history: users all of whose sessions were ended, see Ended

rows == <<account, session, link>>
accountsVars == <<account, session, link, req, cleared>>

Account == [status : {"absent", "active", "disabled"},
            address : Addresses \cup {NoAddress}, verified : BOOLEAN]
NoAccount == [status |-> "absent", address |-> NoAddress, verified |-> FALSE]

(* No code makes a dead session live again, so only live ones are kept.    *)
Dead == NoUser
Live(i) == session[i] # Dead

(* "void": expired, or replaced by a later one.  uses counts what it did.  *)
Link == [kind : {"verify", "reset", "staff"}, user : Users \cup {NoUser},
         address : Addresses \cup {NoAddress}, status : {"open", "used", "void"},
         uses : Nat]
NewLink(kind, u, a) ==
  [kind |-> kind, user |-> u, address |-> a, status |-> "open", uses |-> 0]

(* Mutant: a link that is replaced gets the status of an invitation.       *)
VoidAsRevoked(l) == [l EXCEPT !.status = IF @ = "open" THEN "revoked" ELSE @]

Void(l) == [l EXCEPT !.status = IF @ = "open" THEN "void" ELSE @]
Spent(n) == [link EXCEPT ![n].status = "used", ![n].uses = @ + 1]
LinksLeft == Len(link) < MaxLinks

Idle == [op |-> "idle"]
Request == {Idle} \cup [op : {"login"}, user : Users]
                  \cup [op : {"switch"}, slot : Slots, user : Users]
                  \cup [op : {"verify", "reset", "staff"}, link : 1 .. MaxLinks]

(* current_principal: the session is live and its user active.             *)
Usable(i) == Live(i) /\ account[session[i]].status = "active"
SignedIn(u) == \E i \in Slots : session[i] = u /\ Usable(i)

(* Mutant: the address of a disabled account is free.                      *)
ActiveHolder(a) == {u \in Users : account[u].address = a /\ account[u].status = "active"}

Holder(a) == {u \in Users : account[u].address = a}

Begin(c, r) == req[c] = Idle /\ req' = [req EXCEPT ![c] = r]
Finish(c) == req' = [req EXCEPT ![c] = Idle]

(* A request that is refused later on, or whose transaction fails, leaves  *)
(* the rows as they were.                                                  *)
Fail(c) == req[c] # Idle /\ Finish(c) /\ UNCHANGED <<rows, cleared>>

(* The row of a session a request replaces is not taken by another.        *)
Free(i) == ~Live(i) /\ \A c \in Clients : req[c].op = "switch" => req[c].slot # i
Open(u) == \E i \in Slots : Free(i) /\ session' = [session EXCEPT ![i] = u]

(* A request under way that is going to open a session of u.               *)
Opening(c, u) ==
  \/ req[c].op \in {"login", "switch"} /\ req[c].user = u
  \/ req[c].op = "staff" /\ link[req[c].link].user = u

(* What the code says it does when it ends the sessions of u, and when a   *)
(* login or an invitation admits u again.  A request that had been let in  *)
(* before the end may still open a session after it.                       *)
Ended(u) ==
  cleared' = IF \E c \in Clients : Opening(c, u) THEN cleared ELSE cleared \cup {u}
Admitted(u) == cleared' = cleared \ {u}

-----------------------------------------------------------------------------
(* Sessions *)

(* login and platform_login check the password and the account, and later  *)
(* insert the session without looking again.                               *)
Login(c, u) ==
  /\ account[u].status = "active"
  /\ Begin(c, [op |-> "login", user |-> u])
  /\ Admitted(u)
  /\ UNCHANGED rows

CommitLogin(c) ==
  /\ req[c].op = "login"
  /\ Open(req[c].user)
  /\ Finish(c)
  /\ UNCHANGED <<account, link, cleared>>

(* switch_space replaces the session it came with by one for another space.*)
Switch(c, i) ==
  /\ Usable(i) /\ session[i] \in Customers
  /\ Begin(c, [op |-> "switch", slot |-> i, user |-> session[i]])
  /\ UNCHANGED <<rows, cleared>>

CommitSwitch(c) ==
  /\ req[c].op = "switch"
  /\ session' = [session EXCEPT ![req[c].slot] = req[c].user]
  /\ Finish(c)
  /\ UNCHANGED <<account, link, cleared>>

(* logout, or SESSION_HOURS have passed.                                   *)
EndSession(i) ==
  /\ Live(i)
  /\ session' = [session EXCEPT ![i] = Dead]
  /\ UNCHANGED <<account, link, req, cleared>>

(* Every session of a user that is not revoked yet becomes revoked.        *)
EndAll(u) == session' = [i \in Slots |-> IF session[i] = u THEN Dead ELSE session[i]]

(* revoke_user_sessions, and what transfer_company does to sessions.       *)
RevokeUserSessions(u) ==
  /\ account[u].status # "absent"
  /\ EndAll(u) /\ Ended(u)
  /\ UNCHANGED <<account, link, req>>

(* Mutant: the sessions stay as they are while the account is disabled.    *)
DisableUserOnly(u) ==
  /\ account[u].status # "absent"
  /\ account' = [account EXCEPT ![u].status = "disabled"]
  /\ Ended(u)
  /\ UNCHANGED <<session, link, req>>

DisableUser(u) ==
  /\ account[u].status # "absent"
  /\ account' = [account EXCEPT ![u].status = "disabled"]
  /\ EndAll(u) /\ Ended(u)
  /\ UNCHANGED <<link, req>>

EnableUser(u) ==
  /\ account[u].status # "absent"
  /\ account' = [account EXCEPT ![u].status = "active"]
  /\ UNCHANGED <<session, link, req, cleared>>

-----------------------------------------------------------------------------
(* Links *)

Underway(n) == \E c \in Clients : req[c].op \in {"verify", "reset", "staff"} /\ req[c].link = n

Take(c, n, op) ==
  /\ link[n].kind = op /\ link[n].status = "open"
  /\ Begin(c, [op |-> op, link |-> n])
  /\ UNCHANGED rows

(* Mutant: a verification reads its link without holding the row.          *)
LockedByNobody(n) == link[n].kind = "none"

(* A link that expires or is replaced waits for a verification with it.    *)
Locked(n) == link[n].kind = "verify" /\ Underway(n)

ExpireLink(n) ==
  /\ link[n].status = "open" /\ ~Locked(n)
  /\ link' = [link EXCEPT ![n] = Void(@)]
  /\ UNCHANGED <<account, session, req, cleared>>

(* forgot_password, and member_password_reset of a company administrator.  *)
(* Staff have the address their invitation was sent to.                    *)
ForgotPassword(u) ==
  /\ LinksLeft
  /\ account[u].status = "active"
  /\ u \in Staff \/ account[u].address # NoAddress
  /\ link' = Append(link, NewLink("reset", u, NoAddress))
  /\ UNCHANGED <<account, session, req, cleared>>

(* reset_password reads the link as unused and locks nothing.              *)
TakeReset(c, n) == Take(c, n, "reset") /\ UNCHANGED cleared

CommitReset(c) ==
  LET n == req[c].link IN
  /\ req[c].op = "reset"
  /\ link' = Spent(n)
  /\ EndAll(link[n].user) /\ Ended(link[n].user)
  /\ Finish(c)
  /\ UNCHANGED account

(* invite_staff; the earlier invitations of the person become void.        *)
InviteStaff(s) ==
  /\ LinksLeft
  /\ link' = Append([n \in DOMAIN link |-> IF link[n].kind = "staff" /\ link[n].user = s
                                           THEN Void(link[n]) ELSE link[n]],
                    NewLink("staff", s, NoAddress))
  /\ UNCHANGED <<account, session, req, cleared>>

(* accept_platform_invitation reads the invitation as pending without a    *)
(* lock; then the account is active with a new password, whatever it was.  *)
TakeStaff(c, n) == Take(c, n, "staff") /\ Admitted(link[n].user)

CommitStaff(c) ==
  LET n == req[c].link
      s == link[n].user IN
  /\ req[c].op = "staff"
  /\ account' = [account EXCEPT ![s].status = "active"]
  /\ Open(s)
  /\ link' = Spent(n)
  /\ Finish(c)
  /\ UNCHANGED cleared

-----------------------------------------------------------------------------
(* Customer accounts and their addresses *)

Register(u) ==
  /\ account[u].status = "absent"
  /\ account' = [account EXCEPT ![u].status = "active"]
  /\ Open(u)
  /\ UNCHANGED <<link, req, cleared>>

(* issue_verification: the earlier links of the user become void.          *)
Issue(u, a) ==
  LET Earlier(n) == link[n].kind = "verify" /\ link[n].user = u /\ u # NoUser IN
  /\ LinksLeft
  /\ \A n \in DOMAIN link : Earlier(n) => ~Locked(n)
  /\ link' = Append([n \in DOMAIN link |-> IF Earlier(n) THEN Void(link[n]) ELSE link[n]],
                    NewLink("verify", u, a))
  /\ UNCHANGED <<account, session, req, cleared>>

BindEmail(u, a) ==
  /\ SignedIn(u) /\ ~account[u].verified
  /\ account[u].address \in {a, NoAddress} /\ Holder(a) \subseteq {u}
  /\ Issue(u, a)

RequestVerification(u) ==
  /\ SignedIn(u) /\ account[u].address # NoAddress
  /\ Issue(u, account[u].address)

RegisterByEmail(a) == Holder(a) = {} /\ Issue(NoUser, a)

(* verify_email takes the link by one conditional update, which holds its  *)
(* row until the commit.                                                   *)
TakeVerification(c, n) == ~Locked(n) /\ Take(c, n, "verify") /\ UNCHANGED cleared

Verified(u, a) == [account[u] EXCEPT !.status = IF @ = "absent" THEN "active" ELSE @,
                                     !.address = a, !.verified = TRUE]

(* Mutant: the address the account has by now is not compared.             *)
MatchesAny(u, a) == account[u].status # "disabled" \/ account[u].address = a

Matches(u, a) == account[u].address \in {a, NoAddress}

(* A link of a user, opened with a session of that user.                   *)
CommitBinding(c) ==
  LET n == req[c].link
      u == link[n].user IN
  /\ req[c].op = "verify" /\ u # NoUser
  /\ SignedIn(u)
  /\ Matches(u, link[n].address) /\ Holder(link[n].address) \subseteq {u}
  /\ account' = [account EXCEPT ![u] = Verified(u, link[n].address)]
  /\ link' = Spent(n)
  /\ Finish(c)
  /\ UNCHANGED <<session, cleared>>

(* A registration link, for the holder of the address or for a new account.*)
CommitRegistration(c) ==
  LET n == req[c].link
      a == link[n].address IN
  /\ req[c].op = "verify" /\ link[n].user = NoUser
  /\ \/ /\ \E u \in Holder(a) \cap Customers :
             SignedIn(u) /\ account' = [account EXCEPT ![u] = Verified(u, a)]
        /\ UNCHANGED session
     \/ /\ Holder(a) = {}
        /\ \E u \in Customers :
             /\ account[u].status = "absent"
             /\ account' = [account EXCEPT ![u] = Verified(u, a)]
             /\ Open(u)
  /\ link' = Spent(n)
  /\ Finish(c)
  /\ UNCHANGED cleared

(* accept_invitation of a company: the address of the invitation becomes   *)
(* that of an account without one, or a new account gets it.               *)
AcceptInvitation(u, a) ==
  /\ account[u].status = "absent" \/ SignedIn(u)
  /\ Matches(u, a) /\ Holder(a) \subseteq {u}
  /\ account' = [account EXCEPT ![u] = Verified(u, a)]
  /\ Open(u)
  /\ UNCHANGED <<link, req, cleared>>

-----------------------------------------------------------------------------
AccountsInit ==
  /\ account = [u \in Users |-> NoAccount]
  /\ session = [i \in Slots |-> Dead]
  /\ link = <<>>
  /\ req = [c \in Clients |-> Idle]
  /\ cleared = {}

SessionStep ==
  \/ \E c \in Clients :
       \/ \E u \in Users : Login(c, u)
       \/ \E i \in Slots : Switch(c, i)
       \/ CommitLogin(c) \/ CommitSwitch(c)
  \/ \E i \in Slots : EndSession(i)
  \/ \E u \in Users : RevokeUserSessions(u) \/ DisableUser(u) \/ EnableUser(u)

LinkStep ==
  \/ \E c \in Clients :
       \/ \E n \in DOMAIN link : TakeReset(c, n) \/ TakeStaff(c, n) \/ TakeVerification(c, n)
       \/ CommitReset(c) \/ CommitStaff(c)
       \/ CommitBinding(c) \/ CommitRegistration(c) \/ Fail(c)
  \/ \E n \in DOMAIN link : ExpireLink(n)
  \/ \E u \in Users : ForgotPassword(u)
  \/ \E u \in Customers : Register(u) \/ RequestVerification(u)
  \/ \E u \in Customers, a \in Addresses : BindEmail(u, a) \/ AcceptInvitation(u, a)
  \/ \E a \in Addresses : RegisterByEmail(a)
  \/ \E s \in Staff : InviteStaff(s)

AccountsNext == SessionStep \/ LinkStep
AccountsSpec == AccountsInit /\ [][AccountsNext]_accountsVars

-----------------------------------------------------------------------------
(* Properties *)

AccountsTypeOK ==
  /\ account \in [Users -> Account]
  /\ session \in [Slots -> Users \cup {Dead}]
  /\ link \in Seq(Link) /\ Len(link) <= MaxLinks
  /\ req \in [Clients -> Request]
  /\ cleared \subseteq Users

(* Resetting a password, disabling an account, transferring its user and   *)
(* revoking its sessions shut the user out, also after the account has     *)
(* been enabled again, until a login or an invitation admits them anew,    *)
(* unless a request was just then opening a session for them.              *)
SessionsEnd == \A u \in cleared : ~SignedIn(u)

(* A verification link acts once, whatever is under way.                   *)
OneTimeLinks == \A n \in DOMAIN link : link[n].kind = "verify" => link[n].uses <= 1

(* Every link is for one use (README.md:214, and the text of the mail in   *)
(* mailer.py): no reset token and no invitation acts twice either.         *)
LinksActAtMostOnce == \A n \in DOMAIN link : link[n].uses <= 1

(* The address a company has invited and an account has proved is never    *)
(* replaced, whatever links for other addresses are still open.            *)
AddressStays ==
  [][\A u \in Users : account[u].verified =>
       account'[u].verified /\ account'[u].address = account[u].address]_accountsVars

(* Two accounts never have the same address, active or disabled.           *)
OneAddress ==
  \A u, v \in Customers :
    account[u].address = account[v].address /\ account[u].address # NoAddress => u = v
=============================================================================
