------------------------------ MODULE MCAccounts ------------------------------
(***************************************************************************)
(* Accounts for TLC: two customers and a member of staff.                  *)
(***************************************************************************)
EXTENDS Accounts, TLC

About(r) == IF r.op \in {"login", "switch"} THEN r.user ELSE link[r.link].user

(* Rows of staff and rows of customers are explored apart, as no request   *)
(* reads both.  Two requests under way at once are both verifications or   *)
(* both about the rows of one user, as others commute.                     *)
Apart ==
  /\ (\E s \in Staff : account[s] # NoAccount) \/ (\E n \in DOMAIN link : link[n].kind = "staff")
       => \A u \in Customers : account[u] = NoAccount
  /\ \A c, d \in Clients :
       \/ Idle \in {req[c], req[d]}
       \/ req[c].op = "verify" /\ req[d].op = "verify"
       \/ "verify" \notin {req[c].op, req[d].op} /\ About(req[c]) = About(req[d])

Interchangeable == Permutations(Clients) \cup Permutations(Customers) \cup Permutations(Addresses)
                 \cup Permutations(Slots)
=============================================================================
