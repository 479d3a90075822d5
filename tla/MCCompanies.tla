----------------------------- MODULE MCCompanies -----------------------------
(***************************************************************************)
(* Companies for TLC: a company with its administrator, and another one.   *)
(***************************************************************************)
EXTENDS Companies, TLC

CONSTANTS a, b, chief

(* The administrator of the first company stays its administrator, members *)
(* become administrators by promotion only or with their company, the      *)
(* second company imports nobody, and no company is disabled while two     *)
(* requests are under way.                                                 *)
Bounded ==
  /\ ms[First][Chief] = [status |-> "active", admin |-> TRUE]
  /\ \A c \in Clients : req[c].op \in {"invite", "transfer"} => ~req[c].admin
  /\ \A k \in CompanyIds \ {First} : batch[k] = "none"
  /\ \/ \E c \in Clients : req[c] = Idle
     \/ \A k \in CompanyIds : company[k] # "disabled"

Interchangeable == Permutations(Clients)
=============================================================================
