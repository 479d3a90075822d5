--------------------------- MODULE MCProjectAccess ---------------------------
(***************************************************************************)
(* ProjectAccess for TLC: an administrator of the owner, one of a partner, *)
(* and a member who may be moved between the two.                          *)
(***************************************************************************)
EXTENDS ProjectAccess, TLC

CONSTANTS owner, partner, chief, ally, member1

OneMemberMoves == (chief :> owner) @@ (ally :> partner) @@ (member1 :> partner)
ViewAndRuns == {{"project.view", "run.view"}, {"run.view"}}

(* Two requests under way at once are about the same kind of row, as those *)
(* of different kinds commute: a commit writes the row it is about and     *)
(* reads no other.  Support grants are explored on a project without       *)
(* members, a race between two requests without capabilities granted.      *)
Apart ==
  /\ \A c, d \in Clients : Idle \in {req[c], req[d]} \/ req[c].kind = req[d].kind
  /\ support = <<>> \/ \A p \in Assignable : member[p] = NoRow
  /\ \/ \E c \in Clients : req[c] = Idle
     \/ \A p \in Assignable, code \in Capabilities : capability[p][code] = "none"

Interchangeable == Permutations(Clients)
=============================================================================
