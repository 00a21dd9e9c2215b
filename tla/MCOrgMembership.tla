----------------------------- MODULE MCOrgMembership -----------------------------
(* Three users of a workspace with two seats, two invites, two requests at a time. *)
EXTENDS OrgMembership, TLC

CONSTANTS u1, u2, u3, i1, i2, c1, c2
MCUsers == {u1, u2, u3}
MCSymmetry == Permutations(MCUsers) \union Permutations({i1, i2}) \union Permutations({c1, c2})
==================================================================================
