-------------------------- MODULE MCOrgMembership --------------------------
(* OrgMembership on a small instance; users and requests are interchangeable. *)
EXTENDS OrgMembership, TLC

Symmetry == Permutations(Users) \cup Permutations(Requests)
=============================================================================
