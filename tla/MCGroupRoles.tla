----------------------------- MODULE MCGroupRoles -----------------------------
(* Instances of GroupRoles for TLC.                                           *)
EXTENDS GroupRoles, TLC

Symmetry ==
    Permutations(Users) \cup Permutations(Groups) \cup Permutations(Handlers)
===============================================================================
