---------------------------- MODULE MCPermissions ----------------------------
(* The owner, a member and a superAdmin, two edits of roles at a time.     *)
EXTENDS Permissions, TLC

MCSymmetry == Permutations(Edits)
=============================================================================
