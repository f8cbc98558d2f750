---------------------------- MODULE MCUserService ---------------------------
(***************************************************************************)
(* Small instances of UserService for TLC.                                 *)
(***************************************************************************)
EXTENDS UserService, TLC

CONSTANTS u1, u2, p1, p2, r1, r2, r3, r4

MCSymmetry ==
    Permutations(Users) \cup Permutations(Passwords) \cup Permutations(Requests)

=============================================================================
