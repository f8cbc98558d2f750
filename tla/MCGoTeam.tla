------------------------------ MODULE MCGoTeam ------------------------------
(***************************************************************************)
(* Small instances of GoTeam for TLC.                                      *)
(***************************************************************************)
EXTENDS GoTeam, TLC

CONSTANTS u1, u2, p1, b1, b2, c1, c2, c3, r1, r2, r3

MCMemberLists == {<< >>}
MCSymmetry ==
    Permutations(Users) \cup Permutations(BoardIDs)
        \cup Permutations(UserRequests) \cup Permutations(TeamRequests)

=============================================================================
