---------------------------- MODULE MCTeamService ---------------------------
(***************************************************************************)
(* Small instances of TeamService for TLC.                                 *)
(***************************************************************************)
EXTENDS TeamService, TLC

CONSTANTS t1, u1, b1, b2, b3, r1, r2, r3

MCMemberLists == {<< >>, << u1 >>}
MCNoMembers == {<< >>}
MCSymmetry == Permutations({b1, b2, b3}) \cup Permutations(Requests)

=============================================================================
