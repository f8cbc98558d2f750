---------------------------- MODULE MCTaskService ---------------------------
(***************************************************************************)
(* Small instances of TaskService for TLC.                                 *)
(***************************************************************************)
EXTENDS TaskService, TLC

CONSTANTS t1, t2, k1, k2, k3, b1, b2, r1, r2, r3

\* Board IDs are told apart by whether tasks are on one board only.
MCSymmetry ==
    Permutations(TeamIDs) \cup Permutations(TaskIDs)
        \cup Permutations(BoardIDs \ {NoBoard}) \cup Permutations(Requests)

=============================================================================
