--------------------------- MODULE MCBoardClient ----------------------------
(***************************************************************************)
(* Small instances of BoardClient for TLC.                                 *)
(***************************************************************************)
EXTENDS BoardClient

CONSTANTS k1, k2, k3, g1, g2, g3, x, y

MCSymmetry == Permutations(TaskIDs) \cup Permutations(Gestures)
                  \cup Permutations(Contents)

=============================================================================
