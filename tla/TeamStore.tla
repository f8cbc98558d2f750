----------------------------- MODULE TeamStore ------------------------------
(***************************************************************************)
(* What the team table promises, whatever requests run concurrently: a     *)
(* team's item is created once, with its admin as the only member and one  *)
(* board, and from then on every write of the item is ONE edit of SOME     *)
(* version the table held before.  The version need not be the current     *)
(* one: the team service reads an item, edits its copy and puts the copy   *)
(* back without a version condition, so the last writer wins and an edit   *)
(* may undo the edits made since its version.  No edit, however stale its  *)
(* version, may leave a team with too many boards, with two boards of one  *)
(* ID, with a member listed twice or without its admin.                    *)
(***************************************************************************)
EXTENDS TeamData

VARIABLES table,    \* team ID -> its current item
          versions  \* team ID -> every item it has had, NoItem included
storeVars == << table, versions >>

Init ==
    /\ table = [t \in TeamIDs |-> NoItem]
    /\ versions = [t \in TeamIDs |-> {NoItem}]

Write(t, item) ==
    /\ table' = [table EXCEPT ![t] = item]
    /\ versions' = [versions EXCEPT ![t] = @ \cup {item}]

Create(t) ==
    /\ table[t] = NoItem
    /\ \E id \in BoardIDs : Write(t, NewTeam(t, id))

Revise(t) ==
    \E v \in versions[t] \ {NoItem} : \E item \in Edits(v) : Write(t, item)

Next == \E t \in TeamIDs : Create(t) \/ Revise(t)

Spec == Init /\ [][Next]_storeVars

=============================================================================
