----------------------------- MODULE TaskStore ------------------------------
(***************************************************************************)
(* What the task table promises, whatever requests run concurrently: a     *)
(* task is created once, in one of the four columns and on a board; only a *)
(* task that is there is edited or deleted, so that no edit brings back a  *)
(* task deleted before it; and a batch of edits, all of one team, is made  *)
(* in one step or not at all.                                              *)
(***************************************************************************)
EXTENDS TaskData

VARIABLE table \* key -> task or NoItem

Init == table = [k \in Keys |-> NoItem]

Create(k) ==
    /\ table[k] = NoItem
    /\ \E task \in Task :
          /\ ColNoOK(task) /\ Storable(task)
          /\ table' = [table EXCEPT ![k] = task]

Edit(t) ==
    /\ table' \in [Keys -> Task \cup {NoItem}]
    /\ \A k \in Keys :
          \/ table'[k] = table[k]
          \/ /\ k[1] = t
             /\ table[k] # NoItem /\ table'[k] # NoItem
             /\ Storable(table'[k])

Delete(k) ==
    /\ table[k] # NoItem
    /\ table' = [table EXCEPT ![k] = NoItem]

Next ==
    \/ \E k \in Keys : Create(k) \/ Delete(k)
    \/ \E t \in TeamIDs : Edit(t)

Spec == Init /\ [][Next]_table

=============================================================================
