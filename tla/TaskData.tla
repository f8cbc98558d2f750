------------------------------ MODULE TaskData ------------------------------
(***************************************************************************)
(* The items of the task table (pkg/db/tasktbl).  A task is one DynamoDB   *)
(* item, its key is the team's ID and the task's own.                      *)
(***************************************************************************)
EXTENDS Integers

CONSTANTS TeamIDs,
          TaskIDs,  \* the UUIDs uuid.NewString can return
          BoardIDs, \* the board IDs a body can carry, NoBoard maybe among them
          ColNos,   \* the column numbers a body can carry
          Contents, \* title, description, order and subtasks
          NoBoard,  \* the empty board ID, or none
          NoItem    \* no item is stored under a key

Keys == TeamIDs \X TaskIDs
Task == [BoardID : BoardIDs, ColNo : ColNos, Content : Contents]

ASSUME TaskDataAssumption ==
    /\ ColNos \subseteq Int
    /\ NoItem \notin Task

\* What both column validators accept.
ColNoOK(task) == task.ColNo \in 0 .. 3

\* BoardID is the key of an index: DynamoDB refuses an empty one.
Storable(item) == item # NoItem => item.BoardID # NoBoard

=============================================================================
