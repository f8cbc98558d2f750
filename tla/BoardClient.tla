---------------------------- MODULE BoardClient -----------------------------
(***************************************************************************)
(* A board as one browser tab shows it (web/src), over the task service.   *)
(* The user drags tasks, checks subtasks, creates, edits and deletes       *)
(* tasks.  The client changes what it shows at once and then calls the     *)
(* service; when a call fails it goes back to what it showed before, or    *)
(* loads the board anew.  A gesture is a process, and many may be going on.*)
(*                                                                         *)
(* The service is taken for what TaskStore promises; any call of it may    *)
(* fail, and a call may be carried out though its answer is lost.  One     *)
(* board of one team is shown to its admin, and nobody else edits it.      *)
(* GET /tasks may find any task as it was before its last change.          *)
(***************************************************************************)
EXTENDS Integers, FiniteSets, Sequences, Functions, SequencesExt

CONSTANTS TaskIDs,   \* the task IDs that the service can draw
          NoID,      \* the empty ID of a task that the client made up
          UndefinedID,  \* the ID of what is no task at all
          NoItem,    \* no task is stored under an ID
          Cols,      \* the column numbers
          Contents,  \* title, description and subtasks
          NoContent, \* they are undefined
          Gestures   \* what the user does, each once

VARIABLES table,   \* the board as stored: task ID -> task or NoItem
          before,  \* what was stored before the last change of a task
          shown,   \* the board as shown: its column objects
          pc,      \* how far each gesture is
          gesture, \* what it is, and the task it is about
          body,    \* the tasks its calls send
          call,    \* how far these calls are
          kept,    \* initialActiveBoard: what an edit goes back to
          got,     \* the board that its GET /tasks read
          spinner, \* isLoading
          cookie,  \* is the auth cookie there?
          mishaps  \* what has happened that the client does not mend
store == << table, before >>
calls == << body, call >>
vars == << store, shown, pc, gesture, body, call, kept, got, spinner, cookie,
           mishaps >>

\* How many tasks a column can come to show.
MaxOrder == Cardinality(TaskIDs) + Cardinality(Gestures)
Item  == [ColNo : Cols, Order : 0 .. MaxOrder, Content : Contents]
Entry == {e \in [ID : TaskIDs \cup {NoID, UndefinedID}, ColNo : Cols,
                 Order : 0 .. MaxOrder, Content : Contents \cup {NoContent}] :
             e.Content = NoContent => e.ID = UndefinedID}

\* An item as TaskStore has it.
StoreItem == [BoardID : {"board"}, ColNo : Cols, Content : (0 .. MaxOrder) \X Contents]

ASSUME BoardClientAssumption ==
    /\ 0 \in Cols /\ Cols \subseteq 0 .. 3
    /\ NoID \notin TaskIDs /\ UndefinedID \notin TaskIDs \cup {NoID}
    /\ NoContent \notin Contents
    /\ NoItem \notin Item \cup StoreItem
    /\ IsFiniteSet(TaskIDs) /\ IsFiniteSet(Gestures) /\ Contents # {}

EntryOf(id, item) ==
    [ID |-> id, ColNo |-> item.ColNo, Order |-> item.Order,
     Content |-> item.Content]
ItemOf(e) == [ColNo |-> e.ColNo, Order |-> e.Order, Content |-> e.Content]
StoredIn(t, c) ==
    {EntryOf(id, t[id]) : id \in {i \in TaskIDs : t[i] # NoItem /\ t[i].ColNo = c}}

\* A column object.  Objects are shared, and changed in place, so they have
\* an identity: what made them.
Column(maker, tasks) == [by |-> maker, tasks |-> tasks]
Tasks(c) == shown[c].tasks

NoGesture == [kind |-> "none", task |-> NoItem]
Nothing == << >>

\* The ways to lay out a board by the order of its tasks, as orderBy does.
Sorted(tasks) ==
    {s \in SetToSeqs(tasks) :
        \A i, j \in DOMAIN s : i < j => s[i].Order <= s[j].Order}
Layouts(t) ==
    {f \in [Cols -> UNION {Sorted(StoredIn(t, c)) : c \in Cols}] :
        \A c \in Cols : f[c] \in Sorted(StoredIn(t, c))}

\* A board that was dragged into shape, and loaded.
Init ==
    /\ table \in {t \in [TaskIDs -> Item \cup {NoItem}] :
                     \A c \in Cols :
                        {e.Order : e \in StoredIn(t, c)}
                            = 0 .. Cardinality(StoredIn(t, c)) - 1}
    /\ before = table
    /\ \E f \in Layouts(table) : shown = [c \in Cols |-> Column(Nothing, f[c])]
    /\ pc = [g \in Gestures |-> "idle"]
    /\ gesture = [g \in Gestures |-> NoGesture]
    /\ body = [g \in Gestures |-> [src |-> {}, dst |-> {}]]
    /\ call = [g \in Gestures |-> [src |-> "none", dst |-> "none"]]
    /\ kept = [g \in Gestures |-> Nothing]
    /\ got = [g \in Gestures |-> Nothing]
    /\ spinner = FALSE
    /\ cookie = TRUE
    /\ mishaps = {}

Pending(g, way) == call[g][way] \in {"sent", "again"}
Busy(g) == pc[g] \notin {"idle", "done"} \/ Pending(g, "src")
Quiet == \A g \in Gestures : ~Busy(g)

Goes(g, label) == pc' = [pc EXCEPT ![g] = label]
Notes(happened) == mishaps' = mishaps \cup happened
When(happens, what) == IF happens THEN {what} ELSE {}

Mishaps == {"overlap", "late rollback", "late load", "lost answer", "split drag",
            "no load", "no cookie", "old read", "toggle", "numbering"}

(***************************************************************************)
(* The user acts.  A window, and the spinner, cover the board.             *)
(***************************************************************************)
MayAct(g) ==
    /\ pc[g] = "idle"
    /\ cookie /\ ~spinner
    /\ \A other \in Gestures : pc[other] # "open"

\* The user does not wait until all is answered.
Overlap == When(~Quiet, "overlap")

Sends(g, kind, task, src, dst) ==
    /\ gesture' = [gesture EXCEPT ![g] = [kind |-> kind, task |-> task]]
    /\ body' = [body EXCEPT ![g] = [src |-> src, dst |-> dst]]
    /\ call' = [call EXCEPT ![g] = [src |-> IF src = {} THEN "none" ELSE "sent",
                                    dst |-> "sent"]]
    /\ Goes(g, "sent")
    /\ UNCHANGED << store, got, spinner, cookie >>

\* colNo and order after a drag.
NumberedOn(tasks, c) == \* mutant: order counts on from the column's end
    [i \in DOMAIN tasks |-> [tasks[i] EXCEPT !.ColNo = c, !.Order = Len(tasks) + i]]
NumberedFromOne(tasks, c) == \* mutant: off by one
    [i \in DOMAIN tasks |-> [tasks[i] EXCEPT !.ColNo = c, !.Order = i]]
Numbered(tasks, c) ==
    [i \in DOMAIN tasks |-> [tasks[i] EXCEPT !.ColNo = c, !.Order = i - 1]]

\* What splice leaves in the source.
NotPopped(tasks, at) == tasks \* mutant: the item is read, not spliced
Popped(tasks, at) == IF at <= Len(tasks) THEN RemoveAt(tasks, at) ELSE tasks

\* splice finds no task there, and what is put into the column has a place
\* and an order, but no ID and no content.
Undefined == [ID |-> UndefinedID, ColNo |-> 0, Order |-> 0, Content |-> NoContent]

\* handleOnDragEnd.  The index of a Draggable, and so of the source, is the
\* task's order, which for a task just created is one beyond its place: it
\* stays where it is, and undefined is moved.  splice changes the columns in
\* place, also where an edit has kept them.
Drag(g) ==
    /\ MayAct(g)
    /\ \E s, d \in Cols : \E dragged \in Range(Tasks(s)) :
         LET at   == dragged.Order + 1
             item == IF at <= Len(Tasks(s)) THEN Tasks(s)[at] ELSE Undefined
             rest == Popped(Tasks(s), at)
             onto == IF s = d THEN rest ELSE Tasks(d)
         IN  \E n \in 1 .. Len(onto) + 1 :
               LET placed == InsertAt(onto, n, item)
                   inPlace(c) == IF c = d THEN placed ELSE rest
                   maker == << g, "edit" >>
               IN  /\ shown' = [c \in Cols |->
                          IF c \in {s, d} THEN Column(maker, Numbered(inPlace(c), c))
                                          ELSE shown[c]]
                   /\ kept' = [h \in Gestures |-> [c \in DOMAIN kept[h] |->
                          IF c \in {s, d} /\ kept[h][c].by = shown[c].by
                          THEN Column(shown[c].by, inPlace(c))
                          ELSE kept[h][c]]]
                   /\ Sends(g, "drag", dragged,
                            IF s = d THEN {} ELSE Range(Numbered(rest, s)),
                            Range(Numbered(placed, d)))
    /\ Notes(Overlap)

\* Shows what an edit asks for, in one column, and keeps what was shown.
Optimistically(g, c, tasks) ==
    /\ kept' = [kept EXCEPT ![g] = shown]
    /\ shown' = [shown EXCEPT ![c] = Column(<< g, "edit" >>, tasks)]

WithID(id, tasks) == {i \in DOMAIN tasks : tasks[i].ID = id}

\* toggleSubtaskDone.  The body has no colNo, which the service reads as 0.
\* undefined has no subtasks to check.
Toggle(g) ==
    /\ MayAct(g)
    /\ \E c \in Cols : \E task \in Range(Tasks(c)), content \in Contents :
         LET tasks == Tasks(task.ColNo)
         IN  /\ task.Content # NoContent
             /\ Optimistically(g, task.ColNo,
                   [i \in DOMAIN tasks |-> IF i \in WithID(task.ID, tasks)
                        THEN [tasks[i] EXCEPT !.Content = content] ELSE tasks[i]])
             /\ Sends(g, "toggle", task, {},
                      {[task EXCEPT !.ColNo = 0, !.Content = content]})
             /\ Notes(Overlap \cup When(task.ColNo # 0, "toggle"))

\* The window for a new task, and those of the menu of a task, which hold
\* the task as it was shown then.
Opens(g) ==
    /\ MayAct(g)
    /\ \/ gesture' = [gesture EXCEPT ![g].kind = "create"]
       \/ \E c \in Cols : \E task \in Range(Tasks(c)), kind \in {"edit", "delete"} :
             gesture' = [gesture EXCEPT ![g] = [kind |-> kind, task |-> task]]
    /\ Goes(g, "open")
    /\ Notes(Overlap)
    /\ UNCHANGED << store, shown, calls, kept, got, spinner, cookie >>

Submitting(g, kind) == pc[g] = "open" /\ gesture[g].kind = kind

SubmitsCreate(g) ==
    /\ Submitting(g, "create")
    /\ \E content \in Contents :
         LET new(order) == [ID |-> NoID, ColNo |-> 0, Order |-> order,
                            Content |-> content]
             length == Len(Tasks(0))
         IN  /\ Optimistically(g, 0, Append(Tasks(0), new(length + 1)))
             /\ Sends(g, "create", NoItem, {}, {new(length)})
    /\ UNCHANGED mishaps

\* The optimistic update compares a column's number with the column, so it
\* changes nothing.  The body has no order, which the service reads as 0.
SubmitsEdit(g) ==
    /\ Submitting(g, "edit")
    /\ kept' = [kept EXCEPT ![g] = shown]
    /\ \E content \in Contents :
          LET task == gesture[g].task
          IN  Sends(g, "edit", task, {},
                    {[task EXCEPT !.Order = 0, !.Content = content]})
    /\ Notes({"numbering"})
    /\ UNCHANGED shown

\* The column without a task, as filter leaves it.
Without(id, tasks) ==
    LET others[n \in 0 .. Len(tasks)] ==
          IF n = 0 THEN << >>
          ELSE IF tasks[n].ID # id THEN Append(others[n - 1], tasks[n])
          ELSE others[n - 1]
    IN  others[Len(tasks)]

SubmitsDelete(g) ==
    /\ Submitting(g, "delete")
    /\ LET task == gesture[g].task
       IN  /\ Optimistically(g, task.ColNo, Without(task.ID, Tasks(task.ColNo)))
           /\ Sends(g, "delete", task, {}, {task})
    /\ Notes({"numbering"})

(***************************************************************************)
(* The service carries out a call, or refuses it.                          *)
(***************************************************************************)
\* DynamoDB refuses a key that is empty, as a missing one is decoded, and a
\* task named twice.
Valid(tasks) ==
    /\ \A e \in tasks : e.ID \in TaskIDs
    /\ \A e, f \in tasks : e.ID = f.ID => e = f

NotChecked(tasks) == \A e \in tasks : e.ID \in TaskIDs \* mutant: no condition
Present(tasks) == \A e \in tasks : e.ID \in TaskIDs /\ table[e.ID] # NoItem

Puts(tasks) ==
    table' = [id \in TaskIDs |->
                 IF \E e \in tasks : e.ID = id
                 THEN ItemOf(CHOOSE e \in tasks : e.ID = id)
                 ELSE table[id]]

Changes(g, way) ==
    LET tasks == body[g][way] IN
    CASE gesture[g].kind = "create" ->
            \E id \in TaskIDs, e \in tasks :
                table[id] = NoItem /\ table' = [table EXCEPT ![id] = ItemOf(e)]
      [] gesture[g].kind = "delete" ->
            \E e \in tasks :
                Present({e}) /\ table' = [table EXCEPT ![e.ID] = NoItem]
      [] OTHER -> Valid(tasks) /\ Present(tasks) /\ Puts(tasks)

Stores(g, way) ==
    /\ Changes(g, way)
    /\ before' = [id \in TaskIDs |->
                     IF table'[id] = table[id] THEN before[id] ELSE table[id]]

Call(g, way, state) == call' = [call EXCEPT ![g][way] = state]

\* A transaction that is sent again is recognised, anything else is not.
Recognised(g, way) == call[g][way] = "again" /\ gesture[g].kind = "drag"

Answers(g, way) ==
    /\ Pending(g, way)
    /\ IF Recognised(g, way) THEN UNCHANGED store ELSE Stores(g, way)
    /\ Call(g, way, "ok")
    /\ UNCHANGED << shown, pc, gesture, body, kept, got, spinner, cookie, mishaps >>

\* It is carried out, but the answer is lost on the way: each time that it
\* is sent.
StoresUnanswered(g, way) ==
    /\ Pending(g, way) /\ ~Recognised(g, way)
    /\ Stores(g, way)
    /\ Call(g, way, "again")
    /\ Notes({"lost answer"})
    /\ UNCHANGED << shown, pc, gesture, body, kept, got, spinner, cookie >>

\* One half of a drag may be refused, and the other made.
Refuses(g, way) ==
    /\ Pending(g, way)
    /\ Call(g, way, "failed")
    /\ Notes(When(call[g].src # "none", "numbering"))
    /\ UNCHANGED << store, shown, pc, gesture, body, kept, got, spinner, cookie >>

(***************************************************************************)
(* The client takes the answer.                                            *)
(***************************************************************************)
\* loadBoard starts.  Without a cookie it does nothing at all.
Reloads(g, happened) ==
    /\ Goes(g, IF cookie THEN "loading" ELSE "done")
    /\ Notes(happened \cup When(~cookie, "no cookie"))

\* What is left of a gesture: a call whose answer nobody waits for.
Taken(g) ==
    IF Pending(g, "src")
    THEN /\ call' = [call EXCEPT ![g].dst = "none"]
         /\ body' = [body EXCEPT ![g].dst = {}]
         /\ UNCHANGED gesture
    ELSE /\ call' = [call EXCEPT ![g] = [src |-> "none", dst |-> "none"]]
         /\ body' = [body EXCEPT ![g] = [src |-> {}, dst |-> {}]]
         /\ gesture' = [gesture EXCEPT ![g] = NoGesture]

EditAnswered(g) ==
    /\ pc[g] = "sent" /\ gesture[g].kind # "drag"
    /\ ~Pending(g, "dst")
    /\ IF call[g].dst = "failed"
       THEN /\ shown' = kept[g]
            /\ Goes(g, "done")
            /\ Notes(When("overlap" \in mishaps, "late rollback"))
       ELSE /\ IF gesture[g].kind \in {"create", "edit"}
               THEN Reloads(g, {})
               ELSE Goes(g, "done") /\ UNCHANGED mishaps
            /\ UNCHANGED shown
    /\ kept' = [kept EXCEPT ![g] = Nothing]
    /\ Taken(g)
    /\ UNCHANGED << store, got, spinner, cookie >>

\* The two calls go out together.  The second is awaited first, and if it
\* fails the first is not awaited.
NeverAwaited(g) == TRUE \* mutant: the calls are not awaited
Awaited(g) == ~Pending(g, "dst") /\ (call[g].dst = "ok" => ~Pending(g, "src"))

DragAnswered(g) ==
    /\ pc[g] = "sent" /\ gesture[g].kind = "drag"
    /\ Awaited(g)
    /\ spinner' = (spinner \/ "failed" \in Range(call[g]))
    /\ Reloads(g, When(call[g].dst = "failed" /\ Pending(g, "src"), "split drag"))
    /\ Taken(g)
    /\ UNCHANGED << store, shown, kept, got, cookie >>

Loading(g) == pc[g] \in {"loading", "loaded"}

LoadReads(g) ==
    /\ pc[g] = "loading"
    /\ \E old \in SUBSET TaskIDs :
          LET t == [id \in TaskIDs |-> IF id \in old THEN before[id] ELSE table[id]]
          IN  /\ got' = [got EXCEPT ![g] = t]
              /\ Notes(When(t # table, "old read"))
    /\ Goes(g, "loaded")
    /\ UNCHANGED << store, shown, gesture, calls, kept, spinner, cookie >>

LoadShows(g) ==
    /\ pc[g] = "loaded"
    /\ \E f \in Layouts(got[g]) :
          shown' = [c \in Cols |-> Column(<< g, "load" >>, f[c])]
    /\ got' = [got EXCEPT ![g] = Nothing]
    /\ spinner' = FALSE
    /\ Goes(g, "done")
    /\ Notes(When(mishaps \cap {"overlap", "no load", "no cookie"} # {}, "late load"))
    /\ UNCHANGED << store, gesture, calls, kept, cookie >>

LoadFailsSpinning(g) == UNCHANGED spinner \* mutant: no finally
LoadEnds(g) == spinner' = FALSE

\* GET /team or GET /tasks fails.
LoadFails(g) ==
    /\ Loading(g)
    /\ LoadEnds(g)
    /\ Goes(g, "done")
    /\ got' = [got EXCEPT ![g] = Nothing]
    /\ Notes({"no load"})
    /\ UNCHANGED << store, shown, gesture, calls, kept, cookie >>

\* It expires, or the user logs out in another tab.
CookieGoes ==
    /\ cookie /\ cookie' = FALSE
    /\ UNCHANGED << store, shown, pc, gesture, calls, kept, got, spinner, mishaps >>

UserActs(g) ==
    \/ Drag(g) \/ Toggle(g)
    \/ Opens(g) \/ SubmitsCreate(g) \/ SubmitsEdit(g) \/ SubmitsDelete(g)

Ends(g, way) == Answers(g, way) \/ Refuses(g, way)

Handles(g) ==
    \/ EditAnswered(g) \/ DragAnswered(g)
    \/ LoadReads(g) \/ LoadShows(g) \/ LoadFails(g)

Next ==
    \/ CookieGoes
    \/ \E g \in Gestures :
          \/ UserActs(g) \/ Handles(g)
          \/ \E way \in {"src", "dst"} : Ends(g, way) \/ StoresUnanswered(g, way)

Spec == Init /\ [][Next]_vars

-----------------------------------------------------------------------------
(***************************************************************************)
(* Properties.                                                             *)
(***************************************************************************)

ColumnType(column) ==
    column.by \in {Nothing} \cup (Gestures \X {"edit", "load"})
        /\ column.tasks \in Seq(Entry)

\* Every variable has its type; orders stay below MaxOrder, so that the
\* numbering of a column does not run away over drags and creations.
TypeOK ==
    /\ table \in [TaskIDs -> Item \cup {NoItem}]
    /\ DOMAIN shown = Cols /\ \A c \in Cols : ColumnType(shown[c])
    /\ pc \in [Gestures -> {"idle", "open", "sent", "loading", "loaded", "done"}]
    /\ gesture \in [Gestures ->
          [kind : {"none", "drag", "toggle", "create", "edit", "delete"},
           task : Entry \cup {NoItem}]]
    /\ body \in [Gestures -> [src : SUBSET Entry, dst : SUBSET Entry]]
    /\ call \in [Gestures -> [{"src", "dst"} -> {"none", "sent", "again", "ok", "failed"}]]
    /\ \A g \in Gestures :
          \/ kept[g] = Nothing
          \/ DOMAIN kept[g] = Cols /\ \A c \in Cols : ColumnType(kept[g][c])
    /\ before \in [TaskIDs -> Item \cup {NoItem}]
    /\ got \in [Gestures -> [TaskIDs -> Item \cup {NoItem}] \cup {Nothing}]
    /\ spinner \in BOOLEAN /\ cookie \in BOOLEAN
    /\ mishaps \subseteq Mishaps

\* Once everything is answered, the board is shown as it is stored, though
\* calls have failed: unless the user did not wait, an answer was lost, a
\* load failed, was not made or found old tasks, the second half of a drag
\* failed before the first was made, or a subtask was checked outside the inbox.
ShowsStored ==
    \A c \in Cols :
        /\ Range(Tasks(c)) = StoredIn(table, c)
        /\ IsInjective(Tasks(c))

QuietShowsStored == Quiet /\ mishaps \subseteq {"numbering"} => ShowsStored

\* However gestures, answers and loads interleave, no task is shown in two
\* places, unless an edit went back to a board that was dragged since.
ShownOnce ==
    "late rollback" \notin mishaps =>
        \A c, d \in Cols : \A i \in DOMAIN Tasks(c), j \in DOMAIN Tasks(d) :
            Tasks(c)[i].ID = Tasks(d)[j].ID /\ Tasks(c)[i].ID \in TaskIDs
                => c = d /\ i = j

\* A drag of a task that has its ID from the service moves that task, also if
\* others are under way or have failed as a whole, and tasks without an ID
\* are about: until a task has been edited or deleted, a subtask checked
\* outside the inbox, one half of a drag refused, an answer lost, an old task
\* loaded, or the board loaded or rolled back after the user did not wait or
\* a load failed (it may then be read between the two calls of another drag).
DragMovesTheDragged ==
    mishaps \subseteq {"overlap", "no load", "no cookie"} =>
        \A g \in Gestures :
            gesture[g].kind = "drag" /\ gesture[g].task.ID \in TaskIDs =>
                \E e \in body[g].dst : e.ID = gesture[g].task.ID

\* The calls change the table only as TaskStore says.
Store == INSTANCE TaskStore
    WITH TeamIDs <- {"team"}, BoardIDs <- {"board"}, NoBoard <- "no board",
         ColNos <- Cols, Contents <- (0 .. MaxOrder) \X Contents,
         table <- [k \in {"team"} \X TaskIDs |->
                     IF table[k[2]] = NoItem THEN NoItem
                     ELSE [BoardID |-> "board", ColNo |-> table[k[2]].ColNo,
                           Content |-> << table[k[2]].Order, table[k[2]].Content >>]]
StoreStepsOnly == [][table' # table => Store!Next]_table

\* The spinner that a failed drag starts, and that covers the board, is on
\* only while a load goes on that will stop it, unless the cookie was gone
\* when the load should have started.
SpinnerStops ==
    spinner => "no cookie" \in mishaps \/ \E g \in Gestures : Loading(g)

(***************************************************************************)
(* What a comment says of the code that the code does not do.              *)
(***************************************************************************)

\* Board.jsx:53 "if errors occur during API calls, an error will be
\* displayed and the state will be reset": when everything is answered the
\* board is shown as it is stored, also if a drag failed, for a user who
\* waits and if no answer is lost and no load fails.
DragErrorResets ==
    Quiet /\ mishaps \subseteq {"split drag", "numbering"} => ShowsStored

=============================================================================
