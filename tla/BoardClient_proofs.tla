------------------------- MODULE BoardClient_proofs -------------------------
(***************************************************************************)
(* The board, for any number of gestures, tasks, columns and contents:     *)
(* every variable keeps its type, so that no column outgrows the orders;   *)
(* the calls change the table as TaskStore says; no task is shown in two   *)
(* places; and the spinner stops.                                          *)
(***************************************************************************)
EXTENDS BoardColumns_proofs

\* How far a gesture can be, what it can be, and how far its calls.
Labels == {"idle", "open", "sent", "loading", "loaded", "done"}
Kinds == {"none", "drag", "toggle", "create", "edit", "delete"}
CallStates == {"none", "sent", "again", "ok", "failed"}

-----------------------------------------------------------------------------
\* Gestures that have changed the board: each may have added one task to a
\* column, so no column is longer than Room.
Started == {h \in Gestures : pc[h] \notin {"idle", "open"}}
Room == Cardinality(TaskIDs) + Cardinality(Started)

BoardFits(board) ==
    /\ DOMAIN board = Cols
    /\ \A c \in Cols : ColumnType(board[c]) /\ Len(board[c].tasks) <= Room

StoreType == table \in Board /\ before \in Board
KeptFits ==
    /\ DOMAIN kept = Gestures
    /\ \A g \in Gestures : kept[g] = Nothing \/ BoardFits(kept[g])
GesturesType ==
    /\ pc \in [Gestures -> Labels]
    /\ gesture \in [Gestures -> [kind : Kinds, task : Entry \cup {NoItem}]]
CallsType ==
    /\ body \in [Gestures -> [src : SUBSET Entry, dst : SUBSET Entry]]
    /\ call \in [Gestures -> [{"src", "dst"} -> CallStates]]
LoadsType == got \in [Gestures -> Board \cup {Nothing}]
FlagsType == spinner \in BOOLEAN /\ cookie \in BOOLEAN /\ mishaps \subseteq Mishaps

\* What a gesture has when it needs it.
Prepared(g) ==
    /\ pc[g] = "sent" /\ gesture[g].kind # "drag" => kept[g] # Nothing
    /\ pc[g] = "loaded" => got[g] \in Board
    /\ pc[g] \in {"idle", "open"} =>
          /\ body[g] = [src |-> {}, dst |-> {}]
          /\ call[g] = [src |-> "none", dst |-> "none"]
    /\ gesture[g].kind \in {"edit", "delete"} => gesture[g].task \in Entry
    /\ gesture[g].kind = "create" =>
          \A e \in body[g].src \cup body[g].dst : e.Content \in Contents

\* What every step keeps.
TypeInv ==
    /\ StoreType /\ BoardFits(shown) /\ KeptFits
    /\ GesturesType /\ CallsType /\ LoadsType /\ FlagsType
    /\ \A g \in Gestures : Prepared(g)

\* It is what TypeOK says, and more.
LEMMA TypeInvOK == TypeInv => TypeOK
BY DEF TypeInv, TypeOK, StoreType, BoardFits, KeptFits, GesturesType, CallsType,
   LoadsType, FlagsType, Board, Labels, Kinds, CallStates

-----------------------------------------------------------------------------
\* The room is a natural number, and orders reach as far.
LEMMA RoomType ==
    /\ IsFiniteSet(Started) /\ Room \in Nat
    /\ Cardinality(TaskIDs) <= Room /\ Room <= MaxOrder
<1>1. Started \in SUBSET Gestures /\ IsFiniteSet(Gestures)
  BY BoardClientAssumption DEF Started
<1>2. IsFiniteSet(Started) /\ Cardinality(Started) <= Cardinality(Gestures)
  BY <1>1, FS_Subset
<1>3. Cardinality(Started) \in Nat
  BY <1>2, FS_CardinalityType
<1>4. QED
  BY <1>2, <1>3, Finite DEF Room, MaxOrder

\* A gesture that starts makes room for one more task.
LEMMA RoomGrows ==
    ASSUME GesturesType, NEW g \in Gestures, pc[g] \in {"idle", "open"},
           Goes(g, "sent")
    PROVE  Room' = Room + 1 /\ Room' <= MaxOrder
<1>1. Started' = Started \cup {g} /\ g \notin Started
  BY DEF GesturesType, Goes, Started
<1>2. Cardinality(Started') = Cardinality(Started) + 1
  BY <1>1, RoomType, FS_AddElement
<1>3. Cardinality(Started) \in Nat
  BY RoomType, FS_CardinalityType
<1>4. Room' = Room + 1
  BY <1>2, <1>3, Finite DEF Room
<1>5. Started' \in SUBSET Gestures /\ IsFiniteSet(Gestures)
  BY <1>1, BoardClientAssumption DEF Started
<1>6. Cardinality(Started') <= Cardinality(Gestures)
  BY <1>5, FS_Subset
<1>7. QED
  BY <1>2, <1>3, <1>4, <1>6, Finite DEF Room, MaxOrder

\* Any other step of a gesture leaves it as it is.
LEMMA RoomStays ==
    ASSUME GesturesType, NEW g \in Gestures, NEW label \in Labels, Goes(g, label),
           pc[g] \in {"idle", "open"} <=> label \in {"idle", "open"}
    PROVE  Room' = Room
<1>1. Started' = Started
  BY DEF GesturesType, Goes, Started
<1>2. QED
  BY <1>1 DEF Room

\* With more room a board still fits.
LEMMA StillFits ==
    ASSUME NEW board, BoardFits(board), Room' \in Nat, Room <= Room'
    PROVE  /\ DOMAIN board = Cols
           /\ \A c \in Cols : ColumnType(board[c]) /\ Len(board[c].tasks) <= Room'
<1>1. Room \in Nat
  BY RoomType
<1>2. \A c \in Cols : Len(board[c].tasks) \in Nat
  BY LenProperties DEF BoardFits, ColumnType
<1>3. QED
  BY <1>1, <1>2 DEF BoardFits

-----------------------------------------------------------------------------
\* What a gesture sends has the types of what is sent.
LEMMA SendsTypes ==
    ASSUME TypeInv, NEW g \in Gestures, pc[g] \in {"idle", "open"},
           NEW kind \in Kinds, NEW task \in Entry \cup {NoItem},
           kind \in {"edit", "delete"} => task \in Entry,
           NEW src \in SUBSET Entry, NEW dst \in SUBSET Entry,
           kind = "create" => \A e \in src \cup dst : e.Content \in Contents,
           Sends(g, kind, task, src, dst),
           kind # "drag" => kept'[g] # Nothing,
           \A h \in Gestures : h # g /\ kept[h] # Nothing => kept'[h] # Nothing
    PROVE  /\ StoreType' /\ GesturesType' /\ CallsType' /\ LoadsType'
           /\ spinner' \in BOOLEAN /\ cookie' \in BOOLEAN
           /\ \A h \in Gestures : Prepared(h)'
<1>1. StoreType' /\ LoadsType' /\ spinner' \in BOOLEAN /\ cookie' \in BOOLEAN
  BY DEF TypeInv, StoreType, LoadsType, FlagsType, Sends, store
<1>2. /\ pc' = [pc EXCEPT ![g] = "sent"]
      /\ gesture' = [gesture EXCEPT ![g] = [kind |-> kind, task |-> task]]
      /\ body' = [body EXCEPT ![g] = [src |-> src, dst |-> dst]]
      /\ call' = [call EXCEPT ![g] = [src |-> IF src = {} THEN "none" ELSE "sent",
                                      dst |-> "sent"]]
      /\ got' = got
  BY DEF Sends, Goes
<1>3. GesturesType'
  BY <1>2 DEF TypeInv, GesturesType, Labels
<1>4. [src |-> IF src = {} THEN "none" ELSE "sent", dst |-> "sent"]
         \in [{"src", "dst"} -> CallStates]
  BY DEF CallStates
<1>5. CallsType'
  BY <1>2, <1>4 DEF TypeInv, CallsType
<1>6. ASSUME NEW h \in Gestures PROVE Prepared(h)'
  <2>1. CASE h = g
    BY <1>2, <2>1 DEF TypeInv, Prepared, GesturesType, CallsType
  <2>2. CASE h # g
    <3>1. /\ pc'[h] = pc[h] /\ gesture'[h] = gesture[h] /\ body'[h] = body[h]
          /\ call'[h] = call[h] /\ got'[h] = got[h]
      BY <1>2, <2>2 DEF TypeInv, GesturesType, CallsType
    <3>2. QED
      BY <2>2, <3>1 DEF TypeInv, Prepared
  <2>3. QED
    BY <2>1, <2>2
<1>7. QED
  BY <1>1, <1>3, <1>5, <1>6

\* A column of the board that is shown holds tasks.
LEMMA ShownTasks ==
    ASSUME TypeInv, NEW c \in Cols
    PROVE  /\ Tasks(c) \in Seq(Entry) /\ Len(Tasks(c)) <= Room
           /\ Len(Tasks(c)) \in Nat /\ DOMAIN Tasks(c) = 1 .. Len(Tasks(c))
           /\ Range(Tasks(c)) \subseteq Entry
<1>1. Tasks(c) \in Seq(Entry) /\ Len(Tasks(c)) <= Room
  BY DEF TypeInv, BoardFits, ColumnType, Tasks
<1>2. Len(Tasks(c)) \in Nat /\ DOMAIN Tasks(c) = 1 .. Len(Tasks(c))
  BY <1>1, LenProperties
<1>3. Range(Tasks(c)) \subseteq Entry
  BY <1>1, <1>2, ElementOfSeq DEF Range
<1>4. QED
  BY <1>1, <1>2, <1>3

\* An edit that is shown at once, in one column, fits.
LEMMA OptimisticTypes ==
    ASSUME TypeInv, NEW g \in Gestures, NEW c \in Cols, NEW tasks \in Seq(Entry),
           Len(tasks) <= Room + 1, Optimistically(g, c, tasks), Room' = Room + 1
    PROVE  BoardFits(shown)' /\ KeptFits' /\ kept'[g] # Nothing
           /\ \A h \in Gestures : kept[h] # Nothing => kept'[h] # Nothing
<1>1. Room \in Nat /\ Room' \in Nat /\ Room <= Room'
  BY RoomType
<1>2. kept' = [kept EXCEPT ![g] = shown]
      /\ shown' = [shown EXCEPT ![c] = Column(<< g, "edit" >>, tasks)]
  BY DEF Optimistically
<1>3. BoardFits(shown) /\ KeptFits
  BY DEF TypeInv
<1>4. DOMAIN shown = Cols /\ \A d \in Cols : ColumnType(shown[d]) /\ Len(shown[d].tasks) <= Room'
  BY <1>1, <1>3, StillFits
<1>5. ColumnType(Column(<< g, "edit" >>, tasks))
      /\ Column(<< g, "edit" >>, tasks).tasks = tasks
  BY DEF ColumnType, Column
<1>6. BoardFits(shown)'
  BY <1>2, <1>4, <1>5 DEF BoardFits
<1>7. shown # Nothing
  BY <1>4, BoardClientAssumption DEF Nothing
<1>8. ASSUME NEW h \in Gestures, kept'[h] # Nothing
      PROVE  /\ DOMAIN kept'[h] = Cols
             /\ \A d \in Cols : ColumnType(kept'[h][d]) /\ Len(kept'[h][d].tasks) <= Room'
  <2>1. CASE h = g
    BY <1>2, <1>3, <1>4, <2>1 DEF KeptFits
  <2>2. CASE h # g
    <3>1. kept'[h] = kept[h] /\ BoardFits(kept[h])
      BY <1>2, <1>3, <1>8, <2>2 DEF KeptFits
    <3>2. QED
      BY <1>1, <3>1, StillFits
  <2>3. QED
    BY <2>1, <2>2
<1>9. KeptFits'
  BY <1>2, <1>3, <1>8 DEF KeptFits, BoardFits
<1>10. QED
  BY <1>2, <1>3, <1>6, <1>7, <1>9 DEF KeptFits

\* A drag of a task from column s to place n of column d, taken apart.
At(dragged) == dragged.Order + 1
Dragged(s, at) == IF at <= Len(Tasks(s)) THEN Tasks(s)[at] ELSE Undefined
Onto(s, d, at) == IF s = d THEN Popped(Tasks(s), at) ELSE Tasks(d)
InPlace(s, d, at, n, c) ==
    IF c = d THEN InsertAt(Onto(s, d, at), n, Dragged(s, at)) ELSE Popped(Tasks(s), at)
Moves(g, s, d, dragged, n) ==
    LET inPlace(c) == InPlace(s, d, At(dragged), n, c)
    IN  /\ shown' = [c \in Cols |->
              IF c \in {s, d} THEN Column(<< g, "edit" >>, Numbered(inPlace(c), c))
                              ELSE shown[c]]
        /\ kept' = [h \in Gestures |-> [c \in DOMAIN kept[h] |->
              IF c \in {s, d} /\ kept[h][c].by = shown[c].by
              THEN Column(shown[c].by, inPlace(c))
              ELSE kept[h][c]]]
        /\ Sends(g, "drag", dragged,
                 IF s = d THEN {} ELSE Range(Numbered(inPlace(s), s)),
                 Range(Numbered(inPlace(d), d)))

\* Every drag is one of these.
LEMMA DragParts ==
    ASSUME NEW g, Drag(g)
    PROVE  /\ MayAct(g) /\ Notes(Overlap)
           /\ \E s, d \in Cols : \E dragged \in Range(Tasks(s)) :
                 \E n \in 1 .. Len(Onto(s, d, At(dragged))) + 1 : Moves(g, s, d, dragged, n)
<1>1. MayAct(g) /\ Notes(Overlap)
  BY DEF Drag
<1>2. \E s, d \in Cols : \E dragged \in Range(Tasks(s)) :
         \E n \in 1 .. Len(Onto(s, d, At(dragged))) + 1 : Moves(g, s, d, dragged, n)
  BY DEF Drag, Moves, InPlace, Onto, Dragged, At
<1>3. QED
  BY <1>1, <1>2

\* The columns that it makes have tasks, and one more at most.
LEMMA DragPlaces ==
    ASSUME TypeInv, Room + 1 <= MaxOrder, NEW s \in Cols, NEW d \in Cols,
           NEW dragged \in Range(Tasks(s)),
           NEW n \in 1 .. Len(Onto(s, d, At(dragged))) + 1, NEW c \in {s, d}
    PROVE  LET column == InPlace(s, d, At(dragged), n, c)
               new == Numbered(column, c)
           IN  /\ column \in Seq(Entry) /\ Len(column) <= Room + 1
               /\ new \in Seq(Entry) /\ Len(new) = Len(column)
               /\ Range(new) \subseteq Entry
<1> DEFINE at == At(dragged)
<1>1. Room \in Nat /\ MaxOrder \in Nat
  BY RoomType, Finite
<1>2. dragged \in Entry /\ at \in Nat \ {0}
  <2>1. dragged \in Entry
    BY ShownTasks
  <2>2. QED
    BY <1>1, <2>1 DEF Entry, At
<1>3. Undefined \in Entry
  BY <1>1, BoardClientAssumption DEF Undefined, Entry
<1> HIDE DEF at
<1>4. Dragged(s, at) \in Entry
  BY <1>2, <1>3, ShownTasks, ElementOfSeq DEF Dragged
<1>5. Popped(Tasks(s), at) \in Seq(Entry) /\ Len(Popped(Tasks(s), at)) <= Room
      /\ Len(Popped(Tasks(s), at)) \in Nat
  BY <1>1, <1>2, ShownTasks, PoppedPlaces
<1>6. Onto(s, d, at) \in Seq(Entry) /\ Len(Onto(s, d, at)) <= Room
      /\ Len(Onto(s, d, at)) \in Nat
  BY <1>5, ShownTasks DEF Onto
<1>7. n \in 1 .. Len(Onto(s, d, at)) + 1
  BY DEF at
<1>8. /\ InsertAt(Onto(s, d, at), n, Dragged(s, at)) \in Seq(Entry)
      /\ Len(InsertAt(Onto(s, d, at), n, Dragged(s, at))) = Len(Onto(s, d, at)) + 1
  <2> DEFINE tasks == Onto(s, d, at)
             e == Dragged(s, at)
  <2>1. tasks \in Seq(Entry) /\ e \in Entry /\ n \in 1 .. Len(tasks) + 1
    BY <1>4, <1>6, <1>7
  <2> HIDE DEF tasks, e
  <2>2. InsertAt(tasks, n, e) \in Seq(Entry) /\ Len(InsertAt(tasks, n, e)) = Len(tasks) + 1
    BY <2>1, InsertedPlaces
  <2>3. QED
    BY <2>2 DEF tasks, e
<1> DEFINE column == InPlace(s, d, at, n, c)
           new == Numbered(column, c)
<1>9. column \in Seq(Entry) /\ Len(column) <= Room + 1 /\ Len(column) \in Nat
  BY <1>1, <1>5, <1>6, <1>8 DEF InPlace
<1> HIDE DEF column
<1>10. new \in Seq(Entry) /\ Len(new) = Len(column)
  <2>1. Len(column) <= MaxOrder + 1
    BY <1>1, <1>9
  <2>2. QED
    BY <1>9, <2>1, NumberedPlaces
<1> HIDE DEF new
<1>11. Range(new) \subseteq Entry
  BY <1>10, LenProperties, ElementOfSeq DEF Range
<1>12. QED
  BY <1>9, <1>10, <1>11 DEF column, new, at

\* A function of nothing is nothing.
LEMMA NoColumns ==
    ASSUME NEW k, DOMAIN k = {}, k = [c \in DOMAIN k |-> k[c]]
    PROVE  k = Nothing
BY DEF Nothing

\* A drag keeps the types.
LEMMA DragTypes ==
    ASSUME TypeInv, NEW g \in Gestures, Drag(g)
    PROVE  TypeInv'
<1>1. /\ pc[g] \in {"idle", "open"} /\ Room \in Nat
      /\ GesturesType /\ KeptFits /\ BoardFits(shown)
  BY RoomType DEF Drag, MayAct, TypeInv
<1>2. PICK s \in Cols, d \in Cols : \E dragged \in Range(Tasks(s)) :
         \E n \in 1 .. Len(Onto(s, d, At(dragged))) + 1 : Moves(g, s, d, dragged, n)
  BY DragParts
<1>3. PICK dragged \in Range(Tasks(s)) :
         \E n \in 1 .. Len(Onto(s, d, At(dragged))) + 1 : Moves(g, s, d, dragged, n)
  BY <1>2
<1>4. PICK n \in 1 .. Len(Onto(s, d, At(dragged))) + 1 : Moves(g, s, d, dragged, n)
  BY <1>3
<1> DEFINE inPlace(c) == InPlace(s, d, At(dragged), n, c)
           maker == << g, "edit" >>
           src == IF s = d THEN {} ELSE Range(Numbered(inPlace(s), s))
           dst == Range(Numbered(inPlace(d), d))
<1>5. Sends(g, "drag", dragged, src, dst)
  BY <1>4 DEF Moves
<1>6. Room' = Room + 1 /\ Room' <= MaxOrder
  BY <1>1, <1>5, RoomGrows DEF Sends
<1>7. Room + 1 <= MaxOrder
  BY <1>6
<1>8. /\ \A c \in {s, d} : /\ inPlace(c) \in Seq(Entry) /\ Len(inPlace(c)) <= Room'
                           /\ Numbered(inPlace(c), c) \in Seq(Entry)
                           /\ Len(Numbered(inPlace(c), c)) <= Room'
      /\ src \subseteq Entry /\ dst \subseteq Entry /\ dragged \in Entry
  <2>1. dragged \in Entry
    BY ShownTasks
  <2>2. ASSUME NEW c \in {s, d}
        PROVE  /\ inPlace(c) \in Seq(Entry) /\ Len(inPlace(c)) <= Room'
               /\ Numbered(inPlace(c), c) \in Seq(Entry)
               /\ Len(Numbered(inPlace(c), c)) <= Room'
               /\ Range(Numbered(inPlace(c), c)) \subseteq Entry
    BY <1>6, <1>7, DragPlaces
  <2>3. QED
    BY <2>1, <2>2
<1>9. \A c \in {s, d} : shown'[c] = Column(maker, Numbered(inPlace(c), c))
  BY <1>4 DEF Moves
<1>10. \A c \in Cols \ {s, d} : shown'[c] = shown[c]
  BY <1>4 DEF Moves
<1>11. DOMAIN shown' = Cols
  BY <1>4 DEF Moves
<1>12. \A h \in Gestures : kept'[h] = [c \in DOMAIN kept[h] |->
                          IF c \in {s, d} /\ kept[h][c].by = shown[c].by
                          THEN Column(shown[c].by, inPlace(c))
                          ELSE kept[h][c]]
  BY <1>4 DEF Moves
<1>13. DOMAIN kept' = Gestures
  BY <1>4 DEF Moves
<1>14. Room' \in Nat /\ Room <= Room'
  BY <1>1, <1>6
<1> HIDE DEF inPlace, src, dst, maker
<1>15. BoardFits(shown)'
  <2>1. ASSUME NEW c \in Cols PROVE ColumnType(shown'[c]) /\ Len(shown'[c].tasks) <= Room'
    <3>1. CASE c \in {s, d}
      <4>1. shown'[c] = Column(maker, Numbered(inPlace(c), c))
        BY <1>9, <3>1
      <4>2. Numbered(inPlace(c), c) \in Seq(Entry) /\ Len(Numbered(inPlace(c), c)) <= Room'
        BY <1>8, <3>1
      <4>3. maker \in Gestures \X {"edit", "load"}
        BY DEF maker
      <4>4. QED
        BY <4>1, <4>2, <4>3 DEF ColumnType, Column
    <3>2. CASE c \notin {s, d}
      BY <1>1, <1>10, <1>14, <3>2, StillFits
    <3>3. QED
      BY <3>1, <3>2
  <2>2. QED
    BY <1>11, <2>1 DEF BoardFits
<1>16. ASSUME NEW h \in Gestures, kept[h] # Nothing
       PROVE  BoardFits(kept[h])' /\ kept'[h] # Nothing
  <2>1. BoardFits(kept[h])
    BY <1>1, <1>16 DEF KeptFits
  <2>2. DOMAIN kept[h] = Cols /\ \A c \in Cols : ColumnType(kept[h][c]) /\ Len(kept[h][c].tasks) <= Room'
    BY <1>14, <2>1, StillFits
  <2>3. DOMAIN kept'[h] = Cols
    BY <1>12, <2>2
  <2>4. ASSUME NEW c \in Cols PROVE ColumnType(kept'[h][c]) /\ Len(kept'[h][c].tasks) <= Room'
    <3>1. CASE c \in {s, d} /\ kept[h][c].by = shown[c].by
      <4>1. kept'[h][c] = Column(shown[c].by, inPlace(c))
        BY <1>12, <2>2, <3>1
      <4>2. inPlace(c) \in Seq(Entry) /\ Len(inPlace(c)) <= Room'
        BY <1>8, <3>1
      <4>3. QED
        BY <1>1, <4>1, <4>2 DEF ColumnType, Column, BoardFits
    <3>2. CASE ~(c \in {s, d} /\ kept[h][c].by = shown[c].by)
      <4>1. kept'[h][c] = kept[h][c]
        BY <1>12, <2>2, <3>2
      <4>2. QED
        BY <2>2, <4>1
    <3>3. QED
      BY <3>1, <3>2
  <2>5. kept'[h] # Nothing
    BY <2>3, BoardClientAssumption DEF Nothing
  <2>6. QED
    BY <2>3, <2>4, <2>5 DEF BoardFits
<1>17. KeptFits'
  <2>1. ASSUME NEW h \in Gestures, kept[h] = Nothing PROVE kept'[h] = Nothing
    <3>1. DOMAIN kept[h] = {}
      BY <2>1 DEF Nothing
    <3>2. DOMAIN kept'[h] = {}
      BY <1>12, <3>1
    <3>3. kept'[h] = [c \in DOMAIN kept'[h] |-> kept'[h][c]]
      BY <1>12
    <3>4. QED
      BY <3>2, <3>3, NoColumns
  <2>2. QED
    BY <1>13, <1>16, <2>1 DEF KeptFits
<1>18. /\ StoreType' /\ GesturesType' /\ CallsType' /\ LoadsType'
       /\ spinner' \in BOOLEAN /\ cookie' \in BOOLEAN
       /\ \A h \in Gestures : Prepared(h)'
  BY <1>1, <1>5, <1>8, <1>16, SendsTypes DEF Kinds
<1>19. mishaps' \subseteq Mishaps
  BY DEF Drag, Notes, Overlap, When, Mishaps, TypeInv, FlagsType
<1>20. QED
  BY <1>15, <1>17, <1>18, <1>19 DEF TypeInv, FlagsType

\* Checking a subtask changes the content of tasks of a column, in place.
LEMMA ToggleTypes ==
    ASSUME TypeInv, NEW g \in Gestures, Toggle(g)
    PROVE  TypeInv'
<1>0. PICK c \in Cols : \E task \in Range(Tasks(c)), content \in Contents :
         LET tasks == Tasks(task.ColNo)
         IN  /\ Optimistically(g, task.ColNo,
                   [i \in DOMAIN tasks |-> IF i \in WithID(task.ID, tasks)
                        THEN [tasks[i] EXCEPT !.Content = content] ELSE tasks[i]])
             /\ Sends(g, "toggle", task, {},
                      {[task EXCEPT !.ColNo = 0, !.Content = content]})
             /\ Notes(Overlap \cup When(task.ColNo # 0, "toggle"))
  BY DEF Toggle
<1>1. PICK task \in Range(Tasks(c)), content \in Contents :
         LET tasks == Tasks(task.ColNo)
         IN  /\ Optimistically(g, task.ColNo,
                   [i \in DOMAIN tasks |-> IF i \in WithID(task.ID, tasks)
                        THEN [tasks[i] EXCEPT !.Content = content] ELSE tasks[i]])
             /\ Sends(g, "toggle", task, {},
                      {[task EXCEPT !.ColNo = 0, !.Content = content]})
             /\ Notes(Overlap \cup When(task.ColNo # 0, "toggle"))
  BY <1>0
<1> DEFINE tasks == Tasks(task.ColNo)
           new == [i \in DOMAIN tasks |-> IF i \in WithID(task.ID, tasks)
                        THEN [tasks[i] EXCEPT !.Content = content] ELSE tasks[i]]
           sent == [task EXCEPT !.ColNo = 0, !.Content = content]
<1>2. task \in Entry /\ task.ColNo \in Cols
  BY ShownTasks DEF Entry
<1>3. tasks \in Seq(Entry) /\ Len(tasks) <= Room /\ DOMAIN tasks = 1 .. Len(tasks)
      /\ Len(tasks) \in Nat
  BY <1>2, ShownTasks
<1>4. sent \in Entry
  BY <1>2, BoardClientAssumption DEF Entry
<1> HIDE DEF tasks
<1>5. new \in Seq(Entry) /\ Len(new) = Len(tasks)
  <2>1. ASSUME NEW e \in Entry PROVE [e EXCEPT !.Content = content] \in Entry
    BY BoardClientAssumption DEF Entry
  <2>2. new \in [1 .. Len(tasks) -> Entry]
    BY <1>3, <2>1, ElementOfSeq
  <2> HIDE DEF new
  <2>3. QED
    BY <1>3, <2>2, IsASeq, LenProperties
<1>6. Optimistically(g, task.ColNo, new) /\ Sends(g, "toggle", task, {}, {sent})
  BY <1>1 DEF tasks
<1> HIDE DEF new, sent
<1>7. pc[g] \in {"idle", "open"} /\ GesturesType /\ Room \in Nat
  BY RoomType DEF TypeInv, Toggle, MayAct
<1>8. Room' = Room + 1
  BY <1>6, <1>7, RoomGrows DEF Sends
<1>9. BoardFits(shown)' /\ KeptFits' /\ kept'[g] # Nothing
      /\ \A h \in Gestures : kept[h] # Nothing => kept'[h] # Nothing
  <2>1. Len(new) <= Room + 1
    BY <1>3, <1>5, <1>7
  <2>2. QED
    BY <1>2, <1>5, <1>6, <1>8, <2>1, OptimisticTypes
<1>10. /\ StoreType' /\ GesturesType' /\ CallsType' /\ LoadsType'
       /\ spinner' \in BOOLEAN /\ cookie' \in BOOLEAN
       /\ \A h \in Gestures : Prepared(h)'
  BY <1>2, <1>4, <1>6, <1>7, <1>9, SendsTypes DEF Kinds
<1>11. mishaps' \subseteq Mishaps
  BY <1>1 DEF Notes, Overlap, When, Mishaps, TypeInv, FlagsType
<1>12. QED
  BY <1>9, <1>10, <1>11 DEF TypeInv, FlagsType

\* A gesture that moves, and leaves the columns, keeps their types.
LEMMA ColumnsStay ==
    ASSUME TypeInv, NEW g \in Gestures, NEW label \in Labels, Goes(g, label),
           pc[g] \in {"idle", "open"} <=> label \in {"idle", "open"},
           UNCHANGED << shown, kept >>
    PROVE  BoardFits(shown)' /\ KeptFits'
<1>1. Room' = Room
  BY RoomStays DEF TypeInv
<1>2. QED
  BY <1>1 DEF TypeInv, BoardFits, KeptFits

\* A window opens on a task of the board.
LEMMA OpensTypes ==
    ASSUME TypeInv, NEW g \in Gestures, Opens(g)
    PROVE  TypeInv'
<1>1. /\ pc' = [pc EXCEPT ![g] = "open"] /\ pc[g] = "idle"
      /\ UNCHANGED << store, shown, calls, kept, got, spinner, cookie >>
  BY DEF Opens, Goes, MayAct
<1>2. /\ StoreType' /\ CallsType' /\ LoadsType' /\ FlagsType'
  BY <1>1 DEF Opens, TypeInv, StoreType, CallsType, LoadsType, FlagsType, store, calls,
     Notes, Overlap, When, Mishaps
<1>3. BoardFits(shown)' /\ KeptFits'
  BY <1>1, ColumnsStay DEF Labels, Goes
<1>4. \E kind \in {"create", "edit", "delete"}, task \in Entry \cup {NoItem} :
         /\ gesture' = [gesture EXCEPT ![g] = [kind |-> kind, task |-> task]]
         /\ kind # "create" => task \in Entry
  <2>1. CASE gesture' = [gesture EXCEPT ![g].kind = "create"]
    <3>1. gesture[g] \in [kind : Kinds, task : Entry \cup {NoItem}]
      BY DEF TypeInv, GesturesType
    <3>2. [gesture[g] EXCEPT !.kind = "create"]
             = [kind |-> "create", task |-> gesture[g].task]
      BY <3>1
    <3>3. QED
      BY <2>1, <3>1, <3>2
  <2>2. ASSUME NEW c \in Cols, NEW t \in Range(Tasks(c)), NEW k \in {"edit", "delete"},
               gesture' = [gesture EXCEPT ![g] = [kind |-> k, task |-> t]]
        PROVE  \E kind \in {"create", "edit", "delete"}, task \in Entry \cup {NoItem} :
                  /\ gesture' = [gesture EXCEPT ![g] = [kind |-> kind, task |-> task]]
                  /\ kind # "create" => task \in Entry
    BY <2>2, ShownTasks
  <2>3. QED
    BY <2>1, <2>2 DEF Opens
<1>5. GesturesType'
  BY <1>1, <1>4 DEF TypeInv, GesturesType, Labels, Kinds
<1>6. ASSUME NEW h \in Gestures PROVE Prepared(h)'
  <2>1. body'[h] = body[h] /\ call'[h] = call[h] /\ kept'[h] = kept[h] /\ got'[h] = got[h]
    BY <1>1 DEF calls
  <2>2. CASE h = g
    <3>1. pc'[h] = "open" /\ (gesture'[h].kind \in {"edit", "delete"} => gesture'[h].task \in Entry)
      BY <1>1, <1>4, <2>2 DEF TypeInv, GesturesType
    <3>2. body[h].src \cup body[h].dst = {} /\ Prepared(h)
      BY <1>1, <2>2 DEF TypeInv, Prepared
    <3>3. QED
      BY <1>1, <2>1, <2>2, <3>1, <3>2 DEF Prepared
  <2>3. CASE h # g
    <3>1. pc'[h] = pc[h] /\ gesture'[h] = gesture[h]
      BY <1>1, <1>4, <2>3 DEF TypeInv, GesturesType
    <3>2. QED
      BY <2>1, <3>1 DEF Prepared, TypeInv
  <2>4. QED
    BY <2>2, <2>3
<1>7. QED
  BY <1>2, <1>3, <1>5, <1>6 DEF TypeInv

\* A new task is shown at the end of the inbox.
LEMMA SubmitsCreateTypes ==
    ASSUME TypeInv, NEW g \in Gestures, SubmitsCreate(g)
    PROVE  TypeInv'
<1>1. PICK content \in Contents :
         LET new(order) == [ID |-> NoID, ColNo |-> 0, Order |-> order,
                            Content |-> content]
             length == Len(Tasks(0))
         IN  /\ Optimistically(g, 0, Append(Tasks(0), new(length + 1)))
             /\ Sends(g, "create", NoItem, {}, {new(length)})
  BY DEF SubmitsCreate
<1> DEFINE length == Len(Tasks(0))
           new(order) == [ID |-> NoID, ColNo |-> 0, Order |-> order,
                          Content |-> content]
           tasks == Append(Tasks(0), new(length + 1))
<1>2. pc[g] \in {"idle", "open"} /\ GesturesType /\ Room \in Nat
  BY RoomType DEF TypeInv, SubmitsCreate, Submitting
<1>3. Room' = Room + 1 /\ Room' <= MaxOrder
  BY <1>1, <1>2, RoomGrows DEF Sends
<1>4. /\ 0 \in Cols /\ Tasks(0) \in Seq(Entry) /\ length \in Nat /\ length <= Room
  BY ShownTasks, BoardClientAssumption
<1>5. ASSUME NEW order \in 0 .. MaxOrder PROVE new(order) \in Entry
  BY <1>4, BoardClientAssumption DEF Entry
<1>6. length \in 0 .. MaxOrder /\ length + 1 \in 0 .. MaxOrder
  BY <1>2, <1>3, <1>4, Finite
<1>7. Optimistically(g, 0, tasks) /\ Sends(g, "create", NoItem, {}, {new(length)})
  BY <1>1
<1>8. new(length) \in Entry /\ new(length + 1) \in Entry
      /\ \A e \in {} \cup {new(length)} : e.Content \in Contents
  BY <1>5, <1>6
<1> HIDE DEF length, new
<1>9. tasks \in Seq(Entry) /\ Len(tasks) <= Room + 1
  BY <1>2, <1>4, <1>8, AppendProperties DEF length
<1> HIDE DEF tasks
<1>10. BoardFits(shown)' /\ KeptFits' /\ kept'[g] # Nothing
       /\ \A h \in Gestures : kept[h] # Nothing => kept'[h] # Nothing
  BY <1>3, <1>4, <1>7, <1>9, OptimisticTypes
<1>11. /\ StoreType' /\ GesturesType' /\ CallsType' /\ LoadsType'
       /\ spinner' \in BOOLEAN /\ cookie' \in BOOLEAN
       /\ \A h \in Gestures : Prepared(h)'
  BY <1>2, <1>7, <1>8, <1>10, SendsTypes DEF Kinds
<1>12. mishaps' \subseteq Mishaps
  BY DEF SubmitsCreate, TypeInv, FlagsType
<1>13. QED
  BY <1>10, <1>11, <1>12 DEF TypeInv, FlagsType

\* An edit keeps the board that is shown, and leaves it.
LEMMA SubmitsEditTypes ==
    ASSUME TypeInv, NEW g \in Gestures, SubmitsEdit(g)
    PROVE  TypeInv'
<1> DEFINE task == gesture[g].task
<1>1. PICK content \in Contents :
         Sends(g, "edit", task, {}, {[task EXCEPT !.Order = 0, !.Content = content]})
  BY DEF SubmitsEdit
<1> DEFINE sent == [task EXCEPT !.Order = 0, !.Content = content]
<1>2. /\ pc[g] \in {"idle", "open"} /\ GesturesType /\ KeptFits /\ BoardFits(shown)
      /\ Room \in Nat /\ task \in Entry
      /\ kept' = [kept EXCEPT ![g] = shown] /\ shown' = shown
  BY RoomType DEF TypeInv, SubmitsEdit, Submitting, Prepared
<1>3. Room' = Room + 1
  BY <1>1, <1>2, RoomGrows DEF Sends
<1>4. sent \in Entry
  <2>1. ASSUME NEW e \in Entry PROVE [e EXCEPT !.Order = 0, !.Content = content] \in Entry
    <3>1. 0 \in 0 .. MaxOrder /\ content # NoContent
      BY Finite, BoardClientAssumption
    <3>2. QED
      BY <3>1 DEF Entry
  <2>2. QED
    BY <1>2, <2>1
<1> HIDE DEF sent
<1>5. BoardFits(shown)' /\ shown # Nothing
  <2>1. Room' \in Nat /\ Room <= Room'
    BY <1>2, <1>3
  <2>2. QED
    BY <1>2, <2>1, StillFits, BoardClientAssumption DEF BoardFits, Nothing
<1>6. ASSUME NEW h \in Gestures, kept'[h] # Nothing PROVE BoardFits(kept[h])'
  <2>1. CASE h = g
    <3>1. kept'[h] = shown'
      BY <1>2, <2>1 DEF KeptFits
    <3>2. QED
      BY <1>5, <3>1 DEF BoardFits
  <2>2. CASE h # g
    <3>1. kept'[h] = kept[h] /\ BoardFits(kept[h])
      BY <1>2, <1>6, <2>2 DEF KeptFits
    <3>2. Room' \in Nat /\ Room <= Room'
      BY <1>2, <1>3
    <3>3. QED
      BY <3>1, <3>2, StillFits DEF BoardFits
  <2>3. QED
    BY <2>1, <2>2
<1>7. KeptFits'
  BY <1>2, <1>6 DEF KeptFits
<1>8. \A h \in Gestures : kept[h] # Nothing \/ h = g => kept'[h] # Nothing
  BY <1>2, <1>5 DEF KeptFits
<1>9. /\ StoreType' /\ GesturesType' /\ CallsType' /\ LoadsType'
      /\ spinner' \in BOOLEAN /\ cookie' \in BOOLEAN
      /\ \A h \in Gestures : Prepared(h)'
  BY <1>1, <1>2, <1>4, <1>8, SendsTypes DEF Kinds, sent
<1>10. mishaps' \subseteq Mishaps
  BY DEF SubmitsEdit, Notes, Mishaps, TypeInv, FlagsType
<1>11. QED
  BY <1>5, <1>7, <1>9, <1>10 DEF TypeInv, FlagsType

\* What is left of a column, without a task, fits.
LEMMA SubmitsDeleteTypes ==
    ASSUME TypeInv, NEW g \in Gestures, SubmitsDelete(g)
    PROVE  TypeInv'
<1> DEFINE task == gesture[g].task
           tasks == Without(task.ID, Tasks(task.ColNo))
<1>1. /\ Optimistically(g, task.ColNo, tasks)
      /\ Sends(g, "delete", task, {}, {task})
  BY DEF SubmitsDelete
<1>2. /\ pc[g] \in {"idle", "open"} /\ GesturesType /\ Room \in Nat
      /\ task \in Entry /\ task.ColNo \in Cols
  BY RoomType DEF TypeInv, SubmitsDelete, Submitting, Prepared, Entry
<1>3. Room' = Room + 1
  BY <1>1, <1>2, RoomGrows DEF Sends
<1>4. tasks \in Seq(Entry) /\ Len(tasks) <= Room + 1
  <2>1. Tasks(task.ColNo) \in Seq(Entry) /\ Len(Tasks(task.ColNo)) <= Room
        /\ Len(Tasks(task.ColNo)) \in Nat
    BY <1>2, ShownTasks
  <2>2. tasks \in Seq(Entry) /\ Len(tasks) <= Len(Tasks(task.ColNo))
    BY <2>1, WithoutPlaces
  <2> HIDE DEF tasks
  <2>3. Len(tasks) \in Nat
    BY <2>2, LenProperties
  <2>4. QED
    BY <1>2, <2>1, <2>2, <2>3
<1> HIDE DEF tasks
<1>5. BoardFits(shown)' /\ KeptFits' /\ kept'[g] # Nothing
      /\ \A h \in Gestures : kept[h] # Nothing => kept'[h] # Nothing
  BY <1>1, <1>2, <1>3, <1>4, OptimisticTypes
<1>6. /\ StoreType' /\ GesturesType' /\ CallsType' /\ LoadsType'
      /\ spinner' \in BOOLEAN /\ cookie' \in BOOLEAN
      /\ \A h \in Gestures : Prepared(h)'
  BY <1>1, <1>2, <1>5, SendsTypes DEF Kinds
<1>7. mishaps' \subseteq Mishaps
  BY DEF SubmitsDelete, Notes, Mishaps, TypeInv, FlagsType
<1>8. QED
  BY <1>5, <1>6, <1>7 DEF TypeInv, FlagsType

-----------------------------------------------------------------------------
\* A change of the service stores tasks, in the columns that there are.
LEMMA StoresTypes ==
    ASSUME TypeInv, NEW g \in Gestures, NEW way \in {"src", "dst"}, Stores(g, way)
    PROVE  StoreType'
<1> DEFINE tasks == body[g][way]
<1>1. table \in Board /\ before \in Board /\ tasks \subseteq Entry /\ Prepared(g)
      /\ (gesture[g].kind = "create" => \A e \in tasks : e.Content \in Contents)
      /\ body[g] \in [src : SUBSET Entry, dst : SUBSET Entry]
  BY DEF TypeInv, StoreType, CallsType, Prepared
<1>2. ASSUME NEW e \in Entry, e.Content \in Contents PROVE ItemOf(e) \in Item
  BY <1>2 DEF Entry, Item, ItemOf
<1>3. ASSUME NEW e \in Entry, e.ID \in TaskIDs PROVE e.Content \in Contents
  BY <1>3, BoardClientAssumption DEF Entry
<1>4. table' \in Board
  <2>1. CASE gesture[g].kind = "create"
    <3>1. PICK id \in TaskIDs, e \in tasks :
             table[id] = NoItem /\ table' = [table EXCEPT ![id] = ItemOf(e)]
      BY <2>1 DEF Stores, Changes
    <3>2. e \in Entry /\ ItemOf(e) \in Item
      BY <1>1, <1>2, <2>1, <3>1
    <3>3. QED
      BY <1>1, <3>1, <3>2 DEF Board
  <2>2. CASE gesture[g].kind = "delete"
    BY <1>1, <2>2 DEF Stores, Changes, Board
  <2>3. CASE gesture[g].kind \notin {"create", "delete"}
    <3>1. Valid(tasks) /\ Puts(tasks)
      BY <2>3 DEF Stores, Changes
    <3>2. ASSUME NEW id \in TaskIDs, \E e \in tasks : e.ID = id
          PROVE  ItemOf(CHOOSE e \in tasks : e.ID = id) \in Item
      <4>1. PICK f : f = CHOOSE e \in tasks : e.ID = id
        OBVIOUS
      <4>2. f \in tasks /\ f.ID = id
        BY <3>2, <4>1
      <4>3. f \in Entry /\ f.ID \in TaskIDs
        BY <1>1, <3>1, <4>2 DEF Valid
      <4>4. QED
        BY <1>2, <1>3, <4>1, <4>3
    <3>3. QED
      BY <1>1, <3>1, <3>2 DEF Puts, Board
  <2>4. QED
    BY <2>1, <2>2, <2>3
<1>5. before' = [id \in TaskIDs |-> IF table'[id] = table[id] THEN before[id] ELSE table[id]]
  BY DEF Stores
<1>6. before' \in Board
  BY <1>1, <1>5 DEF Board
<1>7. QED
  BY <1>4, <1>6 DEF StoreType

\* The service keeps the types.
LEMMA ServiceTypes ==
    ASSUME TypeInv, NEW g \in Gestures, NEW way \in {"src", "dst"},
           Ends(g, way) \/ StoresUnanswered(g, way)
    PROVE  TypeInv'
<1>1. PICK state \in {"ok", "failed", "again"} : Call(g, way, state)
  BY DEF Ends, Answers, Refuses, StoresUnanswered
<1>2. /\ UNCHANGED << shown, pc, gesture, body, kept, got, spinner, cookie >>
      /\ call[g][way] \in {"sent", "again"}
  BY DEF Ends, Answers, Refuses, StoresUnanswered, Pending
<1>3. StoreType'
  BY StoresTypes DEF Ends, Answers, Refuses, StoresUnanswered, TypeInv, StoreType, store
<1>4. mishaps' \subseteq Mishaps
  BY DEF Ends, Answers, Refuses, StoresUnanswered, TypeInv, FlagsType, Notes, When, Mishaps
<1>5. call' = [call EXCEPT ![g][way] = state]
  BY <1>1 DEF Call
<1>6. CallsType'
  BY <1>2, <1>5 DEF TypeInv, CallsType, CallStates
<1>7. Room' = Room
  BY <1>2 DEF Room, Started
<1>8. BoardFits(shown)' /\ KeptFits' /\ GesturesType' /\ LoadsType'
      /\ spinner' \in BOOLEAN /\ cookie' \in BOOLEAN
  BY <1>2, <1>7 DEF TypeInv, BoardFits, KeptFits, GesturesType, LoadsType, FlagsType
<1>9. pc[g] \notin {"idle", "open"}
  BY <1>2 DEF TypeInv, Prepared
<1>10. ASSUME NEW h \in Gestures PROVE Prepared(h)'
  <2>1. h # g => call'[h] = call[h]
    BY <1>5 DEF TypeInv, CallsType
  <2>2. QED
    BY <1>2, <1>9, <2>1 DEF TypeInv, Prepared
<1>11. QED
  BY <1>3, <1>4, <1>6, <1>8, <1>10 DEF TypeInv, FlagsType

-----------------------------------------------------------------------------
\* What is left of a gesture that has its answer has its type.
LEMMA TakenTypes ==
    ASSUME TypeInv, NEW g \in Gestures, NEW label \in {"loading", "done"},
           pc[g] = "sent", Goes(g, label), Taken(g), UNCHANGED got,
           \A h \in Gestures : h # g => kept'[h] = kept[h]
    PROVE  GesturesType' /\ CallsType' /\ \A h \in Gestures : Prepared(h)'
<1>1. pc' = [pc EXCEPT ![g] = label] /\ got' = got
  BY DEF Goes
<1>2. CallsType /\ GesturesType /\ Prepared(g)
  BY DEF TypeInv
<1>3. /\ body'[g].src \cup body'[g].dst \subseteq body[g].src \cup body[g].dst
      /\ gesture'[g] \in {gesture[g], NoGesture}
      /\ CallsType' /\ GesturesType'
      /\ \A h \in Gestures : h # g => /\ body'[h] = body[h] /\ call'[h] = call[h]
                                      /\ gesture'[h] = gesture[h]
  <2>0. GesturesType' \/ gesture' \notin [Gestures -> [kind : Kinds, task : Entry \cup {NoItem}]]
    BY <1>1, <1>2 DEF GesturesType, Labels
  <2>1. CASE Pending(g, "src")
    <3>1. /\ call' = [call EXCEPT ![g].dst = "none"]
          /\ body' = [body EXCEPT ![g].dst = {}]
          /\ gesture' = gesture
      BY <2>1 DEF Taken
    <3>2. GesturesType'
      BY <1>2, <2>0, <3>1 DEF GesturesType
    <3>3. call' \in [Gestures -> [{"src", "dst"} -> CallStates]]
      BY <1>2, <3>1 DEF CallsType, CallStates
    <3>4. body' \in [Gestures -> [src : SUBSET Entry, dst : SUBSET Entry]]
      BY <1>2, <3>1 DEF CallsType
    <3>5. body'[g].src = body[g].src /\ body'[g].dst = {}
      BY <1>2, <3>1 DEF CallsType
    <3>6. \A h \in Gestures : h # g => body'[h] = body[h] /\ call'[h] = call[h]
      BY <1>2, <3>1 DEF CallsType
    <3>7. QED
      BY <3>1, <3>2, <3>3, <3>4, <3>5, <3>6 DEF CallsType
  <2>2. CASE ~Pending(g, "src")
    <3>0. [src |-> "none", dst |-> "none"] \in [{"src", "dst"} -> CallStates]
      BY DEF CallStates
    <3>1. /\ call' = [call EXCEPT ![g] = [src |-> "none", dst |-> "none"]]
          /\ body' = [body EXCEPT ![g] = [src |-> {}, dst |-> {}]]
          /\ gesture' = [gesture EXCEPT ![g] = NoGesture]
      BY <2>2 DEF Taken
    <3>2. GesturesType'
      BY <1>2, <2>0, <3>1 DEF GesturesType, NoGesture, Kinds
    <3>3. CallsType'
      BY <1>2, <3>0, <3>1 DEF CallsType
    <3>4. QED
      BY <1>2, <3>1, <3>2, <3>3 DEF CallsType, GesturesType
  <2>3. QED
    BY <2>1, <2>2
<1>4. Prepared(g)'
  BY <1>1, <1>2, <1>3 DEF Prepared, NoGesture, GesturesType
<1>5. ASSUME NEW h \in Gestures, h # g PROVE Prepared(h)'
  <2>1. /\ pc'[h] = pc[h] /\ gesture'[h] = gesture[h] /\ body'[h] = body[h]
        /\ call'[h] = call[h] /\ kept'[h] = kept[h] /\ got'[h] = got[h]
    BY <1>1, <1>2, <1>3, <1>5 DEF GesturesType
  <2>2. QED
    BY <2>1 DEF TypeInv, Prepared
<1>6. QED
  BY <1>3, <1>4, <1>5

\* A reload starts, or is left out.
LEMMA ReloadsLabel ==
    ASSUME TypeInv, NEW g, NEW happened \in SUBSET Mishaps, Reloads(g, happened)
    PROVE  /\ \E label \in {"loading", "done"} : Goes(g, label)
           /\ mishaps' \subseteq Mishaps
BY DEF Reloads, Notes, When, Mishaps, TypeInv, FlagsType

\* An answer to an edit takes the board back, or is taken.
LEMMA EditAnsweredTypes ==
    ASSUME TypeInv, NEW g \in Gestures, EditAnswered(g)
    PROVE  TypeInv'
<1>1. PICK label \in {"loading", "done"} : Goes(g, label)
  BY ReloadsLabel DEF EditAnswered
<1>2. mishaps' \subseteq Mishaps
  BY ReloadsLabel DEF EditAnswered, Notes, When, Mishaps, TypeInv, FlagsType
<1>3. /\ kept' = [kept EXCEPT ![g] = Nothing] /\ pc[g] = "sent" /\ kept[g] # Nothing
      /\ Taken(g) /\ UNCHANGED << store, got, spinner, cookie >>
      /\ shown' \in {shown, kept[g]}
      /\ GesturesType /\ KeptFits /\ BoardFits(shown)
  BY DEF EditAnswered, TypeInv, Prepared
<1>4. Room' = Room
  BY <1>1, <1>3, RoomStays DEF Labels
<1>5. BoardFits(shown)' /\ KeptFits'
  BY <1>3, <1>4 DEF BoardFits, KeptFits
<1>6. GesturesType' /\ CallsType' /\ \A h \in Gestures : Prepared(h)'
  <2>1. \A h \in Gestures : h # g => kept'[h] = kept[h]
    BY <1>3 DEF KeptFits
  <2>2. QED
    BY <1>1, <1>3, <2>1, TakenTypes
<1>7. StoreType' /\ LoadsType' /\ spinner' \in BOOLEAN /\ cookie' \in BOOLEAN
  BY <1>3 DEF TypeInv, StoreType, LoadsType, FlagsType, store
<1>8. QED
  BY <1>2, <1>5, <1>6, <1>7 DEF TypeInv, FlagsType

\* The answers to a drag are taken, and the board is loaded.
LEMMA DragAnsweredTypes ==
    ASSUME TypeInv, NEW g \in Gestures, DragAnswered(g)
    PROVE  TypeInv'
<1>1. Reloads(g, When(call[g].dst = "failed" /\ Pending(g, "src"), "split drag"))
  BY DEF DragAnswered
<1>2. (\E label \in {"loading", "done"} : Goes(g, label)) /\ mishaps' \subseteq Mishaps
  BY <1>1, ReloadsLabel DEF When, Mishaps
<1>3. PICK label \in {"loading", "done"} : Goes(g, label)
  BY <1>2
<1>4. /\ pc[g] = "sent" /\ Taken(g) /\ UNCHANGED << store, shown, kept, got, cookie >>
      /\ spinner' \in BOOLEAN
  BY DEF DragAnswered, TypeInv, FlagsType
<1>5. BoardFits(shown)' /\ KeptFits'
  BY <1>3, <1>4, ColumnsStay DEF Labels
<1>6. GesturesType' /\ CallsType' /\ \A h \in Gestures : Prepared(h)'
  BY <1>3, <1>4, TakenTypes
<1>7. StoreType' /\ LoadsType' /\ cookie' \in BOOLEAN
  BY <1>4 DEF TypeInv, StoreType, LoadsType, FlagsType, store
<1>8. QED
  BY <1>2, <1>4, <1>5, <1>6, <1>7 DEF TypeInv, FlagsType

\* A load reads a board.
LEMMA LoadReadsTypes ==
    ASSUME TypeInv, NEW g \in Gestures, LoadReads(g)
    PROVE  TypeInv'
<1>1. PICK t \in Board : got' = [got EXCEPT ![g] = t]
  BY DEF LoadReads, TypeInv, StoreType, Board
<1>2. /\ pc' = [pc EXCEPT ![g] = "loaded"] /\ pc[g] = "loading"
      /\ UNCHANGED << store, shown, gesture, body, call, kept, spinner, cookie >>
      /\ mishaps' \subseteq Mishaps
  BY DEF LoadReads, Goes, calls, Notes, When, Mishaps, TypeInv, FlagsType
<1>3. BoardFits(shown)' /\ KeptFits'
  BY <1>2, ColumnsStay DEF Labels, Goes
<1>4. StoreType' /\ GesturesType' /\ CallsType' /\ LoadsType' /\ FlagsType'
  BY <1>1, <1>2 DEF TypeInv, StoreType, GesturesType, CallsType, LoadsType, FlagsType,
     store, Labels
<1>5. ASSUME NEW h \in Gestures PROVE Prepared(h)'
  <2>1. CASE h = g
    BY <1>1, <1>2, <2>1 DEF TypeInv, Prepared, GesturesType, LoadsType
  <2>2. CASE h # g
    BY <1>1, <1>2, <2>2 DEF TypeInv, Prepared, GesturesType, LoadsType
  <2>3. QED
    BY <2>1, <2>2
<1>6. QED
  BY <1>3, <1>4, <1>5 DEF TypeInv

\* A load that ends leaves a board that fits, for it shows what is stored.
LEMMA LoadEndsTypes ==
    ASSUME TypeInv, NEW g \in Gestures, LoadShows(g) \/ LoadFails(g)
    PROVE  TypeInv'
<1>1. /\ pc' = [pc EXCEPT ![g] = "done"] /\ pc[g] \in {"loading", "loaded"}
      /\ got' = [got EXCEPT ![g] = Nothing]
      /\ UNCHANGED << store, gesture, body, call, kept, cookie >>
      /\ spinner' = FALSE /\ mishaps' \subseteq Mishaps
  BY DEF LoadShows, LoadFails, LoadEnds, Loading, Goes, calls, Notes, When, Mishaps,
     TypeInv, FlagsType
<1>2. Room' = Room
  BY <1>1, RoomStays DEF Goes, Labels, TypeInv
<1>3. BoardFits(shown)'
  <2>1. CASE LoadFails(g)
    BY <1>2, <2>1 DEF LoadFails, TypeInv, BoardFits
  <2>2. CASE LoadShows(g)
    <3>1. got[g] \in Board
      BY <2>2 DEF LoadShows, TypeInv, Prepared
    <3>2. PICK f \in Layouts(got[g]) : shown' = [c \in Cols |-> Column(<< g, "load" >>, f[c])]
      BY <2>2 DEF LoadShows
    <3>3. ASSUME NEW c \in Cols PROVE f[c] \in Seq(Entry) /\ Len(f[c]) <= Room
      <4>1. f[c] \in Seq(Entry) /\ Len(f[c]) \in Nat /\ Len(f[c]) <= Cardinality(TaskIDs)
        BY <3>1, LayoutColumns
      <4>2. QED
        BY <4>1, RoomType, Finite
    <3>4. QED
      BY <1>2, <3>2, <3>3 DEF BoardFits, ColumnType, Column
  <2>3. QED
    BY <2>1, <2>2
<1>4. KeptFits'
  BY <1>1, <1>2 DEF TypeInv, KeptFits, BoardFits
<1>5. StoreType' /\ GesturesType' /\ CallsType' /\ LoadsType' /\ FlagsType'
  BY <1>1 DEF TypeInv, StoreType, GesturesType, CallsType, LoadsType, FlagsType,
     store, Labels
<1>6. ASSUME NEW h \in Gestures PROVE Prepared(h)'
  <2>1. CASE h = g
    BY <1>1, <2>1 DEF TypeInv, Prepared, GesturesType
  <2>2. CASE h # g
    BY <1>1, <2>2 DEF TypeInv, Prepared, GesturesType, LoadsType
  <2>3. QED
    BY <2>1, <2>2
<1>7. QED
  BY <1>3, <1>4, <1>5, <1>6 DEF TypeInv

\* Initially the board is shown as it was loaded.
LEMMA InitTypes == Init => TypeInv
<1> SUFFICES ASSUME Init PROVE TypeInv
  OBVIOUS
<1>1. StoreType /\ LoadsType /\ FlagsType /\ GesturesType
  BY DEF Init, StoreType, LoadsType, FlagsType, GesturesType, Board, Labels, Kinds,
     NoGesture
<1>2. CallsType
  BY DEF Init, CallsType, CallStates
<1>3. BoardFits(shown)
  <2>1. PICK f \in Layouts(table) : shown = [c \in Cols |-> Column(Nothing, f[c])]
    BY DEF Init
  <2>2. ASSUME NEW c \in Cols PROVE f[c] \in Seq(Entry) /\ Len(f[c]) <= Room
    <3>1. f[c] \in Seq(Entry) /\ Len(f[c]) \in Nat /\ Len(f[c]) <= Cardinality(TaskIDs)
      BY <1>1, LayoutColumns DEF StoreType
    <3>2. QED
      BY <3>1, RoomType, Finite
  <2>3. QED
    BY <2>1, <2>2 DEF BoardFits, ColumnType, Column
<1>4. KeptFits /\ \A g \in Gestures : Prepared(g)
  BY DEF Init, KeptFits, Prepared, NoGesture
<1>5. QED
  BY <1>1, <1>2, <1>3, <1>4 DEF TypeInv

\* Every step keeps the types.
LEMMA TypesStep == TypeInv /\ [Next]_vars => TypeInv'
<1> SUFFICES ASSUME TypeInv, [Next]_vars PROVE TypeInv'
  OBVIOUS
<1>1. CASE CookieGoes \/ UNCHANGED vars
  <2>1. UNCHANGED << store, shown, pc, gesture, calls, kept, got, spinner, mishaps >>
        /\ cookie' \in BOOLEAN
    BY <1>1 DEF CookieGoes, vars, calls, store, TypeInv, FlagsType
  <2>2. Room' = Room
    BY <2>1 DEF Room, Started
  <2>3. QED
    BY <2>1, <2>2 DEF TypeInv, StoreType, BoardFits, KeptFits, GesturesType, CallsType,
       LoadsType, FlagsType, Prepared, store, calls
<1>2. ASSUME NEW g \in Gestures, UserActs(g) PROVE TypeInv'
  BY <1>2, DragTypes, ToggleTypes, OpensTypes, SubmitsCreateTypes, SubmitsEditTypes,
     SubmitsDeleteTypes DEF UserActs
<1>3. ASSUME NEW g \in Gestures, Handles(g) PROVE TypeInv'
  BY <1>3, EditAnsweredTypes, DragAnsweredTypes, LoadReadsTypes, LoadEndsTypes
     DEF Handles
<1>4. QED
  BY <1>1, <1>2, <1>3, ServiceTypes DEF Next

\* Every variable has its type, so that no column outgrows the orders.
THEOREM TypesOK == Spec => []TypeOK
<1>1. Init => TypeInv
  BY InitTypes
<1>2. TypeInv /\ [Next]_vars => TypeInv'
  BY TypesStep
<1>3. TypeInv => TypeOK
  BY TypeInvOK
<1>4. QED
  BY <1>1, <1>2, <1>3, PTL DEF Spec

-----------------------------------------------------------------------------
\* The table as TaskStore has it.
AsStored(item) ==
    IF item = NoItem THEN NoItem
    ELSE [BoardID |-> "board", ColNo |-> item.ColNo, Content |-> << item.Order, item.Content >>]
StoreTable == [k \in {"team"} \X TaskIDs |-> AsStored(table[k[2]])]

\* What TaskStore can do is defined on that table.
LEMMA StoreNextDef ==
    (\/ \E k \in {"team"} \X TaskIDs :
           \/ /\ StoreTable[k] = NoItem
              /\ \E task \in StoreItem :
                    task.ColNo \in 0 .. 3 /\ StoreTable' = [StoreTable EXCEPT ![k] = task]
           \/ /\ StoreTable[k] # NoItem
              /\ StoreTable' = [StoreTable EXCEPT ![k] = NoItem]
     \/ /\ StoreTable' \in [{"team"} \X TaskIDs -> StoreItem \cup {NoItem}]
        /\ \A k \in {"team"} \X TaskIDs :
              \/ StoreTable'[k] = StoreTable[k]
              \/ StoreTable[k] # NoItem /\ StoreTable'[k] # NoItem)
    => Store!Next
<1> SUFFICES ASSUME
     \/ \E k \in {"team"} \X TaskIDs :
           \/ /\ StoreTable[k] = NoItem
              /\ \E task \in StoreItem :
                    task.ColNo \in 0 .. 3 /\ StoreTable' = [StoreTable EXCEPT ![k] = task]
           \/ /\ StoreTable[k] # NoItem
              /\ StoreTable' = [StoreTable EXCEPT ![k] = NoItem]
     \/ /\ StoreTable' \in [{"team"} \X TaskIDs -> StoreItem \cup {NoItem}]
        /\ \A k \in {"team"} \X TaskIDs :
              \/ StoreTable'[k] = StoreTable[k]
              \/ StoreTable[k] # NoItem /\ StoreTable'[k] # NoItem
     PROVE Store!Next
  OBVIOUS
<1>1. Store!Keys = {"team"} \X TaskIDs /\ Store!Task = StoreItem
  BY DEF Store!Keys, Store!Task, StoreItem
<1>2. \A item \in StoreItem \cup {NoItem} : Store!Storable(item)
  BY BoardClientAssumption DEF Store!Storable, StoreItem
<1>3. ASSUME NEW k \in {"team"} \X TaskIDs, NEW task \in StoreItem,
             StoreTable[k] = NoItem, task.ColNo \in 0 .. 3,
             StoreTable' = [StoreTable EXCEPT ![k] = task]
      PROVE  Store!Create(k)
  BY <1>1, <1>2, <1>3 DEF Store!Create, Store!ColNoOK, StoreTable, AsStored
<1>4. ASSUME NEW k \in {"team"} \X TaskIDs, StoreTable[k] # NoItem,
             StoreTable' = [StoreTable EXCEPT ![k] = NoItem]
      PROVE  Store!Delete(k)
  BY <1>4 DEF Store!Delete, StoreTable, AsStored
<1>5. ASSUME StoreTable' \in [{"team"} \X TaskIDs -> StoreItem \cup {NoItem}],
             \A k \in {"team"} \X TaskIDs :
                \/ StoreTable'[k] = StoreTable[k]
                \/ StoreTable[k] # NoItem /\ StoreTable'[k] # NoItem
      PROVE  Store!Edit("team")
  BY <1>1, <1>2, <1>5 DEF Store!Edit, StoreTable, AsStored
<1>6. QED
  BY <1>1, <1>3, <1>4, <1>5 DEF Store!Next

\* An item of the board is one of the table.
LEMMA AsStoredType ==
    ASSUME NEW item \in Item \cup {NoItem}
    PROVE  /\ item # NoItem => AsStored(item) \in StoreItem /\ AsStored(item) # NoItem
           /\ item # NoItem => AsStored(item).ColNo \in 0 .. 3
           /\ item = NoItem => AsStored(item) = NoItem
<1>1. ASSUME item # NoItem
      PROVE  AsStored(item) \in StoreItem /\ AsStored(item).ColNo \in 0 .. 3
  BY <1>1, BoardClientAssumption DEF AsStored, StoreItem, Item
<1>2. QED
  BY <1>1, BoardClientAssumption DEF AsStored

\* The calls of a gesture that change the table change it as TaskStore says:
\* a creation stores one task where none was, a deletion takes one away, and
\* the others keep the set of tasks.
LEMMA ChangesTheStore ==
    ASSUME TypeInv, NEW g \in Gestures, NEW way \in {"src", "dst"}, Stores(g, way)
    PROVE  Store!Next
<1> DEFINE tasks == body[g][way]
           Keys == {"team"} \X TaskIDs
<1>1. table \in Board /\ table' \in Board
  BY StoresTypes DEF TypeInv, StoreType
<1>2. \A id \in TaskIDs : /\ table[id] \in Item \cup {NoItem}
                          /\ table'[id] \in Item \cup {NoItem}
  BY <1>1 DEF Board
<1>3. \A k \in Keys : /\ k[2] \in TaskIDs
                      /\ StoreTable[k] = AsStored(table[k[2]])
                      /\ StoreTable'[k] = AsStored(table'[k[2]])
  BY DEF StoreTable, AsStored
<1>4. \A id \in TaskIDs : << "team", id >> \in Keys /\ << "team", id >>[2] = id
  OBVIOUS
<1>5. \A k, l \in Keys : k[2] = l[2] => k = l
  OBVIOUS
<1>6. StoreTable' = [k \in Keys |-> AsStored(table'[k[2]])]
      /\ StoreTable = [k \in Keys |-> AsStored(table[k[2]])]
  BY DEF StoreTable, AsStored
<1>7. ASSUME NEW id \in TaskIDs, NEW item \in Item \cup {NoItem},
             table' = [table EXCEPT ![id] = item]
      PROVE  StoreTable' = [StoreTable EXCEPT ![<< "team", id >>] = AsStored(item)]
  <2>1. \A k \in Keys : table'[k[2]] = IF k = << "team", id >> THEN item ELSE table[k[2]]
    BY <1>1, <1>3, <1>4, <1>5, <1>7 DEF Board
  <2>2. QED
    BY <1>4, <1>6, <2>1
<1>8. CASE gesture[g].kind = "create"
  <2>1. PICK id \in TaskIDs, e \in tasks :
           table[id] = NoItem /\ table' = [table EXCEPT ![id] = ItemOf(e)]
    BY <1>8 DEF Stores, Changes
  <2>2. ItemOf(e) \in Item /\ ItemOf(e) # NoItem
    <3>1. table'[id] = ItemOf(e)
      BY <1>1, <2>1 DEF Board
    <3>2. ItemOf(e) # NoItem
      <4>1. e \in Entry /\ e.Content \in Contents
        <5>1. Prepared(g) /\ body[g] \in [src : SUBSET Entry, dst : SUBSET Entry]
          BY DEF TypeInv, CallsType
        <5>2. QED
          BY <1>8, <2>1, <5>1 DEF Prepared
      <4>2. QED
        BY <4>1, BoardClientAssumption DEF ItemOf, Entry, Item
    <3>3. QED
      BY <1>2, <3>1, <3>2
  <2>3. StoreTable' = [StoreTable EXCEPT ![<< "team", id >>] = AsStored(ItemOf(e))]
    BY <1>7, <2>1, <2>2
  <2>4. StoreTable[<< "team", id >>] = NoItem
    BY <1>3, <1>4, <2>1, AsStoredType
  <2>5. AsStored(ItemOf(e)) \in StoreItem /\ AsStored(ItemOf(e)).ColNo \in 0 .. 3
    BY <2>2, AsStoredType
  <2>6. QED
    BY <1>4, <2>3, <2>4, <2>5, StoreNextDef
<1>9. CASE gesture[g].kind = "delete"
  <2>1. PICK e \in tasks : Present({e}) /\ table' = [table EXCEPT ![e.ID] = NoItem]
    BY <1>9 DEF Stores, Changes
  <2>2. e.ID \in TaskIDs /\ table[e.ID] # NoItem
    <3>1. e \in Entry
      BY DEF TypeInv, CallsType
    <3>2. QED
      BY <2>1, <3>1 DEF Present, Entry
  <2>3. StoreTable' = [StoreTable EXCEPT ![<< "team", e.ID >>] = NoItem]
    BY <1>7, <2>1, <2>2, AsStoredType
  <2>4. StoreTable[<< "team", e.ID >>] # NoItem
    BY <1>2, <1>3, <1>4, <2>2, AsStoredType
  <2>5. QED
    BY <1>4, <2>2, <2>3, <2>4, StoreNextDef
<1>10. CASE gesture[g].kind \notin {"create", "delete"}
  <2>1. Present(tasks) /\ Puts(tasks)
    BY <1>10 DEF Stores, Changes
  <2>2. ASSUME NEW k \in Keys, StoreTable'[k] # StoreTable[k]
        PROVE  StoreTable[k] # NoItem /\ StoreTable'[k] # NoItem
    <3>1. table'[k[2]] # table[k[2]]
      BY <1>3, <2>2
    <3>2. PICK e \in tasks : e.ID = k[2]
      BY <1>3, <2>1, <3>1 DEF Puts
    <3>3. table[k[2]] # NoItem
      BY <2>1, <3>2 DEF Present
    <3>4. table'[k[2]] # NoItem
      <4>1. PICK f : f = CHOOSE e_1 \in tasks : e_1.ID = k[2]
        OBVIOUS
      <4>2. f \in tasks /\ f.ID = k[2]
        BY <3>2, <4>1
      <4>3. table'[k[2]] = ItemOf(f)
        BY <1>3, <2>1, <3>2, <4>1 DEF Puts
      <4>4. f \in Entry /\ f.ID \in TaskIDs
        BY <2>1, <4>2 DEF Present, TypeInv, CallsType
      <4>5. ItemOf(f) \in Item
        BY <4>4, BoardClientAssumption DEF Entry, Item, ItemOf
      <4>6. QED
        BY <4>3, <4>5, BoardClientAssumption
    <3>5. QED
      BY <1>2, <1>3, <3>3, <3>4, AsStoredType
  <2>3. StoreTable' \in [Keys -> StoreItem \cup {NoItem}]
    BY <1>2, <1>3, <1>6, AsStoredType
  <2>4. QED
    BY <2>2, <2>3, StoreNextDef
<1>11. QED
  BY <1>8, <1>9, <1>10

\* However the calls of gestures are sent, answered, refused and repeated,
\* they change the table only as TaskStore says.
THEOREM TheStoreSteps == Spec => StoreStepsOnly
<1>1. Init => TypeInv
  BY InitTypes
<1>2. TypeInv /\ [Next]_vars => TypeInv'
  BY TypesStep
<1>3. TypeInv /\ [Next]_vars => [table' # table => Store!Next]_table
  <2> SUFFICES ASSUME TypeInv, [Next]_vars, table' # table PROVE Store!Next
    OBVIOUS
  <2>1. \E g \in Gestures, way \in {"src", "dst"} : Stores(g, way)
    <3>0. ASSUME NEW g \in Gestures, UserActs(g) \/ Handles(g) PROVE table' = table
      <4>1. \A kind, task, src, dst : Sends(g, kind, task, src, dst) => UNCHANGED store
        BY DEF Sends
      <4>2. CASE UserActs(g)
        <5>1. CASE Drag(g)
          <6>1. UNCHANGED store
            BY <4>1, <5>1 DEF Drag
          <6>2. QED
            BY <6>1 DEF store
        <5>2. CASE Opens(g)
          BY <5>2 DEF Opens, store
        <5>3. CASE Toggle(g) \/ SubmitsCreate(g) \/ SubmitsEdit(g) \/ SubmitsDelete(g)
          BY <4>1, <5>3 DEF Toggle, SubmitsCreate, SubmitsEdit, SubmitsDelete, store
        <5>4. QED
          BY <4>2, <5>1, <5>2, <5>3 DEF UserActs
      <4>3. CASE Handles(g)
        BY <4>3 DEF Handles, EditAnswered, DragAnswered, LoadReads, LoadShows,
           LoadFails, store
      <4>4. QED
        BY <3>0, <4>2, <4>3
    <3>1. \E g \in Gestures, way \in {"src", "dst"} : Ends(g, way) \/ StoresUnanswered(g, way)
      BY <3>0 DEF Next, vars, store, CookieGoes
    <3>2. QED
      BY <3>1 DEF Ends, Answers, Refuses, StoresUnanswered, store
  <2>2. QED
    BY <2>1, ChangesTheStore
<1>4. QED
  BY <1>1, <1>2, <1>3, PTL DEF Spec, StoreStepsOnly

-----------------------------------------------------------------------------
\* A board on which no task is in two places.
Once(board) ==
    \A c, d \in Cols :
        \A i \in DOMAIN board[c].tasks, j \in DOMAIN board[d].tasks :
            board[c].tasks[i].ID = board[d].tasks[j].ID /\ board[c].tasks[i].ID \in TaskIDs
                => c = d /\ i = j

\* What every step keeps, besides the types: the boards that edits have kept
\* have each task once as well, for a user who waits.
OnceInv ==
    /\ TypeInv
    /\ "late rollback" \notin mishaps => Once(shown)
    /\ "overlap" \notin mishaps =>
          \A g \in Gestures :
              pc[g] = "sent" /\ gesture[g].kind # "drag" => Once(kept[g])
    /\ "late rollback" \in mishaps => "overlap" \in mishaps

\* The places of a column from which p takes the places of another.
Picks(left, tasks, p) ==
    /\ p \in [1 .. Len(left) -> 1 .. Len(tasks)]
    /\ \A i, j \in 1 .. Len(left) : p[i] = p[j] => i = j
    /\ \A i \in 1 .. Len(left) : left[i] = tasks[p[i]]

\* The origin o of each task of a new board: no two come from one place.
ComesFrom(new, old, o) ==
    \A c \in Cols : \A i \in DOMAIN new[c].tasks :
        new[c].tasks[i].ID \in TaskIDs =>
            /\ o[c][i][1] \in Cols
            /\ o[c][i][2] \in DOMAIN old[o[c][i][1]].tasks
            /\ old[o[c][i][1]].tasks[o[c][i][2]].ID = new[c].tasks[i].ID
            /\ \A d \in Cols : \A j \in DOMAIN new[d].tasks :
                  /\ new[d].tasks[j].ID \in TaskIDs
                  /\ o[c][i][1] = o[d][j][1] /\ o[c][i][2] = o[d][j][2]
                  => c = d /\ i = j

\* So each is in one place, if it was.
LEMMA MovedOnce ==
    ASSUME NEW new, NEW old, NEW o, ComesFrom(new, old, o), Once(old)
    PROVE  Once(new)
<1> SUFFICES ASSUME NEW c \in Cols, NEW d \in Cols,
                    NEW i \in DOMAIN new[c].tasks, NEW j \in DOMAIN new[d].tasks,
                    new[c].tasks[i].ID = new[d].tasks[j].ID, new[c].tasks[i].ID \in TaskIDs
             PROVE  c = d /\ i = j
  BY DEF Once
<1>1. /\ o[c][i][1] \in Cols /\ o[c][i][2] \in DOMAIN old[o[c][i][1]].tasks
      /\ old[o[c][i][1]].tasks[o[c][i][2]].ID = new[c].tasks[i].ID
      /\ o[d][j][1] \in Cols /\ o[d][j][2] \in DOMAIN old[o[d][j][1]].tasks
      /\ old[o[d][j][1]].tasks[o[d][j][2]].ID = new[d].tasks[j].ID
  BY DEF ComesFrom
<1> DEFINE a == o[c][i][1]
           k == o[c][i][2]
           b == o[d][j][1]
           l == o[d][j][2]
<1>2. a = b /\ k = l
  <2>1. /\ a \in Cols /\ k \in DOMAIN old[a].tasks /\ b \in Cols /\ l \in DOMAIN old[b].tasks
        /\ old[a].tasks[k].ID = old[b].tasks[l].ID /\ old[a].tasks[k].ID \in TaskIDs
    BY <1>1
  <2> HIDE DEF a, k, b, l
  <2>2. QED
    BY <2>1 DEF Once
<1>3. QED
  BY <1>2 DEF ComesFrom

\* The places of a column with a task at n, the others of which q takes from
\* the places of another.
Places(placed, tasks, n, q) ==
    /\ n \in 1 .. Len(placed) /\ q \in [1 .. Len(placed) -> 0 .. Len(tasks)]
    /\ \A i, j \in 1 .. Len(placed) : q[i] = q[j] => i = j
    /\ q[n] = 0
    /\ \A i \in 1 .. Len(placed) :
          i # n => q[i] \in 1 .. Len(tasks) /\ placed[i] = tasks[q[i]]

\* splice takes the others from their places.
LEMMA PoppedPicks ==
    ASSUME NEW S, NEW tasks \in Seq(S), NEW at \in Nat \ {0}
    PROVE  LET rest == Popped(tasks, at)
           IN  \E p : /\ Picks(rest, tasks, p)
                      /\ at <= Len(tasks) => \A i \in 1 .. Len(rest) : p[i] # at
<1> DEFINE rest == Popped(tasks, at)
           out == at <= Len(tasks)
           p == [i \in 1 .. Len(rest) |-> IF out /\ i >= at THEN i + 1 ELSE i]
<1>1. /\ rest \in Seq(S) /\ Len(tasks) \in Nat
      /\ Len(rest) = IF out THEN Len(tasks) - 1 ELSE Len(tasks)
      /\ \A i \in 1 .. Len(rest) : rest[i] = tasks[IF out /\ i >= at THEN i + 1 ELSE i]
  BY PoppedPlaces, LenProperties
<1> HIDE DEF rest
<1>2. Picks(rest, tasks, p)
  BY <1>1 DEF Picks
<1>3. out => \A i \in 1 .. Len(rest) : p[i] # at
  BY <1>1
<1>4. QED
  BY <1>2, <1>3 DEF rest

\* and puts a task between others, which it takes from their places.
LEMMA InsertedPicks ==
    ASSUME NEW S, NEW tasks \in Seq(S), NEW n \in 1 .. Len(tasks) + 1, NEW e \in S
    PROVE  LET placed == InsertAt(tasks, n, e)
           IN  placed[n] = e /\ \E q : Places(placed, tasks, n, q)
<1> DEFINE placed == InsertAt(tasks, n, e)
           q == [i \in 1 .. Len(placed) |-> IF i = n THEN 0 ELSE IF i < n THEN i ELSE i - 1]
<1>1. /\ Len(placed) = Len(tasks) + 1 /\ Len(tasks) \in Nat
      /\ \A i \in 1 .. Len(placed) :
            placed[i] = IF i = n THEN e ELSE tasks[IF i < n THEN i ELSE i - 1]
  BY InsertedPlaces, LenProperties
<1> HIDE DEF placed
<1>2. /\ q \in [1 .. Len(placed) -> 0 .. Len(tasks)] /\ q[n] = 0
      /\ \A i, j \in 1 .. Len(placed) : q[i] = q[j] => i = j
      /\ \A i \in 1 .. Len(placed) :
            i # n => q[i] \in 1 .. Len(tasks) /\ placed[i] = tasks[q[i]]
  BY <1>1
<1>3. placed[n] = e /\ n \in 1 .. Len(placed)
  BY <1>1
<1>4. Places(placed, tasks, n, q)
  BY <1>2, <1>3 DEF Places
<1>5. QED
  BY <1>3, <1>4 DEF placed

-----------------------------------------------------------------------------
\* The origin o of each task in the columns that a drag makes.
Origins(s, d, at, n, o) ==
    \A c \in {s, d} : \A i \in 1 .. Len(InPlace(s, d, at, n, c)) :
        InPlace(s, d, at, n, c)[i].ID \in TaskIDs =>
            /\ o[c][i][1] \in {s, d}
            /\ o[c][i][2] \in 1 .. Len(Tasks(o[c][i][1]))
            /\ Tasks(o[c][i][1])[o[c][i][2]].ID = InPlace(s, d, at, n, c)[i].ID
            /\ \A e \in {s, d} : \A j \in 1 .. Len(InPlace(s, d, at, n, e)) :
                  o[c][i][1] = o[e][j][1] /\ o[c][i][2] = o[e][j][2] => c = e /\ i = j

\* A drag moves tasks: each that is shown after it has an origin.
LEMMA DragOrigins ==
    ASSUME TypeInv, NEW s \in Cols, NEW d \in Cols, NEW at \in Nat \ {0},
           NEW n \in 1 .. Len(Onto(s, d, at)) + 1
    PROVE  \E o : Origins(s, d, at, n, o)
<1> DEFINE S == Tasks(s)
           T == Tasks(d)
           out == at <= Len(S)
           item == Dragged(s, at)
           rest == Popped(S, at)
           onto == Onto(s, d, at)
<1>0. /\ S \in Seq(Entry) /\ T \in Seq(Entry)
      /\ onto = IF s = d THEN rest ELSE T
      /\ item = IF out THEN S[at] ELSE Undefined
  BY ShownTasks DEF Onto, Dragged
<1> HIDE DEF S, T, rest, onto, item
<1>1. PICK p : /\ Picks(rest, S, p)
               /\ out => \A i \in 1 .. Len(rest) : p[i] # at
  BY <1>0, PoppedPicks DEF rest
<1>2. rest \in Seq(Entry) /\ onto \in Seq(Entry) /\ item \in Entry
  <2>1. Undefined \in Entry
    BY Finite, BoardClientAssumption DEF Undefined, Entry
  <2>2. rest \in Seq(Entry)
    BY <1>0, PoppedPlaces DEF rest
  <2>3. QED
    BY <1>0, <2>1, <2>2, LenProperties, ElementOfSeq
<1>3. Len(rest) \in Nat /\ Len(S) \in Nat /\ Len(T) \in Nat /\ Len(onto) \in Nat
  BY <1>0, <1>2, LenProperties
<1>4. ~out => item.ID \notin TaskIDs
  BY <1>0, BoardClientAssumption DEF Undefined
<1>5. out => item = S[at] /\ at \in 1 .. Len(S)
  BY <1>0, <1>3
<1>6. n \in 1 .. Len(onto) + 1
  BY DEF onto
<1> DEFINE placed == InsertAt(onto, n, item)
           inPlace(c) == IF c = d THEN placed ELSE rest
<1>6a. placed[n] = item /\ \E q : Places(placed, onto, n, q)
  BY <1>2, <1>6, InsertedPicks
<1> HIDE DEF placed
<1>6b. PICK q : Places(placed, onto, n, q)
  BY <1>6a
<1>7. /\ q \in [1 .. Len(placed) -> 0 .. Len(onto)] /\ q[n] = 0
      /\ \A i, j \in 1 .. Len(placed) : q[i] = q[j] => i = j
      /\ \A i \in 1 .. Len(placed) :
            i # n => q[i] \in 1 .. Len(onto) /\ placed[i] = onto[q[i]]
  BY <1>6b DEF Places
<1>8. placed[n] = item /\ n \in 1 .. Len(placed)
  BY <1>6a, <1>6b DEF Places
\* Where the task that is placed at i was; nowhere, if there was none.
<1> DEFINE where(i) == IF i = n THEN << s, IF out THEN at ELSE 0 >>
                       ELSE IF s = d THEN << s, p[q[i]] >> ELSE << d, q[i] >>
           o == [c \in {s, d} |-> [i \in 1 .. Len(inPlace(c)) |->
                    IF c = d THEN where(i) ELSE << s, p[i] >>]]
<1>9. \A i \in 1 .. Len(placed) :
         /\ i = n => o[d][i][1] = s /\ o[d][i][2] = IF out THEN at ELSE 0
         /\ i # n /\ s = d => o[d][i][1] = s /\ o[d][i][2] = p[q[i]]
         /\ i # n /\ s # d => o[d][i][1] = d /\ o[d][i][2] = q[i]
  OBVIOUS
<1>10. s # d => \A i \in 1 .. Len(rest) : o[s][i][1] = s /\ o[s][i][2] = p[i]
  OBVIOUS
<1>11. \A i \in 1 .. Len(rest) :
          p[i] \in 1 .. Len(S) /\ S[p[i]] = rest[i] /\ p[i] # 0 /\ (out => p[i] # at)
  <2>1. p \in [1 .. Len(rest) -> 1 .. Len(S)] /\ \A i \in 1 .. Len(rest) : rest[i] = S[p[i]]
    BY <1>1 DEF Picks
  <2>2. \A i \in 1 .. Len(rest) : p[i] \in 1 .. Len(S) /\ p[i] # 0
    BY <1>3, <2>1
  <2>3. QED
    BY <1>1, <2>1, <2>2
<1>12. s = d => onto = rest
  BY <1>0
<1>13. s # d => onto = T
  BY <1>0
<1>14. \A i, j \in 1 .. Len(rest) : p[i] = p[j] => i = j
  BY <1>1 DEF Picks
<1> HIDE DEF o
<1>15. ASSUME NEW i \in 1 .. Len(placed), placed[i].ID \in TaskIDs
       PROVE  LET from == IF o[d][i][1] = s THEN S ELSE T
              IN  /\ o[d][i][1] \in {s, d} /\ o[d][i][2] \in 1 .. Len(from)
                  /\ from[o[d][i][2]].ID = placed[i].ID
  <2>1. CASE i = n
    <3>1. out /\ item = S[at] /\ at \in 1 .. Len(S)
      BY <1>4, <1>5, <1>8, <1>15, <2>1
    <3>2. o[d][i][1] = s /\ o[d][i][2] = at
      BY <1>9, <2>1, <3>1
    <3>3. QED
      BY <1>8, <2>1, <3>1, <3>2
  <2>2. CASE i # n /\ s = d
    <3>1. q[i] \in 1 .. Len(rest) /\ placed[i] = rest[q[i]]
      BY <1>7, <1>12, <2>2
    <3>2. o[d][i][1] = s /\ o[d][i][2] = p[q[i]]
      BY <1>9, <2>2
    <3>3. p[q[i]] \in 1 .. Len(S) /\ S[p[q[i]]] = rest[q[i]]
      BY <1>11, <3>1
    <3>4. QED
      BY <3>1, <3>2, <3>3
  <2>3. CASE i # n /\ s # d
    <3>1. q[i] \in 1 .. Len(T) /\ placed[i] = T[q[i]]
      BY <1>7, <1>13, <2>3
    <3>2. o[d][i][1] = d /\ o[d][i][2] = q[i]
      BY <1>9, <2>3
    <3>3. QED
      BY <2>3, <3>1, <3>2
  <2>4. QED
    BY <2>1, <2>2, <2>3
<1>16. ASSUME NEW i \in 1 .. Len(placed), NEW j \in 1 .. Len(placed),
              o[d][i][1] = o[d][j][1], o[d][i][2] = o[d][j][2]
       PROVE  i = j
  <2>1. CASE i = n \/ j = n
    <3>1. \A k \in 1 .. Len(placed) : k # n =>
             (o[d][k][1] = o[d][n][1] => o[d][k][2] # o[d][n][2])
      <4> HIDE DEF out
      <4>1. SUFFICES ASSUME NEW k \in 1 .. Len(placed), k # n, s = d
                     PROVE  p[q[k]] # IF out THEN at ELSE 0
        BY <1>8, <1>9
      <4>2. q[k] \in 1 .. Len(rest)
        BY <1>7, <1>12, <4>1
      <4>3. QED
        BY <1>11, <4>2
    <3>2. QED
      BY <1>9, <1>16, <2>1, <3>1
  <2>2. CASE i # n /\ j # n /\ s = d
    <3>1. q[i] \in 1 .. Len(rest) /\ q[j] \in 1 .. Len(rest)
      BY <1>7, <1>12, <2>2
    <3>2. p[q[i]] = p[q[j]]
      BY <1>9, <1>16, <2>2
    <3>3. q[i] = q[j]
      BY <1>14, <3>1, <3>2
    <3>4. QED
      BY <1>7, <3>3
  <2>3. CASE i # n /\ j # n /\ s # d
    <3>1. q[i] = q[j]
      BY <1>9, <1>16, <2>3
    <3>2. QED
      BY <1>7, <3>1
  <2>4. QED
    BY <2>1, <2>2, <2>3
<1>17. ASSUME s # d, NEW i \in 1 .. Len(rest), NEW j \in 1 .. Len(placed)
       PROVE  ~(o[s][i][1] = o[d][j][1] /\ o[s][i][2] = o[d][j][2])
  <2> HIDE DEF out
  <2>1. o[s][i][1] = s /\ o[s][i][2] = p[i] /\ p[i] # 0 /\ (out => p[i] # at)
    BY <1>10, <1>11, <1>17
  <2>2. j # n => o[d][j][1] # s
    BY <1>9, <1>17
  <2>3. j = n => o[d][j][2] = IF out THEN at ELSE 0
    BY <1>9
  <2>4. QED
    BY <2>1, <2>2, <2>3
<1>18. ASSUME NEW c \in {s, d}, NEW i \in 1 .. Len(inPlace(c)), inPlace(c)[i].ID \in TaskIDs
       PROVE  LET from == IF o[c][i][1] = s THEN S ELSE T
              IN  /\ o[c][i][1] \in {s, d} /\ o[c][i][2] \in 1 .. Len(from)
                  /\ from[o[c][i][2]].ID = inPlace(c)[i].ID
  <2>1. CASE c = d
    BY <1>15, <1>18, <2>1
  <2>2. CASE c # d
    BY <1>10, <1>11, <1>18, <2>2
  <2>3. QED
    BY <2>1, <2>2
<1>19. ASSUME NEW c \in {s, d}, NEW i \in 1 .. Len(inPlace(c)),
              NEW e \in {s, d}, NEW j \in 1 .. Len(inPlace(e)),
              o[c][i][1] = o[e][j][1], o[c][i][2] = o[e][j][2]
       PROVE  c = e /\ i = j
  <2>1. CASE c = d /\ e = d
    BY <1>16, <1>19, <2>1
  <2>2. CASE c # d /\ e # d
    BY <1>10, <1>14, <1>19, <2>2
  <2>3. CASE c # d /\ e = d
    BY <1>17, <1>19, <2>3
  <2>4. CASE c = d /\ e # d
    BY <1>17, <1>19, <2>4
  <2>5. QED
    BY <2>1, <2>2, <2>3, <2>4
<1>20. \A c \in {s, d} : InPlace(s, d, at, n, c) = inPlace(c)
  BY DEF InPlace, placed, rest, onto, item, S
<1>21. \A c \in {s, d} : Tasks(c) = IF c = s THEN S ELSE T
  BY DEF S, T
<1>22. ASSUME NEW c \in {s, d}, NEW i \in 1 .. Len(inPlace(c)), inPlace(c)[i].ID \in TaskIDs
       PROVE  /\ o[c][i][1] \in {s, d}
              /\ o[c][i][2] \in 1 .. Len(Tasks(o[c][i][1]))
              /\ Tasks(o[c][i][1])[o[c][i][2]].ID = inPlace(c)[i].ID
              /\ \A e \in {s, d} : \A j \in 1 .. Len(inPlace(e)) :
                    o[c][i][1] = o[e][j][1] /\ o[c][i][2] = o[e][j][2]
                       => c = e /\ i = j
  <2>1. LET from == IF o[c][i][1] = s THEN S ELSE T
        IN  /\ o[c][i][1] \in {s, d} /\ o[c][i][2] \in 1 .. Len(from)
            /\ from[o[c][i][2]].ID = inPlace(c)[i].ID
    BY <1>18, <1>22
  <2>2. \A e \in {s, d} : \A j \in 1 .. Len(inPlace(e)) :
           o[c][i][1] = o[e][j][1] /\ o[c][i][2] = o[e][j][2] => c = e /\ i = j
    BY <1>19, <1>22
  <2>3. QED
    BY <1>21, <2>1, <2>2
<1> HIDE DEF inPlace
<1>23. Origins(s, d, at, n, o)
  <2>1. SUFFICES ASSUME NEW c \in {s, d}, NEW i \in 1 .. Len(InPlace(s, d, at, n, c)),
                        InPlace(s, d, at, n, c)[i].ID \in TaskIDs
                 PROVE  /\ o[c][i][1] \in {s, d}
                        /\ o[c][i][2] \in 1 .. Len(Tasks(o[c][i][1]))
                        /\ Tasks(o[c][i][1])[o[c][i][2]].ID = InPlace(s, d, at, n, c)[i].ID
                        /\ \A e \in {s, d} : \A j \in 1 .. Len(InPlace(s, d, at, n, e)) :
                              o[c][i][1] = o[e][j][1] /\ o[c][i][2] = o[e][j][2]
                                 => c = e /\ i = j
    BY Zenon DEF Origins
  <2>2. i \in 1 .. Len(inPlace(c)) /\ inPlace(c)[i].ID \in TaskIDs
    BY <1>20, <2>1
  <2>3. /\ o[c][i][1] \in {s, d}
        /\ o[c][i][2] \in 1 .. Len(Tasks(o[c][i][1]))
        /\ Tasks(o[c][i][1])[o[c][i][2]].ID = inPlace(c)[i].ID
        /\ \A e \in {s, d} : \A j \in 1 .. Len(inPlace(e)) :
              o[c][i][1] = o[e][j][1] /\ o[c][i][2] = o[e][j][2] => c = e /\ i = j
    BY <1>22, <2>2
  <2>4. QED
    BY <1>20, <2>3
<1>24. QED
  BY <1>23

\* So a drag shows each task once, if it was.
LEMMA DragOnce ==
    ASSUME TypeInv, NEW g \in Gestures, Drag(g), Once(shown)
    PROVE  Once(shown')
<1>1. PICK s \in Cols, d \in Cols : \E dragged \in Range(Tasks(s)) :
         \E n \in 1 .. Len(Onto(s, d, At(dragged))) + 1 : Moves(g, s, d, dragged, n)
  BY DragParts
<1>2. PICK dragged \in Range(Tasks(s)) :
         \E n \in 1 .. Len(Onto(s, d, At(dragged))) + 1 : Moves(g, s, d, dragged, n)
  BY <1>1
<1>3. PICK n \in 1 .. Len(Onto(s, d, At(dragged))) + 1 : Moves(g, s, d, dragged, n)
  BY <1>2
<1> DEFINE at == At(dragged)
           inPlace(c) == InPlace(s, d, at, n, c)
<1>4. at \in Nat \ {0}
  <2>1. dragged \in Entry
    BY ShownTasks
  <2>2. QED
    BY <2>1, Finite DEF Entry, At
<1>5. PICK p : Origins(s, d, at, n, p)
  <2>1. n \in 1 .. Len(Onto(s, d, at)) + 1
    OBVIOUS
  <2> HIDE DEF at
  <2>2. QED
    BY <1>4, <2>1, DragOrigins
<1> HIDE DEF inPlace
<1>6. \A c \in Cols : /\ c \in {s, d} => shown'[c].tasks = Numbered(inPlace(c), c)
                      /\ c \notin {s, d} => shown'[c] = shown[c]
  BY <1>3 DEF Moves, Column, inPlace
<1>7. \A c \in {s, d} : /\ DOMAIN shown'[c].tasks = 1 .. Len(inPlace(c))
                        /\ \A i \in 1 .. Len(inPlace(c)) :
                              shown'[c].tasks[i].ID = inPlace(c)[i].ID
  <2>1. ASSUME NEW c \in {s, d}, NEW column \in Seq(Entry), column = inPlace(c)
        PROVE  /\ DOMAIN shown'[c].tasks = 1 .. Len(column)
               /\ \A i \in 1 .. Len(column) : shown'[c].tasks[i].ID = column[i].ID
    <3>1. shown'[c].tasks = Numbered(column, c) /\ DOMAIN column = 1 .. Len(column)
      BY <1>6, <2>1, LenProperties
    <3>2. \A i \in 1 .. Len(column) : column[i] \in Entry
      BY <3>1, ElementOfSeq
    <3>3. \A i \in 1 .. Len(column) : Numbered(column, c)[i].ID = column[i].ID
      BY <3>1, <3>2 DEF Numbered, Entry
    <3>4. DOMAIN Numbered(column, c) = DOMAIN column
      BY DEF Numbered
    <3>5. QED
      BY <3>1, <3>3, <3>4
  <2>2. ASSUME NEW c \in {s, d} PROVE inPlace(c) \in Seq(Entry)
    <3>1. Room + 1 <= MaxOrder
      <4>1. pc[g] \in {"idle", "open"} /\ Goes(g, "sent")
        BY <1>3, DragParts DEF Moves, Sends, MayAct
      <4>2. QED
        BY <4>1, RoomGrows DEF TypeInv
    <3>2. QED
      BY <3>1, DragPlaces DEF inPlace
  <2>3. QED
    BY <2>1, <2>2
<1>8. ASSUME NEW c \in {s, d}, NEW i \in 1 .. Len(inPlace(c)), inPlace(c)[i].ID \in TaskIDs
      PROVE  /\ p[c][i][1] \in {s, d}
             /\ p[c][i][2] \in DOMAIN Tasks(p[c][i][1])
             /\ Tasks(p[c][i][1])[p[c][i][2]].ID = inPlace(c)[i].ID
             /\ \A e \in {s, d} : \A j \in 1 .. Len(inPlace(e)) :
                   p[c][i][1] = p[e][j][1] /\ p[c][i][2] = p[e][j][2] => c = e /\ i = j
  <2>1. /\ p[c][i][1] \in {s, d}
        /\ p[c][i][2] \in 1 .. Len(Tasks(p[c][i][1]))
        /\ Tasks(p[c][i][1])[p[c][i][2]].ID = inPlace(c)[i].ID
        /\ \A e \in {s, d} : \A j \in 1 .. Len(inPlace(e)) :
              p[c][i][1] = p[e][j][1] /\ p[c][i][2] = p[e][j][2] => c = e /\ i = j
    <3> HIDE DEF at
    <3> QED
      BY <1>5, <1>8, Zenon DEF Origins, inPlace
  <2>2. DOMAIN Tasks(p[c][i][1]) = 1 .. Len(Tasks(p[c][i][1]))
    BY <2>1, ShownTasks
  <2>3. QED
    BY <2>1, <2>2
<1> DEFINE o == [c \in Cols |-> [i \in DOMAIN shown'[c].tasks |->
                    IF c \in {s, d} THEN << p[c][i][1], p[c][i][2] >> ELSE << c, i >>]]
<1>9. \A c \in Cols : \A i \in DOMAIN shown'[c].tasks :
         /\ c \in {s, d} => o[c][i][1] = p[c][i][1] /\ o[c][i][2] = p[c][i][2]
         /\ c \notin {s, d} => o[c][i][1] = c /\ o[c][i][2] = i
  OBVIOUS
<1> HIDE DEF o
<1>10. ASSUME NEW c \in Cols, NEW i \in DOMAIN shown'[c].tasks,
              shown'[c].tasks[i].ID \in TaskIDs
       PROVE  /\ o[c][i][1] \in Cols
              /\ o[c][i][2] \in DOMAIN shown[o[c][i][1]].tasks
              /\ shown[o[c][i][1]].tasks[o[c][i][2]].ID = shown'[c].tasks[i].ID
  <2>1. CASE c \in {s, d}
    <3>1. i \in 1 .. Len(inPlace(c)) /\ inPlace(c)[i].ID \in TaskIDs
          /\ inPlace(c)[i].ID = shown'[c].tasks[i].ID
      BY <1>7, <1>10, <2>1
    <3>2. /\ p[c][i][1] \in {s, d}
          /\ p[c][i][2] \in DOMAIN Tasks(p[c][i][1])
          /\ Tasks(p[c][i][1])[p[c][i][2]].ID = inPlace(c)[i].ID
      BY <1>8, <2>1, <3>1
    <3>3. o[c][i][1] = p[c][i][1] /\ o[c][i][2] = p[c][i][2]
      BY <1>9, <2>1
    <3>4. QED
      BY <3>1, <3>2, <3>3 DEF Tasks
  <2>2. CASE c \notin {s, d}
    BY <1>6, <1>9, <2>2
  <2>3. QED
    BY <2>1, <2>2
<1>11. ASSUME NEW c \in Cols, NEW i \in DOMAIN shown'[c].tasks,
              shown'[c].tasks[i].ID \in TaskIDs,
              NEW e \in Cols, NEW j \in DOMAIN shown'[e].tasks,
              shown'[e].tasks[j].ID \in TaskIDs,
              o[c][i][1] = o[e][j][1], o[c][i][2] = o[e][j][2]
       PROVE  c = e /\ i = j
  <2>1. CASE c \in {s, d} /\ e \in {s, d}
    <3>1. /\ i \in 1 .. Len(inPlace(c)) /\ inPlace(c)[i].ID \in TaskIDs
          /\ j \in 1 .. Len(inPlace(e))
          /\ p[c][i][1] = p[e][j][1] /\ p[c][i][2] = p[e][j][2]
      BY <1>7, <1>9, <1>11, <2>1
    <3>2. QED
      BY <1>8, <2>1, <3>1
  <2>2. CASE c \notin {s, d} /\ e \notin {s, d}
    BY <1>9, <1>11, <2>2
  <2>3. CASE c \in {s, d} /\ e \notin {s, d}
    <3>1. i \in 1 .. Len(inPlace(c)) /\ inPlace(c)[i].ID \in TaskIDs
      BY <1>7, <1>11, <2>3
    <3>2. p[c][i][1] \in {s, d}
      BY <1>8, <2>3, <3>1
    <3>3. QED
      BY <1>9, <1>11, <2>3, <3>2
  <2>4. CASE c \notin {s, d} /\ e \in {s, d}
    <3>1. j \in 1 .. Len(inPlace(e)) /\ inPlace(e)[j].ID \in TaskIDs
      BY <1>7, <1>11, <2>4
    <3>2. p[e][j][1] \in {s, d}
      BY <1>8, <2>4, <3>1
    <3>3. QED
      BY <1>9, <1>11, <2>4, <3>2
  <2>5. QED
    BY <2>1, <2>2, <2>3, <2>4
<1>12. ComesFrom(shown', shown, o)
  BY <1>10, <1>11 DEF ComesFrom
<1>13. QED
  BY <1>12, MovedOnce

\* A board with the same tasks in the same places shows each once, if the
\* other does.
LEMMA SamePlaces ==
    ASSUME NEW new, NEW old, Once(old),
           \A c \in Cols :
              /\ DOMAIN new[c].tasks \subseteq DOMAIN old[c].tasks
              /\ \A i \in DOMAIN new[c].tasks : new[c].tasks[i].ID = old[c].tasks[i].ID
    PROVE  Once(new)
BY DEF Once

\* An edit that is shown at once, in a column whose tasks come from it.
LEMMA OptimisticOnce ==
    ASSUME TypeInv, NEW g \in Gestures, NEW c \in Cols, NEW tasks, NEW p,
           Optimistically(g, c, tasks), Once(shown),
           \A i \in DOMAIN tasks : tasks[i].ID \in TaskIDs =>
              /\ p[i] \in DOMAIN Tasks(c) /\ Tasks(c)[p[i]].ID = tasks[i].ID
              /\ \A j \in DOMAIN tasks : p[i] = p[j] /\ tasks[j].ID \in TaskIDs => i = j
    PROVE  Once(shown')
<1> DEFINE o == [d \in Cols |-> [i \in DOMAIN shown'[d].tasks |->
                    IF d = c THEN << c, p[i] >> ELSE << d, i >>]]
<1>1. /\ shown'[c].tasks = tasks
      /\ \A d \in Cols : d # c => shown'[d] = shown[d]
  BY DEF Optimistically, Column, TypeInv, BoardFits
<1>2. \A d \in Cols : \A i \in DOMAIN shown'[d].tasks :
         o[d][i][1] = d /\ o[d][i][2] = IF d = c THEN p[i] ELSE i
  OBVIOUS
<1> HIDE DEF o
<1>3. ASSUME NEW d \in Cols, NEW i \in DOMAIN shown'[d].tasks, shown'[d].tasks[i].ID \in TaskIDs
      PROVE  /\ o[d][i][2] \in DOMAIN shown[d].tasks
             /\ shown[d].tasks[o[d][i][2]].ID = shown'[d].tasks[i].ID
             /\ \A j \in DOMAIN shown'[d].tasks :
                   shown'[d].tasks[j].ID \in TaskIDs /\ o[d][i][2] = o[d][j][2] => i = j
  <2>1. CASE d = c
    BY <1>1, <1>2, <1>3, <2>1 DEF Tasks
  <2>2. CASE d # c
    BY <1>1, <1>2, <1>3, <2>2
  <2>3. QED
    BY <2>1, <2>2
<1>4. ComesFrom(shown', shown, o)
  <2> SUFFICES ASSUME NEW d \in Cols, NEW i \in DOMAIN shown'[d].tasks, shown'[d].tasks[i].ID \in TaskIDs
               PROVE  /\ o[d][i][1] \in Cols
                      /\ o[d][i][2] \in DOMAIN shown[o[d][i][1]].tasks
                      /\ shown[o[d][i][1]].tasks[o[d][i][2]].ID = shown'[d].tasks[i].ID
                      /\ \A e \in Cols : \A j \in DOMAIN shown'[e].tasks :
                            /\ shown'[e].tasks[j].ID \in TaskIDs
                            /\ o[d][i][1] = o[e][j][1] /\ o[d][i][2] = o[e][j][2]
                            => d = e /\ i = j
    BY DEF ComesFrom
  <2>1. o[d][i][1] = d
    BY <1>2
  <2>2. ASSUME NEW e \in Cols, NEW j \in DOMAIN shown'[e].tasks, shown'[e].tasks[j].ID \in TaskIDs,
               o[d][i][1] = o[e][j][1], o[d][i][2] = o[e][j][2]
        PROVE  d = e /\ i = j
    <3>1. d = e
      BY <1>2, <2>1, <2>2
    <3>2. QED
      BY <1>3, <2>2, <3>1
  <2>3. QED
    BY <1>3, <2>1, <2>2
<1>5. QED
  BY <1>4, MovedOnce

\* A layout of a board shows each task once.
LEMMA LayoutOnce ==
    ASSUME NEW t \in Board, NEW f \in Layouts(t), NEW maker
    PROVE  Once([c \in Cols |-> Column(maker, f[c])])
<1>1. SUFFICES ASSUME NEW c \in Cols, NEW d \in Cols,
                      NEW i \in DOMAIN f[c], NEW j \in DOMAIN f[d], f[c][i].ID = f[d][j].ID
               PROVE  c = d /\ i = j
  BY DEF Once, Column
<1>2. ASSUME NEW e \in Cols, NEW k \in DOMAIN f[e]
      PROVE  /\ f[e][k].ID \in TaskIDs /\ t[f[e][k].ID].ColNo = e
             /\ f[e][k] = EntryOf(f[e][k].ID, t[f[e][k].ID])
  <2>1. f[e][k] \in StoredIn(t, e)
    BY LayoutColumns
  <2>2. QED
    BY <2>1 DEF StoredIn, EntryOf
<1>3. c = d /\ f[c][i] = f[d][j]
  BY <1>1, <1>2
<1>4. IsInjective(f[c])
  BY LayoutColumns
<1>5. QED
  BY <1>3, <1>4 DEF IsInjective

\* What a gesture that is sent leaves of what others have kept.
LEMMA OthersKept ==
    ASSUME OnceInv, TypeInv', NEW g \in Gestures, NEW label \in Labels, Goes(g, label),
           \A h \in Gestures : h # g => gesture'[h] = gesture[h] /\ kept'[h] = kept[h],
           "overlap" \notin mishaps' /\ label = "sent" => Once(kept'[g]),
           mishaps \subseteq mishaps'
    PROVE  "overlap" \notin mishaps' =>
              \A h \in Gestures :
                  pc'[h] = "sent" /\ gesture'[h].kind # "drag" => Once(kept'[h])
<1> SUFFICES ASSUME "overlap" \notin mishaps', NEW h \in Gestures,
                    pc'[h] = "sent", gesture'[h].kind # "drag"
             PROVE  Once(kept'[h])
  OBVIOUS
<1>1. CASE h = g
  BY <1>1 DEF Goes, OnceInv, TypeInv, GesturesType
<1>2. CASE h # g
  BY <1>2 DEF Goes, OnceInv, TypeInv, GesturesType
<1>3. QED
  BY <1>1, <1>2

\* An edit keeps what was shown.
LEMMA EditOnce ==
    ASSUME OnceInv, TypeInv', NEW g \in Gestures, NEW kind, NEW task, NEW src, NEW dst,
           Sends(g, kind, task, src, dst), kept' = [kept EXCEPT ![g] = shown],
           mishaps \subseteq mishaps', "late rollback" \in mishaps' => "late rollback" \in mishaps,
           Once(shown) => Once(shown')
    PROVE  OnceInv'
<1>1. Goes(g, "sent") /\ \A h \in Gestures : h # g => gesture'[h] = gesture[h] /\ kept'[h] = kept[h]
  BY DEF Sends, OnceInv, TypeInv, GesturesType, KeptFits
<1>2. kept'[g] = shown
  BY DEF OnceInv, TypeInv, KeptFits
<1>3. "overlap" \notin mishaps' => Once(kept'[g])
  BY <1>2 DEF OnceInv
<1>4. "overlap" \notin mishaps' =>
         \A h \in Gestures : pc'[h] = "sent" /\ gesture'[h].kind # "drag" => Once(kept'[h])
  BY <1>1, <1>3, OthersKept DEF Labels
<1>5. QED
  BY <1>4 DEF OnceInv

\* The user's gestures keep the invariant.
LEMMA UserActsOnce ==
    ASSUME OnceInv, TypeInv', NEW g \in Gestures, UserActs(g)
    PROVE  OnceInv'
<1>0. TypeInv
  BY DEF OnceInv
<1>1. CASE Drag(g)
  <2>1. Once(shown) => Once(shown')
    BY <1>0, <1>1, DragOnce
  <2>2. MayAct(g) /\ Notes(Overlap) /\ \E task, src, dst : Sends(g, "drag", task, src, dst)
    BY <1>1, DragParts DEF Moves
  <2>3. /\ mishaps' = mishaps \cup (IF ~Quiet THEN {"overlap"} ELSE {})
        /\ pc[g] = "idle"
        /\ pc' = [pc EXCEPT ![g] = "sent"]
        /\ gesture'[g].kind = "drag" /\ \A h \in Gestures : h # g => gesture'[h] = gesture[h]
    BY <1>0, <2>2 DEF MayAct, Notes, Overlap, When, Sends, Goes, TypeInv, GesturesType
  <2>4. ASSUME "overlap" \notin mishaps', NEW h \in Gestures, pc'[h] = "sent"
        PROVE  h = g
    <3>1. Quiet
      BY <2>3, <2>4
    <3>2. pc[h] # "sent"
      BY <3>1 DEF Quiet, Busy
    <3>3. QED
      BY <1>0, <2>3, <2>4, <3>2 DEF TypeInv, GesturesType
  <2>5. \/ Quiet /\ mishaps' = mishaps
        \/ ~Quiet /\ mishaps' = mishaps \cup {"overlap"}
    BY <2>3
  <2>6. ("late rollback" \in mishaps' <=> "late rollback" \in mishaps) /\ mishaps \subseteq mishaps'
    BY <2>5
  <2>7. QED
    BY <2>1, <2>3, <2>4, <2>6 DEF OnceInv
<1>2. CASE Toggle(g)
  <2>1. PICK c \in Cols : \E task \in Range(Tasks(c)), content \in Contents :
         LET tasks == Tasks(task.ColNo)
         IN  /\ Optimistically(g, task.ColNo,
                   [i \in DOMAIN tasks |-> IF i \in WithID(task.ID, tasks)
                        THEN [tasks[i] EXCEPT !.Content = content] ELSE tasks[i]])
             /\ Sends(g, "toggle", task, {},
                      {[task EXCEPT !.ColNo = 0, !.Content = content]})
             /\ Notes(Overlap \cup When(task.ColNo # 0, "toggle"))
    BY <1>2 DEF Toggle
  <2>2. PICK task \in Range(Tasks(c)), content \in Contents :
         LET tasks == Tasks(task.ColNo)
         IN  /\ Optimistically(g, task.ColNo,
                   [i \in DOMAIN tasks |-> IF i \in WithID(task.ID, tasks)
                        THEN [tasks[i] EXCEPT !.Content = content] ELSE tasks[i]])
             /\ Sends(g, "toggle", task, {},
                      {[task EXCEPT !.ColNo = 0, !.Content = content]})
             /\ Notes(Overlap \cup When(task.ColNo # 0, "toggle"))
    BY <2>1
  <2> DEFINE tasks == Tasks(task.ColNo)
             new == [i \in DOMAIN tasks |-> IF i \in WithID(task.ID, tasks)
                        THEN [tasks[i] EXCEPT !.Content = content] ELSE tasks[i]]
  <2>3. task.ColNo \in Cols
    <3>1. task \in Entry
      BY <1>0, ShownTasks
    <3>2. QED
      BY <3>1 DEF Entry
  <2>4. \A i \in DOMAIN tasks : tasks[i] \in Entry
    BY <1>0, <2>3, ShownTasks, ElementOfSeq
  <2>5. DOMAIN new = DOMAIN tasks /\ \A i \in DOMAIN new : new[i].ID = tasks[i].ID
    BY <2>4 DEF Entry
  <2>6. Optimistically(g, task.ColNo, new)
    BY <2>2
  <2>7. DOMAIN shown = Cols
    BY <1>0 DEF TypeInv, BoardFits
  <2>8. Once(shown) => Once(shown')
    <3> HIDE DEF new
    <3>1. \A d \in Cols : shown'[d].tasks = IF d = task.ColNo THEN new ELSE shown[d].tasks
      BY <2>3, <2>6, <2>7 DEF Optimistically, Column
    <3>2. QED
      BY <2>5, <3>1, SamePlaces DEF Tasks
  <2>9. /\ kept' = [kept EXCEPT ![g] = shown]
        /\ Sends(g, "toggle", task, {}, {[task EXCEPT !.ColNo = 0, !.Content = content]})
        /\ mishaps' \subseteq mishaps \cup {"overlap", "toggle"} /\ mishaps \subseteq mishaps'
    BY <2>2 DEF Optimistically, Notes, Overlap, When
  <2>10. QED
    BY <2>8, <2>9, EditOnce
<1>3. CASE Opens(g)
  <2>1. /\ Goes(g, "open") /\ shown' = shown /\ kept' = kept
        /\ mishaps' \subseteq mishaps \cup {"overlap"} /\ mishaps \subseteq mishaps'
        /\ \A h \in Gestures : h # g => gesture'[h] = gesture[h]
    BY <1>0, <1>3 DEF Opens, Notes, Overlap, When, TypeInv, GesturesType
  <2>2. QED
    BY <2>1, OthersKept DEF OnceInv, Labels
<1>4. CASE SubmitsCreate(g)
  <2>1. PICK content \in Contents :
         LET new(order) == [ID |-> NoID, ColNo |-> 0, Order |-> order,
                            Content |-> content]
             length == Len(Tasks(0))
         IN  /\ Optimistically(g, 0, Append(Tasks(0), new(length + 1)))
             /\ Sends(g, "create", NoItem, {}, {new(length)})
    BY <1>4 DEF SubmitsCreate
  <2> DEFINE e == [ID |-> NoID, ColNo |-> 0, Order |-> Len(Tasks(0)) + 1, Content |-> content]
             tasks == Append(Tasks(0), e)
             p == [i \in DOMAIN tasks |-> i]
  <2>2. 0 \in Cols /\ Tasks(0) \in Seq(Entry) /\ Len(Tasks(0)) \in Nat
        /\ DOMAIN Tasks(0) = 1 .. Len(Tasks(0))
    BY <1>0, ShownTasks, BoardClientAssumption
  <2>3. e.ID \notin TaskIDs
    BY BoardClientAssumption
  <2>4. ASSUME NEW i \in DOMAIN tasks
        PROVE  \/ i \in DOMAIN Tasks(0) /\ tasks[i] = Tasks(0)[i]
               \/ tasks[i].ID \notin TaskIDs
    <3>1. i \in 1 .. Len(Tasks(0)) + 1
      BY <2>2
    <3> HIDE DEF e
    <3>2. QED
      BY <2>2, <2>3, <3>1
  <2>5. Once(shown) => Once(shown')
    <3> HIDE DEF e
    <3>1. Optimistically(g, 0, tasks)
      BY <2>1 DEF e
    <3> HIDE DEF tasks
    <3>2. \A i \in DOMAIN tasks : p[i] = i
      OBVIOUS
    <3> HIDE DEF p
    <3>3. \A i \in DOMAIN tasks : tasks[i].ID \in TaskIDs =>
              /\ p[i] \in DOMAIN Tasks(0) /\ Tasks(0)[p[i]].ID = tasks[i].ID
              /\ \A j \in DOMAIN tasks : p[i] = p[j] /\ tasks[j].ID \in TaskIDs => i = j
      BY <2>4, <3>2
    <3>4. QED
      BY <1>0, <2>2, <3>1, <3>3, OptimisticOnce
  <2>6. /\ kept' = [kept EXCEPT ![g] = shown] /\ mishaps' = mishaps
        /\ \E src, dst : Sends(g, "create", NoItem, src, dst)
    BY <1>4 DEF SubmitsCreate, Optimistically
  <2>7. QED
    BY <2>5, <2>6, EditOnce
<1>5. CASE SubmitsEdit(g)
  <2>1. /\ kept' = [kept EXCEPT ![g] = shown] /\ shown' = shown
        /\ mishaps' = mishaps \cup {"numbering"}
        /\ \E task, src, dst : Sends(g, "edit", task, src, dst)
    BY <1>5 DEF SubmitsEdit, Notes
  <2>2. QED
    BY <2>1, EditOnce
<1>6. CASE SubmitsDelete(g)
  <2> DEFINE task == gesture[g].task
             old == Tasks(task.ColNo)
             tasks == Without(task.ID, old)
  <2>1. Optimistically(g, task.ColNo, tasks) /\ Sends(g, "delete", task, {}, {task})
        /\ mishaps' = mishaps \cup {"numbering"}
    BY <1>6 DEF SubmitsDelete, Notes
  <2>2. task.ColNo \in Cols
    BY <1>0, <1>6 DEF TypeInv, Prepared, SubmitsDelete, Submitting, Entry
  <2>3. old \in Seq(Entry) /\ DOMAIN old = 1 .. Len(old) /\ Len(old) \in Nat
    BY <1>0, <2>2, ShownTasks
  <2>4. tasks \in Seq(Entry) /\ Filters(old, task.ID, Len(old), tasks)
    BY <2>3, WithoutPlaces
  <2> HIDE DEF tasks
  <2>5. DOMAIN tasks = 1 .. Len(tasks) /\ Len(tasks) \in Nat
    BY <2>4, LenProperties
  <2>6. PICK p \in [1 .. Len(tasks) -> 1 .. Len(old)] :
           /\ \A i, j \in 1 .. Len(tasks) : i < j => p[i] < p[j]
           /\ \A i \in 1 .. Len(tasks) : tasks[i] = old[p[i]]
    BY <2>4 DEF Filters
  <2>7. \A i, j \in 1 .. Len(tasks) : p[i] = p[j] => i = j
    <3>1. SUFFICES ASSUME NEW i \in 1 .. Len(tasks), NEW j \in 1 .. Len(tasks), p[i] = p[j], i # j
                   PROVE  FALSE
      OBVIOUS
    <3>2. p[i] \in Int /\ (i < j \/ j < i)
      BY <2>3, <2>5, <2>6, <3>1
    <3>3. p[i] < p[i]
      BY <2>6, <3>1, <3>2
    <3>4. QED
      BY <3>2, <3>3
  <2>8. Once(shown) => Once(shown')
    <3>1. \A i \in DOMAIN tasks :
             /\ p[i] \in DOMAIN Tasks(task.ColNo) /\ Tasks(task.ColNo)[p[i]].ID = tasks[i].ID
             /\ \A j \in DOMAIN tasks : p[i] = p[j] => i = j
      BY <2>3, <2>5, <2>6, <2>7
    <3>2. \A i \in DOMAIN tasks : tasks[i].ID \in TaskIDs =>
             /\ p[i] \in DOMAIN Tasks(task.ColNo) /\ Tasks(task.ColNo)[p[i]].ID = tasks[i].ID
             /\ \A j \in DOMAIN tasks : p[i] = p[j] /\ tasks[j].ID \in TaskIDs => i = j
      BY <3>1
    <3> HIDE DEF task, old
    <3>3. QED
      BY <1>0, <2>1, <2>2, <3>2, OptimisticOnce
  <2>9. kept' = [kept EXCEPT ![g] = shown]
    BY <2>1 DEF Optimistically
  <2>10. QED
    BY <2>1, <2>8, <2>9, EditOnce
<1>7. QED
  BY <1>1, <1>2, <1>3, <1>4, <1>5, <1>6 DEF UserActs

\* What is shown after an answer, or a load, shows each task once as well.
LEMMA HandlesOnce ==
    ASSUME OnceInv, TypeInv', NEW g \in Gestures, Handles(g)
    PROVE  OnceInv'
<1>0. TypeInv
  BY DEF OnceInv
<1>1. CASE EditAnswered(g)
  <2>1. PICK label \in {"loading", "done"} : Goes(g, label)
    BY <1>1 DEF EditAnswered, Reloads
  <2>2. \A h \in Gestures : h # g => gesture'[h] = gesture[h] /\ kept'[h] = kept[h]
    BY <1>0, <1>1 DEF EditAnswered, Taken, TypeInv, GesturesType, KeptFits
  <2>3. mishaps \subseteq mishaps'
    BY <1>1 DEF EditAnswered, Reloads, Notes
  <2>4. "overlap" \notin mishaps' =>
           \A h \in Gestures : pc'[h] = "sent" /\ gesture'[h].kind # "drag" => Once(kept'[h])
    BY <2>1, <2>2, <2>3, OthersKept DEF Labels
  <2>5. CASE call[g].dst = "failed"
    <3>1. /\ shown' = kept[g] /\ pc[g] = "sent" /\ gesture[g].kind # "drag"
          /\ mishaps' = mishaps \cup (IF "overlap" \in mishaps THEN {"late rollback"} ELSE {})
      BY <1>1, <2>5 DEF EditAnswered, Notes, When
    <3>2. CASE "overlap" \in mishaps
      <4>1. mishaps' = mishaps \cup {"late rollback"}
        BY <3>1, <3>2
      <4>2. QED
        BY <2>4, <3>2, <4>1 DEF OnceInv
    <3>3. CASE "overlap" \notin mishaps
      <4>1. mishaps' = mishaps /\ Once(shown')
        BY <3>1, <3>3 DEF OnceInv
      <4>2. QED
        BY <2>4, <4>1 DEF OnceInv
    <3>4. QED
      BY <3>2, <3>3
  <2>6. CASE call[g].dst # "failed"
    <3>1. shown' = shown /\ mishaps' \subseteq mishaps \cup {"no cookie"}
      BY <1>1, <2>6 DEF EditAnswered, Reloads, Notes, When
    <3>2. QED
      BY <2>3, <2>4, <3>1 DEF OnceInv
  <2>7. QED
    BY <2>5, <2>6
<1>2. CASE DragAnswered(g)
  <2>1. PICK label \in {"loading", "done"} : Goes(g, label)
    BY <1>2 DEF DragAnswered, Reloads
  <2>2. \A h \in Gestures : h # g => gesture'[h] = gesture[h] /\ kept'[h] = kept[h]
    BY <1>0, <1>2 DEF DragAnswered, Taken, TypeInv, GesturesType
  <2>3. /\ shown' = shown /\ mishaps \subseteq mishaps'
        /\ mishaps' \subseteq mishaps \cup {"no cookie", "split drag"}
    BY <1>2 DEF DragAnswered, Reloads, Notes, When
  <2>4. QED
    BY <2>1, <2>2, <2>3, OthersKept DEF OnceInv, Labels
<1>3. CASE LoadReads(g)
  <2>1. /\ Goes(g, "loaded") /\ shown' = shown /\ mishaps \subseteq mishaps'
        /\ mishaps' \subseteq mishaps \cup {"old read"}
        /\ gesture' = gesture /\ kept' = kept
    BY <1>3 DEF LoadReads, Notes, When
  <2>2. QED
    BY <2>1, OthersKept DEF OnceInv, Labels
<1>4. CASE LoadShows(g)
  <2>1. /\ Goes(g, "done") /\ mishaps \subseteq mishaps'
        /\ mishaps' \subseteq mishaps \cup {"late load"}
        /\ gesture' = gesture /\ kept' = kept
    BY <1>4 DEF LoadShows, Notes, When
  <2>2. got[g] \in Board
    BY <1>0, <1>4 DEF LoadShows, TypeInv, Prepared
  <2>3. PICK f \in Layouts(got[g]) : shown' = [c \in Cols |-> Column(<< g, "load" >>, f[c])]
    BY <1>4 DEF LoadShows
  <2>4. Once(shown')
    BY <2>2, <2>3, LayoutOnce
  <2>5. QED
    BY <2>1, <2>4, OthersKept DEF OnceInv, Labels
<1>5. CASE LoadFails(g)
  <2>1. /\ Goes(g, "done") /\ shown' = shown /\ mishaps' = mishaps \cup {"no load"}
        /\ gesture' = gesture /\ kept' = kept
    BY <1>5 DEF LoadFails, Notes
  <2>2. QED
    BY <2>1, OthersKept DEF OnceInv, Labels
<1>6. QED
  BY <1>1, <1>2, <1>3, <1>4, <1>5 DEF Handles

\* However gestures, answers and loads interleave, no task is shown in two
\* places, unless an edit went back to a board that was dragged since.
THEOREM EachShownOnce == Spec => []ShownOnce
<1>1. Init => OnceInv
  <2> SUFFICES ASSUME Init PROVE OnceInv
    OBVIOUS
  <2>1. table \in Board
    BY DEF Init, Board
  <2>2. Once(shown)
    BY <2>1, LayoutOnce DEF Init
  <2>3. QED
    BY <2>2, InitTypes DEF Init, OnceInv
<1>2. OnceInv /\ [Next]_vars => OnceInv'
  <2> SUFFICES ASSUME OnceInv, [Next]_vars PROVE OnceInv'
    OBVIOUS
  <2>1. TypeInv'
    BY TypesStep DEF OnceInv
  <2>2. ASSUME UNCHANGED << shown, pc, gesture, kept >>, mishaps \subseteq mishaps',
               "late rollback" \in mishaps' => "late rollback" \in mishaps
        PROVE  OnceInv'
    BY <2>1, <2>2 DEF OnceInv
  <2>3. ASSUME NEW g \in Gestures, NEW way \in {"src", "dst"},
               Ends(g, way) \/ StoresUnanswered(g, way)
        PROVE  OnceInv'
    <3>1. UNCHANGED << shown, pc, gesture, kept >>
      BY <2>3 DEF Ends, Answers, Refuses, StoresUnanswered
    <3>2. \E happened \in SUBSET {"lost answer", "numbering"} : mishaps' = mishaps \cup happened
      <4>1. CASE Answers(g, way)
        <5>1. mishaps' = mishaps \cup {}
          BY <4>1 DEF Answers
        <5>2. QED
          BY <5>1
      <4>2. CASE Refuses(g, way)
        BY <4>2 DEF Refuses, Notes, When
      <4>3. CASE StoresUnanswered(g, way)
        BY <4>3 DEF StoresUnanswered, Notes
      <4>4. QED
        BY <2>3, <4>1, <4>2, <4>3 DEF Ends
    <3>3. QED
      BY <2>2, <3>1, <3>2
  <2>4. CASE CookieGoes \/ UNCHANGED vars
    BY <2>2, <2>4 DEF CookieGoes, vars
  <2>5. QED
    BY <2>1, <2>3, <2>4, UserActsOnce, HandlesOnce DEF Next
<1>3. OnceInv => ShownOnce
  BY DEF OnceInv, Once, ShownOnce, Tasks
<1>4. QED
  BY <1>1, <1>2, <1>3, PTL DEF Spec

-----------------------------------------------------------------------------
\* What every step keeps.
SpinnerInv ==
    /\ pc \in [Gestures -> Labels]
    /\ spinner \in BOOLEAN
    /\ SpinnerStops

\* A gesture that was not loading, and goes on, takes no load away.
LEMMA OthersLoad ==
    ASSUME SpinnerInv, NEW g \in Gestures, NEW label \in Labels,
           ~Loading(g) \/ label = "loaded", Goes(g, label),
           UNCHANGED spinner, mishaps \subseteq mishaps'
    PROVE  SpinnerInv'
<1>1. pc' \in [Gestures -> Labels]
  BY DEF Goes, SpinnerInv
<1>2. \A h \in Gestures : Loading(h) => Loading(h)'
  BY DEF Goes, Loading, SpinnerInv
<1>3. QED
  BY <1>1, <1>2 DEF SpinnerInv, SpinnerStops

\* A step that leaves the gestures where they are keeps the invariant.
LEMMA NobodyMoves ==
    ASSUME SpinnerInv, UNCHANGED << pc, spinner >>, mishaps \subseteq mishaps'
    PROVE  SpinnerInv'
BY DEF SpinnerInv, SpinnerStops, Loading

\* A load that ends stops the spinner.
LEMMA LoadStops ==
    ASSUME SpinnerInv, NEW g \in Gestures, Goes(g, "done"), spinner' = FALSE
    PROVE  SpinnerInv'
BY DEF SpinnerInv, SpinnerStops, Goes, Labels

\* The user's gestures do not touch the spinner.
LEMMA SendsOnly ==
    ASSUME NEW g, NEW kind, NEW task, NEW src, NEW dst,
           Sends(g, kind, task, src, dst)
    PROVE  Goes(g, "sent") /\ UNCHANGED spinner
BY DEF Sends

\* So they keep the invariant.
LEMMA UserActsStep ==
    ASSUME SpinnerInv, NEW g \in Gestures, UserActs(g)
    PROVE  SpinnerInv'
<1>1. ~Loading(g)
  BY DEF UserActs, Drag, Toggle, Opens, SubmitsCreate, SubmitsEdit,
     SubmitsDelete, MayAct, Submitting, Loading
<1>2. mishaps \subseteq mishaps'
  BY DEF UserActs, Drag, Toggle, Opens, SubmitsCreate, SubmitsEdit,
     SubmitsDelete, Notes
<1>3. CASE Drag(g)
  BY <1>1, <1>2, <1>3, SendsOnly, OthersLoad DEF Drag, Labels
<1>4. CASE Toggle(g)
  BY <1>1, <1>2, <1>4, SendsOnly, OthersLoad DEF Toggle, Labels
<1>5. CASE Opens(g)
  BY <1>1, <1>2, <1>5, OthersLoad DEF Opens, Labels
<1>6. CASE SubmitsCreate(g)
  BY <1>1, <1>2, <1>6, SendsOnly, OthersLoad DEF SubmitsCreate, Labels
<1>7. CASE SubmitsEdit(g)
  BY <1>1, <1>2, <1>7, SendsOnly, OthersLoad DEF SubmitsEdit, Labels
<1>8. CASE SubmitsDelete(g)
  BY <1>1, <1>2, <1>8, SendsOnly, OthersLoad DEF SubmitsDelete, Labels
<1>9. QED
  BY <1>3, <1>4, <1>5, <1>6, <1>7, <1>8 DEF UserActs

\* Whoever takes an answer and starts the spinner starts a load, if only
\* there is a cookie.
LEMMA DragAnsweredStep ==
    ASSUME SpinnerInv, NEW g \in Gestures, DragAnswered(g)
    PROVE  SpinnerInv'
<1>1. CASE cookie
  <2>1. Goes(g, "loading")
    BY <1>1 DEF DragAnswered, Reloads
  <2>2. pc' \in [Gestures -> Labels] /\ Loading(g)'
    BY <2>1 DEF Goes, Loading, Labels, SpinnerInv
  <2>3. QED
    BY <2>2 DEF DragAnswered, SpinnerInv, SpinnerStops
<1>2. CASE ~cookie
  <2>1. Goes(g, "done") /\ "no cookie" \in mishaps'
    BY <1>2 DEF DragAnswered, Reloads, Notes, When
  <2>2. QED
    BY <2>1 DEF DragAnswered, SpinnerInv, SpinnerStops, Goes, Labels
<1>3. QED
  BY <1>1, <1>2

\* Taking an answer, or a board that was loaded, keeps the invariant.
LEMMA HandlesStep ==
    ASSUME SpinnerInv, NEW g \in Gestures, Handles(g)
    PROVE  SpinnerInv'
<1>1. CASE EditAnswered(g)
  <2>1. \E label \in {"loading", "done"} : Goes(g, label)
    BY <1>1 DEF EditAnswered, Reloads
  <2>2. UNCHANGED spinner /\ mishaps \subseteq mishaps' /\ ~Loading(g)
    BY <1>1 DEF EditAnswered, Reloads, Notes, Loading
  <2>3. QED
    BY <2>1, <2>2, OthersLoad DEF Labels
<1>2. CASE LoadReads(g)
  BY <1>2, OthersLoad DEF LoadReads, Notes, Labels
<1>3. CASE LoadShows(g) \/ LoadFails(g)
  BY <1>3, LoadStops DEF LoadShows, LoadFails, LoadEnds
<1>4. QED
  BY <1>1, <1>2, <1>3, DragAnsweredStep DEF Handles

\* The spinner is on only while a load goes on that will stop it, or the
\* cookie was gone when the load should have started.
THEOREM TheSpinnerStops == Spec => []SpinnerStops
<1>1. Init => SpinnerInv
  BY DEF Init, SpinnerInv, SpinnerStops, Labels
<1>2. SpinnerInv /\ [Next]_vars => SpinnerInv'
  <2> SUFFICES ASSUME SpinnerInv, [Next]_vars PROVE SpinnerInv'
    OBVIOUS
  <2>1. ASSUME NEW g \in Gestures, NEW way \in {"src", "dst"},
               Ends(g, way) \/ StoresUnanswered(g, way)
        PROVE  SpinnerInv'
    BY <2>1, NobodyMoves DEF Ends, Answers, Refuses, StoresUnanswered, Notes
  <2>2. CASE CookieGoes \/ UNCHANGED vars
    BY <2>2, NobodyMoves DEF CookieGoes, vars
  <2>3. QED
    BY <2>1, <2>2, UserActsStep, HandlesStep DEF Next
<1>3. SpinnerInv => SpinnerStops
  BY DEF SpinnerInv
<1>4. QED
  BY <1>1, <1>2, <1>3, PTL DEF Spec

=============================================================================
