-------------------------- MODULE BoardQuiet_proofs -------------------------
(***************************************************************************)
(* For any number of gestures, tasks, columns and contents: once everything*)
(* is answered the board is shown as it is stored, though calls have       *)
(* failed, if none of the mishaps has happened that the client does not    *)
(* mend; and a drag moves the task that was dragged, if none has happened  *)
(* that breaks the numbering of a column.                                  *)
(***************************************************************************)
EXTENDS BoardClient_proofs

\* A board shows what is stored, and each task once.
Shows(t, board) ==
    \A c \in Cols : /\ Range(board[c].tasks) = StoredIn(t, c)
                    /\ IsInjective(board[c].tasks)

\* The table after the call of an edit that changes one task.
After(g, e) ==
    [table EXCEPT ![e.ID] = IF gesture[g].kind = "toggle" THEN ItemOf(e) ELSE NoItem]

\* What an edit that has been sent has kept, and shows.
Edits(g) ==
    /\ gesture[g].kind # "none" /\ call[g].src = "none"
    /\ call[g].dst # "ok" => Shows(table, kept[g])
    /\ gesture[g].kind \in {"toggle", "delete"} =>
          /\ call[g].dst = "sent" =>
                \E e \in body[g].dst :
                   /\ body[g].dst = {e} /\ e.ID \in TaskIDs
                   /\ Shows(After(g, e), shown)
          /\ call[g].dst = "ok" => Shows(table, shown)

\* What a gesture relies on while it is under way.
Waits(g) ==
    /\ \A way \in {"src", "dst"} :
          call[g][way] # "again" /\ (Pending(g, way) => pc[g] = "sent")
    /\ pc[g] = "open" /\ gesture[g].kind = "delete" =>
          gesture[g].task \in StoredIn(table, gesture[g].task.ColNo)
    /\ pc[g] = "loaded" => got[g] = table
    /\ pc[g] = "sent" => call[g].dst # "none"
    /\ pc[g] = "sent" /\ gesture[g].kind # "drag" => Edits(g)

\* No mishap but those of numbering.
NoMishap == mishaps \subseteq {"numbering"}

\* What every step keeps, besides the types: one gesture is under way, and
\* when none is, the board is shown as it is stored.
QuietInv ==
    /\ TypeInv
    /\ NoMishap =>
          /\ \A g, h \in Gestures : Busy(g) /\ Busy(h) => g = h
          /\ (\A g \in Gestures : pc[g] \in {"idle", "open", "done"}) => Shows(table, shown)
          /\ \A g \in Gestures : Waits(g)

\* A gesture that is not under way waits for nothing.
LEMMA RestWaits ==
    ASSUME TypeInv, NEW h \in Gestures, Waits(h), ~Busy(h), pc'[h] = pc[h], call'[h] = call[h]
    PROVE  Waits(h)' /\ ~Busy(h)' /\ pc'[h] \in {"idle", "done"}
<1>1. pc[h] \in {"idle", "done"} /\ ~Pending(h, "src")
  BY DEF Busy
<1>2. \A way \in {"src", "dst"} : ~Pending(h, way) /\ call[h][way] # "again"
  BY <1>1 DEF Waits
<1>3. \A way \in {"src", "dst"} : ~Pending(h, way)' /\ call'[h][way] # "again"
  BY <1>2 DEF Pending
<1>4. QED
  BY <1>1, <1>3 DEF Waits, Busy

\* A step of the only gesture that is under way keeps the invariant, if it
\* has what it relies on after it, and shows what is stored when it is done.
LEMMA OnlyOne ==
    ASSUME QuietInv, TypeInv', NEW g \in Gestures, mishaps \subseteq mishaps',
           \A h \in Gestures : h # g => pc'[h] = pc[h] /\ call'[h] = call[h],
           NoMishap' => /\ Busy(g) \/ Quiet
                        /\ Waits(g)'
                        /\ pc'[g] \in {"idle", "open", "done"} => Shows(table, shown)'
    PROVE  QuietInv'
<1> SUFFICES ASSUME NoMishap'
             PROVE  /\ \A h, k \in Gestures : Busy(h)' /\ Busy(k)' => h = k
                    /\ (\A h \in Gestures : pc'[h] \in {"idle", "open", "done"})
                          => Shows(table, shown)'
                    /\ \A h \in Gestures : Waits(h)'
  BY DEF QuietInv
<1>1. NoMishap
  BY DEF NoMishap
<1>2. ASSUME NEW h \in Gestures, h # g PROVE Waits(h)' /\ ~Busy(h)'
  <2>1. ~Busy(h) /\ Waits(h) /\ pc'[h] = pc[h] /\ call'[h] = call[h]
    BY <1>1, <1>2 DEF QuietInv, Quiet
  <2>2. QED
    BY <2>1, RestWaits DEF QuietInv
<1>3. QED
  BY <1>2

\* Together with NoMishap', what a step can use.
LEMMA Alone ==
    ASSUME QuietInv, NoMishap, NEW g \in Gestures, Busy(g)
    PROVE  \A h \in Gestures : h # g => pc[h] \in {"idle", "done"}
BY DEF QuietInv, Busy

\* The states of a call and of its gesture.
LEMMA CallTypes ==
    ASSUME TypeInv, NEW g \in Gestures
    PROVE  /\ call[g].src \in CallStates /\ call[g].dst \in CallStates
           /\ pc[g] \in Labels /\ gesture[g].kind \in Kinds
BY DEF TypeInv, CallsType, GesturesType

-----------------------------------------------------------------------------
\* An answer to a call carries its change out.
LEMMA AnswersQuiet ==
    ASSUME QuietInv, TypeInv', NEW g \in Gestures, NEW way \in {"src", "dst"},
           Answers(g, way)
    PROVE  QuietInv'
<1>1. /\ TypeInv /\ mishaps' = mishaps /\ Pending(g, way)
      /\ UNCHANGED << shown, pc, gesture, body, kept >>
      /\ call' = [call EXCEPT ![g][way] = "ok"]
  BY DEF QuietInv, Answers, Call
<1>2. \A h \in Gestures : h # g => pc'[h] = pc[h] /\ call'[h] = call[h]
  BY <1>1 DEF TypeInv, CallsType
<1>3. /\ call'[g][way] = "ok"
      /\ \A other \in {"src", "dst"} : other # way => call'[g][other] = call[g][other]
  BY <1>1 DEF TypeInv, CallsType
<1>4. ASSUME NoMishap
      PROVE  Busy(g) /\ Waits(g)' /\ pc'[g] \notin {"idle", "open", "done"}
  <2>1. Waits(g)
    BY <1>4 DEF QuietInv
  <2>2. pc[g] = "sent" /\ Busy(g) /\ call[g][way] = "sent"
    BY <1>1, <2>1 DEF Waits, Busy, Pending
  <2>3. Stores(g, way)
    BY <2>2 DEF Answers, Recognised
  <2>4. \A other \in {"src", "dst"} : call'[g][other] # "again"
    BY <1>3, <2>1 DEF Waits
  <2>5. ASSUME gesture[g].kind # "drag" PROVE Edits(g)'
    <3>1. Edits(g)
      BY <2>1, <2>2, <2>5 DEF Waits
    <3>2. way = "dst"
      BY <2>2, <3>1 DEF Edits
    <3>3. call'[g].src = "none" /\ call'[g].dst = "ok"
      BY <1>3, <3>1, <3>2 DEF Edits
    <3>4. ASSUME gesture[g].kind \in {"toggle", "delete"} PROVE Shows(table', shown')
      <4>1. PICK e \in body[g].dst :
               body[g].dst = {e} /\ e.ID \in TaskIDs /\ Shows(After(g, e), shown)
        BY <2>2, <3>1, <3>2, <3>4 DEF Edits
      <4>2. table \in Board
        BY <1>1 DEF TypeInv, StoreType
      <4>3. table' = After(g, e)
        <5>1. CASE gesture[g].kind = "delete"
          BY <2>3, <3>2, <4>1, <5>1 DEF Stores, Changes, After
        <5>2. CASE gesture[g].kind = "toggle"
          <6>1. Puts({e})
            BY <2>3, <3>2, <4>1, <5>2 DEF Stores, Changes
          <6>2. (CHOOSE f \in {e} : f.ID = e.ID) = e
            OBVIOUS
          <6>3. table' = [id \in TaskIDs |-> IF e.ID = id THEN ItemOf(e) ELSE table[id]]
            BY <6>1, <6>2 DEF Puts
          <6>4. QED
            BY <4>1, <4>2, <5>2, <6>3 DEF After, Board
        <5>3. QED
          BY <3>4, <5>1, <5>2
      <4>4. QED
        BY <1>1, <4>1, <4>3
    <3>5. QED
      BY <1>1, <3>1, <3>3, <3>4 DEF Edits
  <2>6. call[g].dst # "none" /\ call'[g].dst # "none"
    BY <1>3, <2>1, <2>2 DEF Waits
  <2>7. Waits(g)'
    BY <1>1, <2>2, <2>4, <2>5, <2>6 DEF Waits
  <2>8. QED
    BY <1>1, <2>2, <2>7
<1>5. QED
  BY <1>1, <1>2, <1>4, OnlyOne DEF NoMishap

\* A call that is refused leaves the table as what is kept shows it.
LEMMA RefusesQuiet ==
    ASSUME QuietInv, TypeInv', NEW g \in Gestures, NEW way \in {"src", "dst"},
           Refuses(g, way)
    PROVE  QuietInv'
<1>1. /\ TypeInv /\ mishaps \subseteq mishaps' /\ Pending(g, way)
      /\ UNCHANGED << table, shown, pc, gesture, body, kept >>
      /\ call' = [call EXCEPT ![g][way] = "failed"]
  BY DEF QuietInv, Refuses, Call, Notes, store
<1>2. \A h \in Gestures : h # g => pc'[h] = pc[h] /\ call'[h] = call[h]
  BY <1>1 DEF TypeInv, CallsType
<1>3. /\ call'[g][way] = "failed"
      /\ \A other \in {"src", "dst"} : other # way => call'[g][other] = call[g][other]
  BY <1>1 DEF TypeInv, CallsType
<1>4. ASSUME NoMishap
      PROVE  Busy(g) /\ Waits(g)' /\ pc'[g] \notin {"idle", "open", "done"}
  <2>1. Waits(g)
    BY <1>4 DEF QuietInv
  <2>2. pc[g] = "sent" /\ Busy(g) /\ call[g][way] = "sent"
    BY <1>1, <2>1 DEF Waits, Busy, Pending
  <2>3. \A other \in {"src", "dst"} : call'[g][other] # "again"
    BY <1>3, <2>1 DEF Waits
  <2>4. ASSUME gesture[g].kind # "drag" PROVE Edits(g)'
    <3>1. Edits(g)
      BY <2>1, <2>2, <2>4 DEF Waits
    <3>2. way = "dst"
      BY <2>2, <3>1 DEF Edits
    <3>3. call'[g].src = "none" /\ call'[g].dst = "failed" /\ Shows(table, kept[g])
      BY <1>3, <2>2, <3>1, <3>2 DEF Edits
    <3>4. QED
      BY <1>1, <3>1, <3>3 DEF Edits
  <2>5. call'[g].dst # "none"
    BY <1>3, <2>1, <2>2 DEF Waits
  <2>6. Waits(g)'
    BY <1>1, <2>2, <2>3, <2>4, <2>5 DEF Waits
  <2>7. QED
    BY <1>1, <2>2, <2>6
<1>5. QED
  BY <1>1, <1>2, <1>4, OnlyOne DEF NoMishap

-----------------------------------------------------------------------------
\* What is left of a gesture with no call under way.
LEMMA TakenWaits ==
    ASSUME TypeInv, NEW g \in Gestures, Taken(g), ~Pending(g, "src"),
           pc'[g] \in {"loading", "done"}
    PROVE  Waits(g)' /\ \A h \in Gestures : h # g => call'[h] = call[h]
<1>1. call' = [call EXCEPT ![g] = [src |-> "none", dst |-> "none"]]
  BY DEF Taken
<1>2. call'[g] = [src |-> "none", dst |-> "none"] /\ \A h \in Gestures : h # g => call'[h] = call[h]
  BY <1>1 DEF TypeInv, CallsType
<1>3. \A way \in {"src", "dst"} : call'[g][way] = "none"
  BY <1>2
<1>4. QED
  BY <1>2, <1>3 DEF Waits, Pending

\* An answer to an edit: what is shown then is stored, or is loaded.
LEMMA EditAnsweredQuiet ==
    ASSUME QuietInv, TypeInv', NEW g \in Gestures, EditAnswered(g)
    PROVE  QuietInv'
<1>1. /\ TypeInv /\ mishaps \subseteq mishaps' /\ pc[g] = "sent" /\ gesture[g].kind # "drag"
      /\ ~Pending(g, "dst") /\ table' = table /\ Taken(g) /\ Busy(g)
  BY DEF QuietInv, EditAnswered, Notes, Reloads, store, Busy
<1>2. PICK label \in {"loading", "done"} : Goes(g, label)
  BY DEF EditAnswered, Reloads
<1>3. pc'[g] = label /\ \A h \in Gestures : h # g => pc'[h] = pc[h]
  BY <1>1, <1>2 DEF Goes, TypeInv, GesturesType
<1>4. \A h \in Gestures : h # g => call'[h] = call[h]
  BY <1>1 DEF Taken, TypeInv, CallsType
<1>5. ASSUME NoMishap'
      PROVE  Waits(g)' /\ (pc'[g] = "done" => Shows(table', shown'))
  <2>1. NoMishap /\ Waits(g) /\ Edits(g)
    BY <1>1, <1>5 DEF NoMishap, QuietInv, Waits
  <2>2. ~Pending(g, "src")
    BY <2>1 DEF Edits, Pending
  <2>3. Waits(g)'
    BY <1>1, <1>3, <2>2, TakenWaits
  <2>4. CASE call[g].dst = "failed"
    BY <1>1, <2>1, <2>3, <2>4 DEF EditAnswered, Edits
  <2>5. CASE call[g].dst # "failed"
    <3>1. call[g].dst = "ok"
      BY <1>1, <2>1, <2>5, CallTypes DEF Waits, Pending, CallStates
    <3>2. CASE gesture[g].kind \in {"create", "edit"}
      <4>1. Reloads(g, {})
        BY <2>5, <3>2 DEF EditAnswered
      <4>2. cookie
        BY <1>5, <4>1 DEF Reloads, Notes, When, NoMishap
      <4>3. pc'[g] = "loading"
        BY <1>1, <4>1, <4>2 DEF Reloads, Goes, TypeInv, GesturesType
      <4>4. QED
        BY <2>3, <4>3
    <3>3. CASE gesture[g].kind \notin {"create", "edit"}
      <4>1. gesture[g].kind \in {"toggle", "delete"}
        BY <1>1, <2>1, <3>3, CallTypes DEF Edits, Kinds
      <4>2. shown' = shown
        BY <2>5, <3>3 DEF EditAnswered
      <4>3. QED
        BY <1>1, <2>1, <2>3, <3>1, <4>1, <4>2 DEF Edits
    <3>4. QED
      BY <3>2, <3>3
  <2>6. QED
    BY <2>4, <2>5
<1>6. QED
  BY <1>1, <1>2, <1>3, <1>4, <1>5, OnlyOne

\* The answers to a drag: the board is loaded, after both.
LEMMA DragAnsweredQuiet ==
    ASSUME QuietInv, TypeInv', NEW g \in Gestures, DragAnswered(g)
    PROVE  QuietInv'
<1>1. /\ TypeInv /\ mishaps \subseteq mishaps' /\ pc[g] = "sent" /\ Awaited(g)
      /\ table' = table /\ Taken(g) /\ Busy(g)
      /\ Reloads(g, When(call[g].dst = "failed" /\ Pending(g, "src"), "split drag"))
  BY DEF QuietInv, DragAnswered, Notes, Reloads, store, Busy
<1>2. PICK label \in {"loading", "done"} : Goes(g, label)
  BY <1>1 DEF Reloads
<1>3. pc'[g] = label /\ \A h \in Gestures : h # g => pc'[h] = pc[h]
  BY <1>1, <1>2 DEF Goes, TypeInv, GesturesType
<1>4. \A h \in Gestures : h # g => call'[h] = call[h]
  BY <1>1 DEF Taken, TypeInv, CallsType
<1>5. ASSUME NoMishap'
      PROVE  Waits(g)' /\ pc'[g] = "loading"
  <2>1. NoMishap /\ Waits(g)
    BY <1>1, <1>5 DEF NoMishap, QuietInv
  <2>2. call[g].dst \in {"ok", "failed"}
    BY <1>1, <2>1, CallTypes DEF Waits, Awaited, Pending, CallStates
  <2>3. ~(call[g].dst = "failed" /\ Pending(g, "src")) /\ cookie
    BY <1>1, <1>5 DEF Reloads, Notes, When, NoMishap
  <2>4. ~Pending(g, "src")
    BY <1>1, <2>2, <2>3 DEF Awaited
  <2>5. pc'[g] = "loading"
    BY <1>1, <2>3 DEF Reloads, Goes, TypeInv, GesturesType
  <2>6. QED
    BY <1>1, <2>4, <2>5, TakenWaits
<1>6. QED
  BY <1>1, <1>3, <1>4, <1>5, OnlyOne

\* What a load reads is stored, and then is shown.
LEMMA LoadsQuiet ==
    ASSUME QuietInv, TypeInv', NEW g \in Gestures,
           LoadReads(g) \/ LoadShows(g) \/ LoadFails(g)
    PROVE  QuietInv'
<1>1. /\ TypeInv /\ mishaps \subseteq mishaps' /\ table' = table /\ Busy(g)
      /\ call' = call /\ gesture' = gesture
      /\ pc[g] \in {"loading", "loaded"}
      /\ \E label \in {"loaded", "done"} : Goes(g, label)
  BY DEF QuietInv, LoadReads, LoadShows, LoadFails, Loading, Notes, store, calls, Busy
<1>2. /\ \A h \in Gestures : h # g => pc'[h] = pc[h]
      /\ pc'[g] \in {"loaded", "done"}
  BY <1>1 DEF Goes, TypeInv, GesturesType
<1>3. ASSUME NoMishap'
      PROVE  /\ pc'[g] = "loaded" => got'[g] = table'
             /\ pc'[g] = "done" => Shows(table', shown')
  <2>1. NoMishap /\ Waits(g)
    BY <1>1, <1>3 DEF NoMishap, QuietInv
  <2>2. CASE LoadReads(g)
    <3>1. PICK t : got' = [got EXCEPT ![g] = t] /\ Notes(When(t # table, "old read"))
      BY <2>2 DEF LoadReads
    <3>2. t = table
      BY <1>3, <3>1 DEF Notes, When, NoMishap
    <3>3. got'[g] = table'
      BY <1>1, <3>1, <3>2 DEF TypeInv, LoadsType
    <3>4. pc'[g] = "loaded"
      BY <1>1, <2>2 DEF LoadReads, Goes, TypeInv, GesturesType
    <3>5. QED
      BY <3>3, <3>4
  <2>3. CASE LoadShows(g)
    <3>1. pc'[g] = "done" /\ got[g] = table
      BY <1>1, <2>1, <2>3 DEF LoadShows, Goes, TypeInv, GesturesType, Waits
    <3>2. PICK f \in Layouts(table) : shown' = [c \in Cols |-> Column(<< g, "load" >>, f[c])]
      BY <2>3, <3>1 DEF LoadShows
    <3>3. table \in Board
      BY <1>1 DEF TypeInv, StoreType
    <3>4. Shows(table, shown')
      BY <3>2, <3>3, LayoutColumns DEF Shows, Column
    <3>5. QED
      BY <1>1, <3>1, <3>4
  <2>4. ASSUME LoadFails(g) PROVE FALSE
    <3>1. mishaps' = mishaps \cup {"no load"}
      BY <2>4 DEF LoadFails, Notes
    <3>2. QED
      BY <1>3, <3>1 DEF NoMishap
  <2>5. QED
    BY <2>2, <2>3, <2>4
<1>4. ASSUME NoMishap' PROVE Waits(g)'
  <2>1. Waits(g)
    BY <1>1, <1>4 DEF NoMishap, QuietInv
  <2>2. \A way \in {"src", "dst"} : ~Pending(g, way) /\ call[g][way] # "again"
    BY <1>1, <2>1 DEF Waits
  <2>3. \A way \in {"src", "dst"} : ~Pending(g, way)' /\ call'[g][way] # "again"
    BY <1>1, <2>2 DEF Pending
  <2>4. QED
    BY <1>2, <1>3, <1>4, <2>3 DEF Waits
<1>5. QED
  BY <1>1, <1>2, <1>3, <1>4, OnlyOne

-----------------------------------------------------------------------------
\* A user who waits acts on what is stored.
LEMMA ActsOnStored ==
    ASSUME QuietInv, NEW g \in Gestures, NoMishap,
           (MayAct(g) /\ Quiet) \/ pc[g] = "open"
    PROVE  /\ Shows(table, shown) /\ (Busy(g) \/ Quiet)
           /\ Waits(g) /\ pc[g] \in {"idle", "open"}
           /\ call[g] = [src |-> "none", dst |-> "none"]
<1>1. \A h \in Gestures : pc[h] \in {"idle", "open", "done"}
  <2>1. CASE Quiet
    BY <2>1 DEF Quiet, Busy
  <2>2. CASE pc[g] = "open"
    <3>1. Busy(g)
      BY <2>2 DEF Busy
    <3>2. QED
      BY <2>2, <3>1, Alone
  <2>3. QED
    BY <2>1, <2>2
<1>2. Shows(table, shown) /\ Waits(g)
  BY <1>1 DEF QuietInv
<1>3. (Busy(g) \/ Quiet) /\ pc[g] \in {"idle", "open"}
  BY DEF Busy, MayAct
<1>4. QED
  BY <1>2, <1>3 DEF QuietInv, TypeInv, Prepared

\* What a gesture has sent that relies on what it has kept and shows.
LEMMA SentQuiet ==
    ASSUME QuietInv, TypeInv', NEW g \in Gestures, NEW kind \in Kinds \ {"none"}, NEW task,
           NEW src, NEW dst, Sends(g, kind, task, src, dst),
           (MayAct(g) /\ (NoMishap' => Quiet)) \/ pc[g] = "open",
           mishaps \subseteq mishaps',
           kind # "drag" => src = {} /\ kept' = [kept EXCEPT ![g] = shown],
           NoMishap' /\ kind \in {"toggle", "delete"} =>
              \E e \in dst : /\ dst = {e} /\ e.ID \in TaskIDs
                             /\ Shows([table EXCEPT ![e.ID] = IF kind = "toggle" THEN ItemOf(e)
                                                              ELSE NoItem], shown')
    PROVE  QuietInv'
<1>1. /\ TypeInv /\ table' = table
      /\ pc' = [pc EXCEPT ![g] = "sent"]
      /\ gesture' = [gesture EXCEPT ![g] = [kind |-> kind, task |-> task]]
      /\ body' = [body EXCEPT ![g] = [src |-> src, dst |-> dst]]
      /\ call' = [call EXCEPT ![g] = [src |-> IF src = {} THEN "none" ELSE "sent",
                                      dst |-> "sent"]]
  BY DEF QuietInv, Sends, Goes, store
<1>2. /\ pc'[g] = "sent" /\ gesture'[g].kind = kind /\ body'[g].dst = dst
      /\ call'[g] = [src |-> IF src = {} THEN "none" ELSE "sent", dst |-> "sent"]
      /\ \A h \in Gestures : h # g => pc'[h] = pc[h] /\ call'[h] = call[h]
  BY <1>1 DEF TypeInv, GesturesType, CallsType
<1>3. ASSUME NoMishap' PROVE (Busy(g) \/ Quiet) /\ Waits(g)'
  <2>1. NoMishap
    BY <1>3 DEF NoMishap
  <2>2. Shows(table, shown) /\ (Busy(g) \/ Quiet)
    BY <1>3, <2>1, ActsOnStored
  <2>3. ASSUME kind # "drag" PROVE Edits(g)'
    <3>1. kept'[g] = shown
      BY <1>1, <2>3 DEF TypeInv, KeptFits
    <3>2. call'[g].src = "none" /\ call'[g].dst = "sent"
      BY <1>2, <2>3
    <3>3. Shows(table', kept'[g])
      BY <1>1, <2>2, <3>1
    <3>4. ASSUME kind \in {"toggle", "delete"}
          PROVE  \E e \in body'[g].dst :
                    /\ body'[g].dst = {e} /\ e.ID \in TaskIDs
                    /\ Shows(After(g, e), shown)'
      BY <1>1, <1>2, <1>3, <3>4 DEF After
    <3>5. QED
      BY <1>2, <3>2, <3>3, <3>4 DEF Edits
  <2>4. \A way \in {"src", "dst"} : call'[g][way] # "again"
    BY <1>2
  <2>5. QED
    BY <1>2, <2>2, <2>3, <2>4 DEF Waits
<1>4. QED
  BY <1>2, <1>3, OnlyOne

\* A user who does not wait is noted.
LEMMA OverlapNoted ==
    ASSUME NEW happened, Notes(Overlap \cup happened), NoMishap'
    PROVE  Quiet /\ \A what \in happened : what \in {"numbering"}
<1>1. mishaps' = mishaps \cup (Overlap \cup happened)
  BY DEF Notes
<1>2. QED
  BY <1>1 DEF Overlap, When, NoMishap

\* The gestures but those that change one task.
LEMMA OthersActQuiet ==
    ASSUME QuietInv, TypeInv', NEW g \in Gestures,
           Drag(g) \/ Opens(g) \/ SubmitsCreate(g) \/ SubmitsEdit(g)
    PROVE  QuietInv'
<1>0. TypeInv
  BY DEF QuietInv
<1>1. CASE Drag(g)
  <2>1. MayAct(g) /\ Notes(Overlap) /\ \E task, src, dst : Sends(g, "drag", task, src, dst)
    BY <1>1, DragParts DEF Moves
  <2>2. Overlap \cup {} = Overlap
    OBVIOUS
  <2>3. (NoMishap' => Quiet) /\ mishaps \subseteq mishaps'
    BY <2>1, <2>2, OverlapNoted DEF Notes
  <2>4. QED
    BY <2>1, <2>3, SentQuiet DEF Kinds
<1>2. CASE Opens(g)
  <2>1. /\ MayAct(g) /\ mishaps \subseteq mishaps' /\ pc[g] = "idle" /\ Notes(Overlap)
        /\ pc' = [pc EXCEPT ![g] = "open"] /\ call' = call /\ table' = table /\ shown' = shown
    BY <1>2 DEF Opens, Notes, MayAct, Goes, calls, store
  <2>2. pc'[g] = "open" /\ \A h \in Gestures : h # g => pc'[h] = pc[h]
    BY <1>0, <2>1 DEF TypeInv, GesturesType
  <2>3. ASSUME NoMishap'
        PROVE  (Busy(g) \/ Quiet) /\ Waits(g)' /\ Shows(table', shown')
    <3>1. Overlap \cup {} = Overlap
      OBVIOUS
    <3>2. Quiet /\ NoMishap
      BY <2>1, <2>3, <3>1, OverlapNoted DEF NoMishap
    <3>3. Shows(table, shown) /\ call[g] = [src |-> "none", dst |-> "none"]
      BY <2>1, <3>2, ActsOnStored
    <3>4. ASSUME gesture'[g].kind = "delete"
          PROVE  gesture'[g].task \in StoredIn(table, gesture'[g].task.ColNo)
      <4>1. gesture' # [gesture EXCEPT ![g].kind = "create"]
        BY <1>0, <3>4 DEF TypeInv, GesturesType
      <4>2. PICK c \in Cols : gesture'[g].task \in Range(Tasks(c))
        BY <1>0, <1>2, <4>1 DEF Opens, TypeInv, GesturesType
      <4>3. gesture'[g].task \in StoredIn(table, c)
        BY <3>3, <4>2 DEF Shows, Tasks
      <4>4. gesture'[g].task.ColNo = c
        BY <4>3 DEF StoredIn, EntryOf
      <4>5. QED
        BY <4>3, <4>4
    <3>5. \A way \in {"src", "dst"} : ~Pending(g, way)' /\ call'[g][way] # "again"
      BY <2>1, <3>3 DEF Pending
    <3>6. QED
      BY <2>1, <2>2, <3>2, <3>3, <3>4, <3>5 DEF Waits
  <2>4. QED
    BY <2>1, <2>2, <2>3, OnlyOne
<1>3. CASE SubmitsCreate(g)
  <2>1. /\ pc[g] = "open" /\ mishaps' = mishaps
        /\ kept' = [kept EXCEPT ![g] = shown]
        /\ \E dst : Sends(g, "create", NoItem, {}, dst)
    BY <1>3 DEF SubmitsCreate, Submitting, Optimistically
  <2>2. QED
    BY <2>1, SentQuiet DEF Kinds
<1>4. CASE SubmitsEdit(g)
  <2>1. /\ pc[g] = "open" /\ mishaps \subseteq mishaps'
        /\ kept' = [kept EXCEPT ![g] = shown]
        /\ \E task, dst : Sends(g, "edit", task, {}, dst)
    BY <1>4 DEF SubmitsEdit, Submitting, Notes
  <2>2. QED
    BY <2>1, SentQuiet DEF Kinds
<1>5. QED
  BY <1>1, <1>2, <1>3, <1>4

\* A task that is shown, and stored, has its ID and its column there.
LEMMA ShownStored ==
    ASSUME NEW t \in Board, NEW c \in Cols, NEW task \in StoredIn(t, c)
    PROVE  /\ task.ID \in TaskIDs /\ t[task.ID] \in Item /\ t[task.ID].ColNo = c
           /\ task = EntryOf(task.ID, t[task.ID]) /\ task.ColNo = c /\ task \in Entry
<1>1. task.ID \in TaskIDs /\ t[task.ID] # NoItem /\ t[task.ID].ColNo = c
      /\ task = EntryOf(task.ID, t[task.ID]) /\ task.ColNo = c
  BY DEF StoredIn, EntryOf
<1>2. QED
  BY <1>1, StoredEntries DEF Board

\* Whoever is stored after a change is the task changed, or was stored.
LEMMA StoredAfter ==
    ASSUME NEW t \in Board, NEW id \in TaskIDs, NEW item \in Item \cup {NoItem}, NEW c \in Cols
    PROVE  LET new == [t EXCEPT ![id] = item]
           IN  /\ \A e : e \in StoredIn(new, c) <=>
                     \/ item # NoItem /\ item.ColNo = c /\ e = EntryOf(id, item)
                     \/ e \in StoredIn(t, c) /\ e.ID # id
<1> DEFINE new == [t EXCEPT ![id] = item]
<1>1. \A i \in TaskIDs : new[i] = IF i = id THEN item ELSE t[i]
  BY DEF Board
<1> HIDE DEF new
<1>2. ASSUME NEW e \in StoredIn(new, c)
      PROVE  \/ item # NoItem /\ item.ColNo = c /\ e = EntryOf(id, item)
             \/ e \in StoredIn(t, c) /\ e.ID # id
  <2>1. PICK i \in TaskIDs : new[i] # NoItem /\ new[i].ColNo = c /\ e = EntryOf(i, new[i])
    BY DEF StoredIn
  <2>2. e.ID = i
    BY <2>1 DEF EntryOf
  <2>3. QED
    BY <1>1, <2>1, <2>2 DEF StoredIn
<1>3. ASSUME item # NoItem, item.ColNo = c
      PROVE  EntryOf(id, item) \in StoredIn(new, c)
  BY <1>1, <1>3 DEF StoredIn
<1>4. ASSUME NEW e \in StoredIn(t, c), e.ID # id
      PROVE  e \in StoredIn(new, c)
  <2>1. /\ e.ID \in TaskIDs /\ t[e.ID] # NoItem /\ t[e.ID].ColNo = c
        /\ e = EntryOf(e.ID, t[e.ID])
    BY DEF StoredIn, EntryOf
  <2>2. new[e.ID] = t[e.ID]
    BY <1>1, <1>4, <2>1
  <2>3. QED
    BY <2>1, <2>2 DEF StoredIn
<1>5. QED
  BY <1>2, <1>3, <1>4 DEF new

\* A subtask that is checked is shown as it will be stored.
LEMMA ToggleShows ==
    ASSUME NEW t \in Board, NEW old, NEW new, Shows(t, old),
           NEW c \in Cols, NEW task \in Range(old[c].tasks), NEW content \in Contents,
           new[c].tasks = [i \in DOMAIN old[c].tasks |->
               IF i \in WithID(task.ID, old[c].tasks)
               THEN [old[c].tasks[i] EXCEPT !.Content = content] ELSE old[c].tasks[i]],
           \A d \in Cols : d # c => new[d] = old[d]
    PROVE  LET e == [task EXCEPT !.Content = content]
           IN  e.ID \in TaskIDs /\ Shows([t EXCEPT ![e.ID] = ItemOf(e)], new)
<1> DEFINE e == [task EXCEPT !.Content = content]
           item == ItemOf(e)
           tasks == old[c].tasks
           id == task.ID
<1>1. Range(tasks) = StoredIn(t, c) /\ IsInjective(tasks)
  BY DEF Shows
<1>2. /\ id \in TaskIDs /\ t[id] \in Item /\ t[id].ColNo = c
      /\ task = EntryOf(id, t[id]) /\ task.ColNo = c /\ task \in Entry
  BY <1>1, ShownStored
<1>3. /\ e.ID = id /\ item \in Item /\ item.ColNo = c /\ e = EntryOf(id, item)
      /\ item # NoItem
  <2>1. e = [ID |-> id, ColNo |-> c, Order |-> task.Order, Content |-> content]
    BY <1>2 DEF EntryOf
  <2>2. item = [ColNo |-> c, Order |-> task.Order, Content |-> content]
    BY <2>1 DEF ItemOf
  <2>3. task.Order \in 0 .. MaxOrder
    BY <1>2 DEF Entry
  <2>4. item \in Item
    BY <2>2, <2>3 DEF Item
  <2>5. QED
    BY <2>1, <2>2, <2>4, BoardClientAssumption DEF EntryOf
<1> HIDE DEF e, item
<1> DEFINE after == [t EXCEPT ![id] = item]
<1>4. ASSUME NEW d \in Cols
      PROVE  \A f : f \in StoredIn(after, d) <=>
                \/ d = c /\ f = e
                \/ f \in StoredIn(t, d) /\ f.ID # id
  BY <1>2, <1>3, StoredAfter
<1> HIDE DEF after
<1>5. ASSUME NEW i \in DOMAIN tasks
      PROVE  /\ tasks[i] \in StoredIn(t, c)
             /\ tasks[i].ID = id => tasks[i] = task
             /\ new[c].tasks[i] = IF tasks[i].ID = id THEN e ELSE tasks[i]
             /\ new[c].tasks[i].ID = tasks[i].ID
  <2>1. tasks[i] \in StoredIn(t, c)
    BY <1>1 DEF Range
  <2>2. tasks[i] = EntryOf(tasks[i].ID, t[tasks[i].ID])
    BY <2>1, ShownStored
  <2>3. tasks[i].ID = id => tasks[i] = task
    BY <1>2, <2>2
  <2>4. new[c].tasks[i] = IF tasks[i].ID = id
                          THEN [tasks[i] EXCEPT !.Content = content] ELSE tasks[i]
    BY DEF WithID
  <2>5. QED
    BY <1>3, <2>1, <2>3, <2>4 DEF e
<1>6. DOMAIN new[c].tasks = DOMAIN tasks
  OBVIOUS
<1>7. IsInjective(new[c].tasks)
  <2>1. SUFFICES ASSUME NEW i \in DOMAIN tasks, NEW j \in DOMAIN tasks,
                        new[c].tasks[i] = new[c].tasks[j]
                 PROVE  i = j
    BY <1>6 DEF IsInjective
  <2>2. tasks[i] = tasks[j]
    <3>1. tasks[i].ID = tasks[j].ID
      BY <1>5, <2>1
    <3>2. QED
      BY <1>5, <2>1, <3>1
  <2>3. QED
    BY <1>1, <2>2 DEF IsInjective
<1>8. Range(new[c].tasks) = StoredIn(after, c)
  <2>1. ASSUME NEW i \in DOMAIN tasks PROVE new[c].tasks[i] \in StoredIn(after, c)
    BY <1>4, <1>5
  <2>2. ASSUME NEW f \in StoredIn(after, c) PROVE \E i \in DOMAIN tasks : new[c].tasks[i] = f
    <3>1. CASE f = e
      <4>1. PICK i \in DOMAIN tasks : tasks[i] = task
        BY DEF Range
      <4>2. QED
        BY <1>5, <3>1, <4>1
    <3>2. CASE f \in StoredIn(t, c) /\ f.ID # id
      <4>1. PICK i \in DOMAIN tasks : tasks[i] = f
        BY <1>1, <3>2 DEF Range
      <4>2. QED
        BY <1>5, <3>2, <4>1
    <3>3. QED
      BY <1>4, <3>1, <3>2
  <2>3. QED
    BY <1>6, <2>1, <2>2 DEF Range
<1>9. ASSUME NEW d \in Cols, d # c
      PROVE  Range(new[d].tasks) = StoredIn(after, d) /\ IsInjective(new[d].tasks)
  <2>1. Range(old[d].tasks) = StoredIn(t, d) /\ IsInjective(old[d].tasks) /\ new[d] = old[d]
    BY <1>9 DEF Shows
  <2>2. \A f \in StoredIn(t, d) : f.ID # id
    <3>1. \A f \in StoredIn(t, d) : t[f.ID].ColNo = d
      BY ShownStored
    <3>2. QED
      BY <1>2, <1>9, <3>1
  <2>3. StoredIn(after, d) = StoredIn(t, d)
    BY <1>4, <1>9, <2>2
  <2>4. QED
    BY <2>1, <2>3
<1>10. Shows(after, new)
  BY <1>7, <1>8, <1>9 DEF Shows
<1>11. QED
  BY <1>2, <1>3, <1>10 DEF e, item, after

\* A column without a task is shown as it will be stored.
LEMMA DeleteShows ==
    ASSUME NEW t \in Board, NEW old, NEW new, Shows(t, old),
           NEW c \in Cols, NEW task \in StoredIn(t, c),
           old[c].tasks \in Seq(Entry), new[c].tasks = Without(task.ID, old[c].tasks),
           \A d \in Cols : d # c => new[d] = old[d]
    PROVE  task.ID \in TaskIDs /\ Shows([t EXCEPT ![task.ID] = NoItem], new)
<1> DEFINE tasks == old[c].tasks
           left == Without(task.ID, tasks)
           id == task.ID
           after == [t EXCEPT ![id] = NoItem]
<1>1. Range(tasks) = StoredIn(t, c) /\ IsInjective(tasks)
  BY DEF Shows
<1>2. id \in TaskIDs /\ t[id].ColNo = c
  BY ShownStored
<1>3. ASSUME NEW d \in Cols
      PROVE  \A f : f \in StoredIn(after, d) <=> f \in StoredIn(t, d) /\ f.ID # id
  <2>1. NoItem \in Item \cup {NoItem}
    OBVIOUS
  <2>2. \A f : f \in StoredIn(after, d) <=>
           \/ NoItem # NoItem /\ NoItem.ColNo = d /\ f = EntryOf(id, NoItem)
           \/ f \in StoredIn(t, d) /\ f.ID # id
    BY ONLY <1>2, <2>1, StoredAfter, t \in Board, d \in Cols
  <2>3. QED
    BY <2>2
<1> HIDE DEF after
<1>4. left \in Seq(Entry) /\ Filters(tasks, id, Len(tasks), left)
  BY WithoutPlaces
<1> HIDE DEF left
<1>5. /\ DOMAIN tasks = 1 .. Len(tasks) /\ DOMAIN left = 1 .. Len(left)
      /\ Len(tasks) \in Nat /\ Len(left) \in Nat
  BY <1>4, LenProperties
<1>6. PICK p \in [1 .. Len(left) -> 1 .. Len(tasks)] :
         /\ \A i, j \in 1 .. Len(left) : i < j => p[i] < p[j]
         /\ \A i \in 1 .. Len(left) : left[i] = tasks[p[i]] /\ left[i].ID # id
         /\ \A k \in 1 .. Len(tasks) : tasks[k].ID # id => \E i \in 1 .. Len(left) : p[i] = k
  BY <1>4 DEF Filters
<1>7. IsInjective(left)
  <2>1. SUFFICES ASSUME NEW i \in 1 .. Len(left), NEW j \in 1 .. Len(left),
                        left[i] = left[j], i # j
                 PROVE  FALSE
    BY <1>5 DEF IsInjective
  <2>2. p[i] = p[j] /\ p[i] \in Int /\ p[j] \in Int
    BY <1>1, <1>5, <1>6, <2>1 DEF IsInjective
  <2>3. i < j \/ j < i
    BY <1>5, <2>1
  <2>4. p[i] < p[j] \/ p[j] < p[i]
    BY <1>6, <2>1, <2>3
  <2>5. QED
    BY <2>2, <2>4
<1>8. Range(left) = StoredIn(after, c)
  <2>1. ASSUME NEW i \in 1 .. Len(left) PROVE left[i] \in StoredIn(after, c)
    BY <1>1, <1>3, <1>5, <1>6 DEF Range
  <2>2. ASSUME NEW f \in StoredIn(after, c) PROVE \E i \in 1 .. Len(left) : left[i] = f
    <3>1. f \in StoredIn(t, c) /\ f.ID # id
      BY <1>3
    <3>2. PICK k \in 1 .. Len(tasks) : tasks[k] = f
      BY <1>1, <1>5, <3>1 DEF Range
    <3>3. QED
      BY <1>6, <3>1, <3>2
  <2>3. QED
    BY <1>5, <2>1, <2>2 DEF Range
<1>9. ASSUME NEW d \in Cols, d # c
      PROVE  Range(new[d].tasks) = StoredIn(after, d) /\ IsInjective(new[d].tasks)
  <2>1. Range(old[d].tasks) = StoredIn(t, d) /\ IsInjective(old[d].tasks) /\ new[d] = old[d]
    BY <1>9 DEF Shows
  <2>2. \A f \in StoredIn(t, d) : f.ID # id
    <3>1. \A f \in StoredIn(t, d) : t[f.ID].ColNo = d
      BY ShownStored
    <3>2. QED
      BY <1>2, <1>9, <3>1
  <2>3. StoredIn(after, d) = StoredIn(t, d)
    BY <1>3, <1>9, <2>2
  <2>4. QED
    BY <2>1, <2>3
<1>10. Shows(after, new)
  BY <1>7, <1>8, <1>9 DEF Shows, left
<1>11. QED
  BY <1>2, <1>10 DEF after

-----------------------------------------------------------------------------
\* A subtask that is checked in the inbox is shown as it will be stored; the
\* call sends column 0, which is the task's.
LEMMA ToggleQuiet ==
    ASSUME QuietInv, TypeInv', NEW g \in Gestures, Toggle(g)
    PROVE  QuietInv'
<1>0. PICK c \in Cols : \E task \in Range(Tasks(c)), content \in Contents :
         LET tasks == Tasks(task.ColNo)
         IN  /\ Optimistically(g, task.ColNo,
                   [i \in DOMAIN tasks |-> IF i \in WithID(task.ID, tasks)
                        THEN [tasks[i] EXCEPT !.Content = content] ELSE tasks[i]])
             /\ Sends(g, "toggle", task, {},
                      {[task EXCEPT !.ColNo = 0, !.Content = content]})
             /\ Notes(Overlap \cup When(task.ColNo # 0, "toggle"))
  BY DEF Toggle
<1>1. PICK task \in Range(Tasks(c)), content \in Contents :
         LET tasks == Tasks(task.ColNo)
         IN  /\ Optimistically(g, task.ColNo,
                   [i \in DOMAIN tasks |-> IF i \in WithID(task.ID, tasks)
                        THEN [tasks[i] EXCEPT !.Content = content] ELSE tasks[i]])
             /\ Sends(g, "toggle", task, {},
                      {[task EXCEPT !.ColNo = 0, !.Content = content]})
             /\ Notes(Overlap \cup When(task.ColNo # 0, "toggle"))
  BY <1>0
<1> DEFINE old == Tasks(task.ColNo)
           new == [i \in DOMAIN old |-> IF i \in WithID(task.ID, old)
                        THEN [old[i] EXCEPT !.Content = content] ELSE old[i]]
           sent == [task EXCEPT !.ColNo = 0, !.Content = content]
<1>2. /\ kept' = [kept EXCEPT ![g] = shown]
      /\ shown' = [shown EXCEPT ![task.ColNo] = Column(<< g, "edit" >>, new)]
      /\ Sends(g, "toggle", task, {}, {sent})
      /\ Notes(Overlap \cup When(task.ColNo # 0, "toggle"))
      /\ MayAct(g) /\ TypeInv /\ mishaps \subseteq mishaps'
  BY <1>1 DEF Optimistically, Toggle, QuietInv, Notes
<1> HIDE DEF new, sent
<1>3. ASSUME NoMishap'
      PROVE  /\ Quiet /\ sent.ID \in TaskIDs
             /\ Shows([table EXCEPT ![sent.ID] = ItemOf(sent)], shown')
  <2>1. Quiet /\ task.ColNo = 0 /\ NoMishap
    BY <1>2, <1>3, OverlapNoted DEF When, NoMishap
  <2>2. Shows(table, shown) /\ table \in Board
    BY <1>2, <2>1, ActsOnStored DEF TypeInv, StoreType
  <2>3. task \in StoredIn(table, c)
    BY <1>1, <2>2 DEF Shows, Tasks
  <2>4. c = 0 /\ task \in Entry
    BY <2>1, <2>2, <2>3, ShownStored
  <2>5. sent = [task EXCEPT !.Content = content]
    BY <2>1, <2>4 DEF sent, Entry
  <2>6. /\ shown'[c].tasks = [i \in DOMAIN shown[c].tasks |->
              IF i \in WithID(task.ID, shown[c].tasks)
              THEN [shown[c].tasks[i] EXCEPT !.Content = content] ELSE shown[c].tasks[i]]
        /\ \A d \in Cols : d # c => shown'[d] = shown[d]
    BY <1>2, <2>1, <2>4 DEF new, Column, TypeInv, BoardFits, Tasks
  <2>7. task \in Range(shown[c].tasks)
    BY <1>1 DEF Tasks
  <2>8. [task EXCEPT !.Content = content].ID \in TaskIDs
        /\ Shows([table EXCEPT ![[task EXCEPT !.Content = content].ID] =
                     ItemOf([task EXCEPT !.Content = content])], shown')
    BY <2>2, <2>6, <2>7, ToggleShows
  <2>9. QED
    BY <2>1, <2>5, <2>8
<1>4. QED
  BY <1>2, <1>3, SentQuiet DEF Kinds

\* A task whose deletion is sent is the one that was shown when its menu was
\* opened, which still is stored.
LEMMA SubmitsDeleteQuiet ==
    ASSUME QuietInv, TypeInv', NEW g \in Gestures, SubmitsDelete(g)
    PROVE  QuietInv'
<1> DEFINE task == gesture[g].task
           c == task.ColNo
           left == Without(task.ID, Tasks(c))
<1>1. /\ kept' = [kept EXCEPT ![g] = shown]
      /\ shown' = [shown EXCEPT ![c] = Column(<< g, "edit" >>, left)]
      /\ Sends(g, "delete", task, {}, {task})
      /\ pc[g] = "open" /\ gesture[g].kind = "delete"
      /\ TypeInv /\ mishaps \subseteq mishaps'
  BY DEF SubmitsDelete, Submitting, Optimistically, QuietInv, Notes
<1> HIDE DEF left
<1>2. c \in Cols /\ task \in Entry /\ table \in Board
  BY <1>1 DEF TypeInv, Prepared, Entry, StoreType
<1>3. ASSUME NoMishap'
      PROVE  task.ID \in TaskIDs /\ Shows([table EXCEPT ![task.ID] = NoItem], shown')
  <2>1. NoMishap
    BY <1>1, <1>3 DEF NoMishap
  <2>2. Shows(table, shown) /\ Waits(g)
    BY <1>1, <2>1, ActsOnStored
  <2>3. task \in StoredIn(table, c)
    BY <1>1, <2>2 DEF Waits
  <2>4. shown[c].tasks \in Seq(Entry)
    BY <1>2, <1>1, ShownTasks DEF Tasks
  <2>5. /\ shown'[c].tasks = Without(task.ID, shown[c].tasks)
        /\ \A d \in Cols : d # c => shown'[d] = shown[d]
    BY <1>1, <1>2 DEF left, Column, TypeInv, BoardFits, Tasks
  <2> HIDE DEF task, c
  <2>6. QED
    BY <1>2, <2>2, <2>3, <2>4, <2>5, DeleteShows
<1>4. QED
  BY <1>1, <1>3, SentQuiet DEF Kinds

-----------------------------------------------------------------------------
\* Initially nothing is under way, and the board has been loaded.
LEMMA InitQuiet == Init => QuietInv
<1> SUFFICES ASSUME Init PROVE QuietInv
  OBVIOUS
<1>1. TypeInv
  BY InitTypes
<1>2. \A g \in Gestures : pc[g] = "idle" /\ call[g] = [src |-> "none", dst |-> "none"]
  BY DEF Init
<1>3. \A g \in Gestures : Waits(g) /\ ~Busy(g)
  BY <1>2 DEF Waits, Busy, Pending
<1>4. Shows(table, shown)
  <2>1. PICK f \in Layouts(table) : shown = [c \in Cols |-> Column(Nothing, f[c])]
    BY DEF Init
  <2>2. table \in Board
    BY <1>1 DEF TypeInv, StoreType
  <2>3. QED
    BY <2>1, <2>2, LayoutColumns DEF Shows, Column
<1>5. QED
  BY <1>1, <1>3, <1>4 DEF QuietInv

\* Every step keeps the invariant.
LEMMA QuietStep == QuietInv /\ [Next]_vars => QuietInv'
<1> SUFFICES ASSUME QuietInv, [Next]_vars PROVE QuietInv'
  OBVIOUS
<1>1. TypeInv'
  BY TypesStep DEF QuietInv
<1>2. CASE CookieGoes \/ UNCHANGED vars
  <2>1. UNCHANGED << table, shown, pc, gesture, body, call, kept, got, mishaps >>
    BY <1>2 DEF CookieGoes, vars, calls, store
  <2>2. \A g \in Gestures : /\ Busy(g)' <=> Busy(g)
                            /\ Waits(g)' <=> Waits(g)
    BY <2>1 DEF Busy, Waits, Pending, Edits, Shows, After, StoredIn
  <2>3. QED
    BY <1>1, <2>1, <2>2 DEF QuietInv, NoMishap, Shows
<1>3. ASSUME NEW g \in Gestures, UserActs(g) PROVE QuietInv'
  BY <1>1, <1>3, OthersActQuiet, ToggleQuiet, SubmitsDeleteQuiet DEF UserActs
<1>4. ASSUME NEW g \in Gestures, Handles(g) PROVE QuietInv'
  BY <1>1, <1>4, EditAnsweredQuiet, DragAnsweredQuiet, LoadsQuiet DEF Handles
<1>5. ASSUME NEW g \in Gestures, NEW way \in {"src", "dst"}, Ends(g, way)
      PROVE  QuietInv'
  BY <1>1, <1>5, AnswersQuiet, RefusesQuiet DEF Ends
<1>6. ASSUME NEW g \in Gestures, NEW way \in {"src", "dst"}, StoresUnanswered(g, way)
      PROVE  QuietInv'
  <2>1. ~NoMishap'
    BY <1>6 DEF StoresUnanswered, Notes, NoMishap
  <2>2. QED
    BY <1>1, <2>1 DEF QuietInv
<1>7. QED
  BY <1>2, <1>3, <1>4, <1>5, <1>6 DEF Next

\* Once everything is answered, the board is shown as it is stored, though
\* calls have failed, if nothing has happened that the client does not mend.
THEOREM QuietIsStored == Spec => []QuietShowsStored
<1>1. QuietInv => QuietShowsStored
  <2> SUFFICES ASSUME QuietInv, Quiet, mishaps \subseteq {"numbering"}
               PROVE  ShowsStored
    BY DEF QuietShowsStored
  <2>1. \A g \in Gestures : pc[g] \in {"idle", "open", "done"}
    BY DEF Quiet, Busy
  <2>2. Shows(table, shown)
    BY <2>1 DEF QuietInv, NoMishap
  <2>3. QED
    BY <2>2 DEF Shows, ShowsStored, Tasks
<1>2. QED
  BY <1>1, InitQuiet, QuietStep, PTL DEF Spec

-----------------------------------------------------------------------------
(***************************************************************************)
(* What a drag needs of the numbering of the columns.  It takes the task   *)
(* whose index is the order of the one that was dragged.                   *)
(***************************************************************************)
\* A column numbered as it is shown: the index of each task is its order.
Straight(tasks) == \A i \in DOMAIN tasks : tasks[i].Order = i - 1

\* A board whose stored columns are numbered from 0 without gaps.
Dense(t) ==
    \A c \in Cols :
        {e.Order : e \in StoredIn(t, c)} = 0 .. Cardinality(StoredIn(t, c)) - 1

\* A column in which the order of each task that has an ID points at it.
Aims(tasks) ==
    \A i \in DOMAIN tasks :
        LET at == tasks[i].Order + 1
        IN  tasks[i].ID \in TaskIDs => at <= Len(tasks) /\ tasks[at].ID = tasks[i].ID

\* A column that shows each of its tasks once is as long as they are many.
LEMMA ShownCount ==
    ASSUME NEW tasks \in Seq(Entry), IsInjective(tasks)
    PROVE  /\ IsFiniteSet(Range(tasks)) /\ Cardinality(Range(tasks)) = Len(tasks)
<1>1. Len(tasks) \in Nat /\ DOMAIN tasks = 1 .. Len(tasks)
  BY LenProperties
<1> DEFINE S == Range(tasks)
<1>2. tasks \in [1 .. Len(tasks) -> S]
  BY <1>1 DEF Range
<1>3. tasks \in Surjection(1 .. Len(tasks), S) /\ tasks \in Injection(1 .. Len(tasks), S)
  BY <1>1, <1>2 DEF Surjection, Injection, IsInjective, Range
<1>4. IsFiniteSet(1 .. Len(tasks)) /\ Cardinality(1 .. Len(tasks)) = Len(tasks)
  BY <1>1, FS_Interval
<1> HIDE DEF S
<1>5. IsFiniteSet(S) /\ Cardinality(S) = Cardinality(1 .. Len(tasks))
  BY <1>3, <1>4, FS_Surjection
<1>6. QED
  BY <1>4, <1>5 DEF S

\* What a straight board shows is stored without gaps.
LEMMA StraightDense ==
    ASSUME NEW t \in Board, NEW board, Shows(t, board),
           \A c \in Cols : board[c].tasks \in Seq(Entry) /\ Straight(board[c].tasks)
    PROVE  Dense(t)
<1> SUFFICES ASSUME NEW c \in Cols
             PROVE  {e.Order : e \in StoredIn(t, c)} = 0 .. Cardinality(StoredIn(t, c)) - 1
  BY DEF Dense
<1> DEFINE tasks == board[c].tasks
           S == StoredIn(t, c)
<1>1. tasks \in Seq(Entry) /\ Straight(tasks) /\ Range(tasks) = S /\ IsInjective(tasks)
  BY DEF Shows
<1> HIDE DEF tasks, S
<1>2. Len(tasks) \in Nat /\ DOMAIN tasks = 1 .. Len(tasks) /\ Cardinality(S) = Len(tasks)
  BY <1>1, LenProperties, ShownCount
<1>3. ASSUME NEW e \in S PROVE e.Order \in 0 .. Len(tasks) - 1
  <2>1. PICK i \in 1 .. Len(tasks) : tasks[i] = e
    BY <1>1, <1>2 DEF Range
  <2>2. QED
    BY <1>1, <1>2, <2>1 DEF Straight
<1>4. ASSUME NEW k \in 0 .. Len(tasks) - 1 PROVE \E e \in S : e.Order = k
  <2>1. k + 1 \in 1 .. Len(tasks) /\ (k + 1) - 1 = k
    BY <1>2
  <2>2. tasks[k + 1] \in S /\ tasks[k + 1].Order = k
    BY <1>1, <1>2, <2>1 DEF Straight, Range
  <2>3. QED
    BY <2>2
<1>5. {e.Order : e \in S} = 0 .. Len(tasks) - 1
  BY <1>3, <1>4
<1>6. QED
  BY <1>2, <1>5 DEF S

\* A straight column aims.
LEMMA StraightAims ==
    ASSUME NEW tasks \in Seq(Entry), Straight(tasks)
    PROVE  Aims(tasks)
<1>1. Len(tasks) \in Nat /\ DOMAIN tasks = 1 .. Len(tasks)
  BY LenProperties
<1>2. ASSUME NEW i \in 1 .. Len(tasks) PROVE tasks[i].Order + 1 = i
  BY <1>1 DEF Straight
<1>3. QED
  BY <1>1, <1>2 DEF Aims

\* A column that aims, and shows each task once, all of them stored, is
\* straight.
LEMMA AimsStraight ==
    ASSUME NEW t \in Board, NEW c \in Cols, NEW tasks \in Seq(Entry), Aims(tasks),
           Range(tasks) = StoredIn(t, c), IsInjective(tasks)
    PROVE  Straight(tasks)
<1>1. Len(tasks) \in Nat /\ DOMAIN tasks = 1 .. Len(tasks)
  BY LenProperties
<1>2. SUFFICES ASSUME NEW i \in 1 .. Len(tasks) PROVE tasks[i].Order = i - 1
  BY <1>1 DEF Straight
<1> DEFINE at == tasks[i].Order + 1
<1>3. tasks[i] \in Entry /\ tasks[i] \in StoredIn(t, c)
  BY <1>1, ElementOfSeq DEF Range
<1>4. tasks[i].ID \in TaskIDs /\ tasks[i].Order \in Nat
  <2>1. tasks[i].ID \in TaskIDs
    BY <1>3, ShownStored
  <2>2. tasks[i].Order \in 0 .. MaxOrder /\ MaxOrder \in Nat
    BY <1>3, Finite DEF Entry
  <2>3. QED
    BY <2>1, <2>2
<1>5. at \in 1 .. Len(tasks) /\ tasks[at].ID = tasks[i].ID
  BY <1>1, <1>4 DEF Aims
<1> HIDE DEF at
<1>6. tasks[at] \in StoredIn(t, c)
  BY <1>1, <1>5 DEF Range
<1>7. tasks[at] = tasks[i]
  BY <1>3, <1>5, <1>6, ShownStored
<1>8. at = i
  BY <1>1, <1>5, <1>7 DEF IsInjective
<1>9. QED
  BY <1>4, <1>8 DEF at

\* What GET /tasks reads of a board without gaps is laid out straight.
LEMMA DenseStraight ==
    ASSUME NEW t \in Board, Dense(t), NEW f \in Layouts(t), NEW c \in Cols
    PROVE  f[c] \in Seq(Entry) /\ Straight(f[c])
<1> DEFINE s == f[c]
           S == StoredIn(t, c)
           n == Cardinality(S)
           o == [i \in 1 .. n |-> s[i].Order]
<1>1. /\ s \in Seq(Entry) /\ s \in [1 .. n -> S] /\ n \in Nat /\ Len(s) = n
      /\ Range(s) = S
      /\ \A i, j \in 1 .. n : i < j => s[i].Order <= s[j].Order
  BY LayoutColumns
<1>2. {e.Order : e \in S} = 0 .. n - 1
  BY DEF Dense
<1> HIDE DEF s, S, n
<1>3. o \in [1 .. n -> 0 .. n - 1] /\ \A i \in 1 .. n : o[i] = s[i].Order
  BY <1>1, <1>2
<1>4. \A i, j \in 1 .. n : i < j => o[i] <= o[j]
  BY <1>1
<1>5. \A k \in 0 .. n - 1 : \E i \in 1 .. n : o[i] = k
  <2>1. SUFFICES ASSUME NEW k \in 0 .. n - 1 PROVE \E i \in 1 .. n : o[i] = k
    OBVIOUS
  <2>2. PICK e \in S : e.Order = k
    BY <1>2
  <2>3. PICK i \in 1 .. n : s[i] = e
    BY <1>1 DEF Range
  <2>4. QED
    BY <1>3, <2>2, <2>3
<1> HIDE DEF o
<1>6. o \in Surjection(1 .. n, 0 .. n - 1)
  BY <1>3, <1>5 DEF Surjection
<1>7. /\ IsFiniteSet(1 .. n) /\ Cardinality(1 .. n) = n
      /\ Cardinality(0 .. n - 1) = n
  BY <1>1, FS_Interval
<1>8. o \in Injection(1 .. n, 0 .. n - 1)
  BY <1>6, <1>7, FS_SurjSameCardinalityImpliesInj
<1>9. \A i, j \in 1 .. n : i < j => o[i] < o[j]
  <2>1. \A i, j \in 1 .. n : o[i] = o[j] => i = j
    BY <1>3, <1>8 DEF Injection, IsInjective
  <2>2. \A i \in 1 .. n : o[i] \in Int
    BY <1>1, <1>3
  <2>3. QED
    BY <1>1, <1>4, <2>1, <2>2
<1> DEFINE Right == {m \in Nat : \A i \in 1 .. m : i <= n => o[i] = i - 1}
<1>10. Right = Nat
  <2>1. 0 \in Right
    OBVIOUS
  <2>2. ASSUME NEW m \in Right PROVE m + 1 \in Right
    <3>1. SUFFICES ASSUME m + 1 <= n PROVE o[m + 1] = m
      BY <2>2
    <3>2. m \in Nat /\ m + 1 \in 1 .. n /\ m \in 0 .. n - 1 /\ o[m + 1] \in 0 .. n - 1
          /\ \A i \in 1 .. m : i \in 1 .. n /\ o[i] = i - 1
      BY <1>1, <1>3, <2>2, <3>1
    <3>3. PICK j \in 1 .. n : o[j] = m
      BY <1>5, <3>2
    <3>4. ~ (j <= m)
      BY <3>2, <3>3
    <3>5. j = m + 1 \/ m + 1 < j
      BY <3>2, <3>3, <3>4
    <3>6. CASE m + 1 < j
      <4>1. o[m + 1] < m
        BY <1>9, <3>2, <3>3, <3>6
      <4>2. m # 0 => o[m] < o[m + 1]
        BY <1>9, <3>2
      <4>3. m # 0 => o[m] = m - 1
        BY <3>2
      <4>4. QED
        BY <3>2, <4>1, <4>2, <4>3
    <3>7. QED
      BY <3>3, <3>5, <3>6
  <2>3. Right \in SUBSET Nat
    OBVIOUS
  <2> HIDE DEF Right
  <2>4. QED
    BY <2>1, <2>2, <2>3, SetInduction
<1>11. \A i \in 1 .. n : o[i] = i - 1
  <2>1. n \in Right
    BY <1>1, <1>10
  <2>2. QED
    BY <2>1
<1>12. QED
  BY <1>1, <1>3, <1>11, LenProperties DEF Straight, s

-----------------------------------------------------------------------------
\* The table after tasks have been put, as Puts has it.
Stored(t, tasks) ==
    [id \in TaskIDs |-> IF \E e \in tasks : e.ID = id
                        THEN ItemOf(CHOOSE e \in tasks : e.ID = id) ELSE t[id]]

\* What has been put of tasks that are not named twice.
LEMMA StoredItem ==
    ASSUME NEW t, NEW tasks, Valid(tasks), NEW id \in TaskIDs
    PROVE  /\ \A e \in tasks : e.ID = id => Stored(t, tasks)[id] = ItemOf(e)
           /\ (\A e \in tasks : e.ID # id) => Stored(t, tasks)[id] = t[id]
<1>1. ASSUME NEW e \in tasks, e.ID = id PROVE (CHOOSE f \in tasks : f.ID = id) = e
  <2> DEFINE f == CHOOSE f \in tasks : f.ID = id
  <2>1. f \in tasks /\ f.ID = id
    BY <1>1
  <2> HIDE DEF f
  <2>2. f = e
    BY <1>1, <2>1 DEF Valid
  <2>3. QED
    BY <2>2 DEF f
<1>2. QED
  BY <1>1 DEF Stored

\* To put two halves, one after the other, is to put the whole.
LEMMA StoredTwice ==
    ASSUME NEW t, NEW a, NEW b, Valid(a \cup b)
    PROVE  Stored(Stored(t, a), b) = Stored(t, a \cup b)
<1>1. Valid(a) /\ Valid(b)
  BY DEF Valid
<1>2. ASSUME NEW id \in TaskIDs
      PROVE  Stored(Stored(t, a), b)[id] = Stored(t, a \cup b)[id]
  <2>1. CASE \E e \in b : e.ID = id
    BY <1>1, <2>1, StoredItem
  <2>2. CASE \A e \in b : e.ID # id
    <3>1. Stored(Stored(t, a), b)[id] = Stored(t, a)[id]
      BY <1>1, <2>2, StoredItem
    <3>2. CASE \E e \in a : e.ID = id
      BY <1>1, <3>1, <3>2, StoredItem
    <3>3. CASE \A e \in a : e.ID # id
      <4>1. \A e \in a \cup b : e.ID # id
        BY <2>2, <3>3
      <4>2. Stored(t, a \cup b)[id] = t[id] /\ Stored(t, a)[id] = t[id]
        BY <1>1, <3>3, <4>1, StoredItem
      <4>3. QED
        BY <3>1, <4>2
    <3>4. QED
      BY <3>2, <3>3
  <2>3. QED
    BY <2>1, <2>2
<1>3. \E f, h : Stored(Stored(t, a), b) = [id \in TaskIDs |-> f[id]]
                /\ Stored(t, a \cup b) = [id \in TaskIDs |-> h[id]]
  <2>1. Stored(Stored(t, a), b) = [id \in TaskIDs |-> Stored(Stored(t, a), b)[id]]
    BY DEF Stored
  <2>2. Stored(t, a \cup b) = [id \in TaskIDs |-> Stored(t, a \cup b)[id]]
    BY DEF Stored
  <2>3. QED
    BY <2>1, <2>2
<1>4. QED
  BY <1>2, <1>3

\* A task with the next order that is stored leaves no gap.
LEMMA CreatedDense ==
    ASSUME NEW t \in Board, Dense(t), NEW id \in TaskIDs, t[id] = NoItem,
           NEW item \in Item, NEW d \in Cols, item.ColNo = d,
           item.Order = Cardinality(StoredIn(t, d))
    PROVE  Dense([t EXCEPT ![id] = item])
<1> DEFINE new == [t EXCEPT ![id] = item]
           e == EntryOf(id, item)
<1>1. item # NoItem /\ item \in Item \cup {NoItem}
  BY BoardClientAssumption
<1>2. \A c \in Cols : \A f : f \in StoredIn(new, c) <=>
         \/ item # NoItem /\ item.ColNo = c /\ f = e
         \/ f \in StoredIn(t, c) /\ f.ID # id
  BY <1>1, StoredAfter
<1>3. \A c \in Cols : \A f \in StoredIn(t, c) : f.ID # id
  BY ShownStored, BoardClientAssumption
<1>4. \A c \in Cols : StoredIn(new, c) = IF c = d THEN StoredIn(t, c) \cup {e}
                                                 ELSE StoredIn(t, c)
  BY <1>1, <1>2, <1>3
<1>5. e.Order = Cardinality(StoredIn(t, d)) /\ e.ID = id
  BY DEF EntryOf
<1> HIDE DEF new, e
<1>6. ASSUME NEW c \in Cols
      PROVE  {f.Order : f \in StoredIn(new, c)} = 0 .. Cardinality(StoredIn(new, c)) - 1
  <2> DEFINE S == StoredIn(t, c)
             n == Cardinality(S)
  <2>1. {f.Order : f \in S} = 0 .. n - 1 /\ IsFiniteSet(S) /\ n \in Nat
    BY StoredBounded DEF Dense
  <2>2. CASE c # d
    BY <1>4, <2>1, <2>2
  <2>3. CASE c = d
    <3>1. StoredIn(new, c) = S \cup {e} /\ e \notin S /\ e.Order = n
      BY <1>3, <1>4, <1>5, <2>3
    <3> HIDE DEF S, n
    <3>2. Cardinality(S \cup {e}) = n + 1
      BY <2>1, <3>1, FS_AddElement DEF n
    <3>3. {f.Order : f \in S \cup {e}} = {f.Order : f \in S} \cup {n}
      BY <3>1
    <3>4. 0 .. (n + 1) - 1 = (0 .. n - 1) \cup {n}
      BY <2>1
    <3>5. QED
      BY <2>1, <3>1, <3>2, <3>3, <3>4
  <2>4. QED
    BY <2>2, <2>3
<1>7. QED
  BY <1>6 DEF Dense, new

\* The columns D, among which the tasks that they store are laid out anew as
\* col, are numbered and sent.
Relaid(t, old, new, D, col, tasks) ==
    /\ D \subseteq Cols
    /\ \A c \in D : /\ col[c] \in Seq(Entry) /\ Len(col[c]) <= MaxOrder + 1
                    /\ IsInjective(col[c])
                    /\ new[c].tasks = Numbered(col[c], c)
    /\ \A c \in Cols \ D : new[c] = old[c]
    /\ \A c, d \in D : c # d => Range(col[c]) \cap Range(col[d]) = {}
    /\ \A e : (\E c \in D : e \in Range(col[c])) <=> (\E c \in D : e \in StoredIn(t, c))
    /\ \A e : e \in tasks <=> \E c \in D : e \in Range(Numbered(col[c], c))

\* They are shown as they will be stored, straight.
LEMMA RenumberedShows ==
    ASSUME NEW t \in Board, NEW old, NEW new, Shows(t, old),
           NEW D, NEW col, NEW tasks, Relaid(t, old, new, D, col, tasks)
    PROVE  /\ Valid(tasks) /\ Shows(Stored(t, tasks), new)
           /\ \A c \in D : Straight(new[c].tasks)
<1> SUFFICES ASSUME D \subseteq Cols,
                    \A c \in D : /\ col[c] \in Seq(Entry) /\ Len(col[c]) <= MaxOrder + 1
                                 /\ IsInjective(col[c])
                                 /\ new[c].tasks = Numbered(col[c], c),
                    \A c \in Cols \ D : new[c] = old[c],
                    \A c, d \in D : c # d => Range(col[c]) \cap Range(col[d]) = {},
                    \A e : (\E c \in D : e \in Range(col[c]))
                              <=> (\E c \in D : e \in StoredIn(t, c)),
                    \A e : e \in tasks <=> \E c \in D : e \in Range(Numbered(col[c], c))
             PROVE  /\ Valid(tasks) /\ Shows(Stored(t, tasks), new)
                    /\ \A c \in D : Straight(new[c].tasks)
  BY DEF Relaid
<1> DEFINE num == [c \in D |-> Numbered(col[c], c)]
           T == Stored(t, tasks)
<1>1. \A c \in D : num[c] = Numbered(col[c], c)
  OBVIOUS
<1> HIDE DEF num
<1>2. ASSUME NEW c \in D
      PROVE  /\ Len(col[c]) \in Nat /\ DOMAIN col[c] = 1 .. Len(col[c])
             /\ num[c] \in Seq(Entry) /\ DOMAIN num[c] = 1 .. Len(col[c])
             /\ \A i \in 1 .. Len(col[c]) :
                   /\ num[c][i] = [ID |-> col[c][i].ID, ColNo |-> c, Order |-> i - 1,
                                   Content |-> col[c][i].Content]
                   /\ num[c][i] \in Entry
  BY <1>1, NumberedPlaces, LenProperties
<1>3. ASSUME NEW c \in D, NEW i \in 1 .. Len(col[c])
       PROVE  /\ num[c][i].ID = col[c][i].ID /\ num[c][i].ColNo = c
              /\ num[c][i].Order = i - 1 /\ num[c][i].Content = col[c][i].Content
              /\ num[c][i] \in Entry
  <2>1. /\ num[c][i] = [ID |-> col[c][i].ID, ColNo |-> c, Order |-> i - 1,
                        Content |-> col[c][i].Content]
        /\ num[c][i] \in Entry
    BY <1>2
  <2>2. QED
    BY <2>1
<1>4. ASSUME NEW c \in D PROVE Straight(new[c].tasks)
  <2>1. new[c].tasks = num[c] /\ DOMAIN num[c] = 1 .. Len(col[c])
    BY <1>1, <1>2
  <2>2. QED
    BY <1>3, <2>1 DEF Straight
<1>5. ASSUME NEW c \in D, NEW i \in 1 .. Len(col[c])
      PROVE  /\ col[c][i] \in Range(col[c])
             /\ col[c][i].ID \in TaskIDs
             /\ col[c][i] = EntryOf(col[c][i].ID, t[col[c][i].ID])
             /\ col[c][i].Content \in Contents
  <2>1. col[c][i] \in Range(col[c])
    BY <1>2 DEF Range
  <2>2. PICK d \in D : col[c][i] \in StoredIn(t, d)
    BY <2>1
  <2>3. QED
    BY <2>1, <2>2, ShownStored DEF EntryOf, Item
<1>6. ASSUME NEW c \in D, NEW i \in 1 .. Len(col[c]),
             NEW d \in D, NEW j \in 1 .. Len(col[d]), col[c][i].ID = col[d][j].ID
      PROVE  c = d /\ i = j
  <2>1. col[c][i] = col[d][j]
    BY <1>5, <1>6
  <2>2. c = d
    <3>1. col[c][i] \in Range(col[c]) /\ col[c][i] \in Range(col[d])
      BY <1>5, <2>1
    <3>2. QED
      BY <3>1
  <2>3. QED
    BY <1>2, <1>6, <2>1, <2>2 DEF IsInjective
<1>7. \A e : e \in tasks <=> \E c \in D : \E i \in 1 .. Len(col[c]) : e = num[c][i]
  <2>1. ASSUME NEW c \in D, NEW e
        PROVE  e \in Range(Numbered(col[c], c)) <=> \E i \in 1 .. Len(col[c]) : e = num[c][i]
    <3>1. Numbered(col[c], c) = num[c] /\ DOMAIN num[c] = 1 .. Len(col[c])
      BY <1>1, <1>2
    <3>2. QED
      BY <3>1 DEF Range
  <2>2. ASSUME NEW e \in tasks PROVE \E c \in D : \E i \in 1 .. Len(col[c]) : e = num[c][i]
    <3>1. PICK c \in D : e \in Range(Numbered(col[c], c))
      OBVIOUS
    <3>2. \E i \in 1 .. Len(col[c]) : e = num[c][i]
      BY <2>1, <3>1
    <3>3. QED
      BY <3>2
  <2>3. ASSUME NEW c \in D, NEW i \in 1 .. Len(col[c]) PROVE num[c][i] \in tasks
    <3>1. num[c][i] \in Range(Numbered(col[c], c))
      BY <2>1
    <3>2. QED
      BY <3>1
  <2>4. QED
    BY <2>2, <2>3
<1>8. Valid(tasks)
  <2>1. ASSUME NEW e \in tasks PROVE e.ID \in TaskIDs
    <3>1. PICK c \in D : \E i \in 1 .. Len(col[c]) : e = num[c][i]
      BY <1>7
    <3>2. PICK i \in 1 .. Len(col[c]) : e = num[c][i]
      BY <3>1
    <3>3. e.ID \in TaskIDs
      BY <1>3, <1>5, <3>2
    <3>4. QED
      BY <3>3, BoardClientAssumption
  <2>2. ASSUME NEW e \in tasks, NEW f \in tasks, e.ID = f.ID PROVE e = f
    <3>1. PICK c \in D : \E i \in 1 .. Len(col[c]) : e = num[c][i]
      BY <1>7
    <3>2. PICK i \in 1 .. Len(col[c]) : e = num[c][i]
      BY <3>1
    <3>3. PICK d \in D : \E j \in 1 .. Len(col[d]) : f = num[d][j]
      BY <1>7
    <3>4. PICK j \in 1 .. Len(col[d]) : f = num[d][j]
      BY <3>3
    <3>5. col[c][i].ID = col[d][j].ID
      BY <1>3, <2>2, <3>2, <3>4
    <3>6. QED
      BY <1>6, <3>2, <3>4, <3>5
  <2>3. QED
    BY <2>1, <2>2 DEF Valid
<1>9. ASSUME NEW c \in D, NEW i \in 1 .. Len(col[c])
      PROVE  num[c][i] \in StoredIn(T, c)
  <2> DEFINE e == num[c][i]
             id == col[c][i].ID
  <2>1. e = [ID |-> id, ColNo |-> c, Order |-> i - 1, Content |-> col[c][i].Content]
        /\ e \in tasks /\ id \in TaskIDs /\ e \in Entry
    BY <1>2, <1>5, <1>7
  <2> HIDE DEF e, id
  <2>2. T[id] = ItemOf(e)
    BY <1>8, <2>1, StoredItem
  <2>3. ItemOf(e) \in Item
    BY <1>5, <2>1 DEF ItemOf, Item, Entry
  <2>4. EntryOf(id, ItemOf(e)) = e /\ ItemOf(e).ColNo = c /\ ItemOf(e) # NoItem
    BY <2>1, <2>3, BoardClientAssumption DEF EntryOf, ItemOf
  <2>5. QED
    BY <2>1, <2>2, <2>4 DEF StoredIn, e
<1>10. ASSUME NEW c \in Cols, NEW f \in StoredIn(T, c)
      PROVE  \/ c \in D /\ \E i \in 1 .. Len(col[c]) : f = num[c][i]
             \/ c \notin D /\ f \in StoredIn(t, c)
  <2>1. PICK id \in TaskIDs : T[id] # NoItem /\ T[id].ColNo = c /\ f = EntryOf(id, T[id])
    BY DEF StoredIn
  <2>2. CASE \E e \in tasks : e.ID = id
    <3>1. PICK e \in tasks : e.ID = id
      BY <2>2
    <3>2. PICK d \in D : \E i \in 1 .. Len(col[d]) : e = num[d][i]
      BY <1>7
    <3>3. PICK i \in 1 .. Len(col[d]) : e = num[d][i]
      BY <3>2
    <3>4. T[id] = ItemOf(e)
      BY <1>8, <3>1, StoredItem
    <3>5. e = [ID |-> id, ColNo |-> d, Order |-> i - 1, Content |-> col[d][i].Content]
      <4>1. e = [ID |-> col[d][i].ID, ColNo |-> d, Order |-> i - 1,
                 Content |-> col[d][i].Content]
        BY <1>2, <3>3
      <4>2. QED
        BY <3>1, <4>1
    <3>6. f = e /\ d = c
      BY <2>1, <3>4, <3>5 DEF EntryOf, ItemOf
    <3>7. QED
      BY <3>3, <3>6
  <2>3. CASE \A e \in tasks : e.ID # id
    <3>1. T[id] = t[id]
      BY <1>8, <2>3, StoredItem
    <3>2. f \in StoredIn(t, c) /\ f.ID = id
      BY <2>1, <3>1 DEF StoredIn, EntryOf
    <3>3. c \notin D
      <4>1. SUFFICES ASSUME c \in D PROVE FALSE
        OBVIOUS
      <4>2. PICK d \in D : f \in Range(col[d])
        BY <3>2, <4>1
      <4>3. PICK i \in 1 .. Len(col[d]) : f = col[d][i]
        BY <1>2, <4>2 DEF Range
      <4>4. num[d][i] \in tasks /\ num[d][i].ID = id
        BY <1>3, <1>7, <3>2, <4>3
      <4>5. QED
        BY <2>3, <4>4
    <3>4. QED
      BY <3>2, <3>3
  <2>4. QED
    BY <2>2, <2>3
<1>11. ASSUME NEW c \in Cols \ D, NEW f \in StoredIn(t, c) PROVE f \in StoredIn(T, c)
  <2>1. f.ID \in TaskIDs /\ t[f.ID].ColNo = c /\ t[f.ID] # NoItem /\ f = EntryOf(f.ID, t[f.ID])
    BY ShownStored, BoardClientAssumption
  <2>2. ASSUME NEW e \in tasks PROVE e.ID # f.ID
    <3>1. PICK d \in D : \E i \in 1 .. Len(col[d]) : e = num[d][i]
      BY <1>7
    <3>2. PICK i \in 1 .. Len(col[d]) : e = num[d][i]
      BY <3>1
    <3>3. e.ID = col[d][i].ID /\ col[d][i] \in Range(col[d])
      BY <1>3, <1>5, <3>2
    <3>4. PICK k \in D : col[d][i] \in StoredIn(t, k)
      BY <3>3
    <3>5. t[e.ID].ColNo = k
      BY <3>3, <3>4, ShownStored
    <3>6. QED
      BY <2>1, <3>5
  <2>3. T[f.ID] = t[f.ID]
    BY <1>8, <2>1, <2>2, StoredItem
  <2>4. QED
    BY <2>1, <2>3 DEF StoredIn
<1>12. ASSUME NEW c \in Cols
       PROVE  Range(new[c].tasks) = StoredIn(T, c) /\ IsInjective(new[c].tasks)
  <2>1. CASE c \in D
    <3>1. new[c].tasks = num[c]
      BY <1>1, <2>1
    <3>2. Range(num[c]) = StoredIn(T, c)
      BY <1>2, <1>9, <1>10, <2>1 DEF Range
    <3>3. IsInjective(num[c])
      <4>1. \A i, j \in 1 .. Len(col[c]) : num[c][i] = num[c][j] => col[c][i].ID = col[c][j].ID
        BY <1>3, <2>1
      <4>2. QED
        BY <1>2, <1>6, <2>1, <4>1 DEF IsInjective
    <3>4. QED
      BY <3>1, <3>2, <3>3
  <2>2. CASE c \notin D
    <3>1. new[c] = old[c] /\ Range(old[c].tasks) = StoredIn(t, c) /\ IsInjective(old[c].tasks)
      BY <2>2 DEF Shows
    <3>2. StoredIn(T, c) = StoredIn(t, c)
      BY <1>10, <1>11, <2>2
    <3>3. QED
      BY <3>1, <3>2
  <2>3. QED
    BY <2>1, <2>2
<1>13. QED
  BY <1>4, <1>8, <1>12 DEF Shows

-----------------------------------------------------------------------------
\* A column from which one task is taken out shows the others, once.
LEMMA PoppedOnce ==
    ASSUME NEW tasks \in Seq(Entry), IsInjective(tasks), NEW at \in 1 .. Len(tasks)
    PROVE  LET rest == Popped(tasks, at)
           IN  rest \in Seq(Entry) /\ IsInjective(rest) /\ Range(rest) = Range(tasks) \ {tasks[at]}
<1> DEFINE rest == Popped(tasks, at)
<1>1. Len(tasks) \in Nat /\ DOMAIN tasks = 1 .. Len(tasks) /\ at \in Nat \ {0} /\ at <= Len(tasks)
  BY LenProperties
<1>2. /\ rest \in Seq(Entry) /\ Len(rest) = Len(tasks) - 1
      /\ \A i \in 1 .. Len(rest) : rest[i] = tasks[IF i >= at THEN i + 1 ELSE i]
  BY <1>1, PoppedPlaces
<1> HIDE DEF rest
<1>3. DOMAIN rest = 1 .. Len(tasks) - 1
  BY <1>2, LenProperties
<1>4. \A i, j \in 1 .. Len(tasks) : tasks[i] = tasks[j] => i = j
  BY <1>1 DEF IsInjective
<1>5. IsInjective(rest)
  <2>1. SUFFICES ASSUME NEW i \in 1 .. Len(tasks) - 1, NEW j \in 1 .. Len(tasks) - 1,
                        rest[i] = rest[j]
                 PROVE  i = j
    BY <1>3 DEF IsInjective
  <2>2. (IF i >= at THEN i + 1 ELSE i) = (IF j >= at THEN j + 1 ELSE j)
    BY <1>1, <1>2, <1>4, <2>1
  <2>3. QED
    BY <1>1, <2>2
<1>6. ASSUME NEW i \in 1 .. Len(tasks) - 1 PROVE rest[i] \in Range(tasks) \ {tasks[at]}
  <2>1. /\ rest[i] = tasks[IF i >= at THEN i + 1 ELSE i]
        /\ (IF i >= at THEN i + 1 ELSE i) \in 1 .. Len(tasks)
        /\ (IF i >= at THEN i + 1 ELSE i) # at
    BY <1>1, <1>2
  <2>2. QED
    BY <1>1, <1>4, <2>1 DEF Range
<1>7. ASSUME NEW k \in 1 .. Len(tasks), k # at
      PROVE  \E i \in 1 .. Len(tasks) - 1 : rest[i] = tasks[k]
  <2>1. CASE k < at
    <3>1. k \in 1 .. Len(tasks) - 1 /\ rest[k] = tasks[k]
      BY <1>1, <1>2, <2>1
    <3>2. QED
      BY <3>1
  <2>2. CASE k > at
    <3>1. k - 1 \in 1 .. Len(tasks) - 1 /\ k - 1 >= at /\ (k - 1) + 1 = k
      BY <1>1, <2>2
    <3>2. rest[k - 1] = tasks[k]
      BY <1>2, <3>1
    <3>3. QED
      BY <3>1, <3>2
  <2>3. QED
    BY <1>1, <1>7, <2>1, <2>2
<1>8. Range(rest) = Range(tasks) \ {tasks[at]}
  <2>1. ASSUME NEW e \in Range(tasks), e # tasks[at] PROVE e \in Range(rest)
    <3>1. PICK k \in 1 .. Len(tasks) : tasks[k] = e
      BY <1>1 DEF Range
    <3>2. QED
      BY <1>3, <1>7, <2>1, <3>1 DEF Range
  <2>2. ASSUME NEW e \in Range(rest) PROVE e \in Range(tasks) \ {tasks[at]}
    BY <1>3, <1>6, <2>2 DEF Range
  <2>3. QED
    BY <2>1, <2>2
<1>9. QED
  BY <1>2, <1>5, <1>8 DEF rest

\* A column into which a task is put shows it too, once.
LEMMA InsertedOnce ==
    ASSUME NEW tasks \in Seq(Entry), IsInjective(tasks), NEW n \in 1 .. Len(tasks) + 1,
           NEW e \in Entry, e \notin Range(tasks)
    PROVE  LET placed == InsertAt(tasks, n, e)
           IN  placed \in Seq(Entry) /\ IsInjective(placed) /\ Range(placed) = Range(tasks) \cup {e}
<1> DEFINE placed == InsertAt(tasks, n, e)
<1>1. Len(tasks) \in Nat /\ DOMAIN tasks = 1 .. Len(tasks)
  BY LenProperties
<1>2. /\ placed \in Seq(Entry) /\ Len(placed) = Len(tasks) + 1
      /\ \A i \in 1 .. Len(placed) :
            placed[i] = IF i = n THEN e ELSE tasks[IF i < n THEN i ELSE i - 1]
  BY InsertedPlaces
<1> HIDE DEF placed
<1>3. DOMAIN placed = 1 .. Len(tasks) + 1
  BY <1>2, LenProperties
<1>4. \A i, j \in 1 .. Len(tasks) : tasks[i] = tasks[j] => i = j
  BY <1>1 DEF IsInjective
<1>5. ASSUME NEW i \in 1 .. Len(tasks) + 1, i # n
      PROVE  /\ placed[i] = tasks[IF i < n THEN i ELSE i - 1]
             /\ (IF i < n THEN i ELSE i - 1) \in 1 .. Len(tasks)
             /\ placed[i] \in Range(tasks)
  <2>1. placed[i] = tasks[IF i < n THEN i ELSE i - 1]
        /\ (IF i < n THEN i ELSE i - 1) \in 1 .. Len(tasks)
    BY <1>1, <1>2, <1>5
  <2>2. QED
    BY <1>1, <2>1 DEF Range
<1>6. placed[n] = e
  BY <1>1, <1>2
<1>7. IsInjective(placed)
  <2>1. SUFFICES ASSUME NEW i \in 1 .. Len(tasks) + 1, NEW j \in 1 .. Len(tasks) + 1,
                        placed[i] = placed[j]
                 PROVE  i = j
    BY <1>3 DEF IsInjective
  <2>2. i = n <=> j = n
    BY <1>5, <1>6, <2>1
  <2>3. CASE i # n /\ j # n
    <3>1. (IF i < n THEN i ELSE i - 1) = (IF j < n THEN j ELSE j - 1)
      BY <1>4, <1>5, <2>1, <2>3
    <3>2. QED
      BY <1>1, <2>3, <3>1
  <2>4. QED
    BY <2>2, <2>3
<1>8. ASSUME NEW k \in 1 .. Len(tasks)
      PROVE  \E i \in 1 .. Len(tasks) + 1 : placed[i] = tasks[k]
  <2>1. CASE k < n
    <3>1. k \in 1 .. Len(tasks) + 1 /\ placed[k] = tasks[k]
      BY <1>1, <1>2, <2>1
    <3>2. QED
      BY <3>1
  <2>2. CASE k >= n
    <3>1. k + 1 \in 1 .. Len(tasks) + 1 /\ k + 1 # n /\ ~ (k + 1 < n) /\ (k + 1) - 1 = k
      BY <1>1, <2>2
    <3>2. placed[k + 1] = tasks[k]
      BY <1>2, <3>1
    <3>3. QED
      BY <3>1, <3>2
  <2>3. QED
    BY <1>1, <2>1, <2>2
<1>9. Range(placed) = Range(tasks) \cup {e}
  <2>1. ASSUME NEW f \in Range(tasks) PROVE f \in Range(placed)
    <3>1. PICK k \in 1 .. Len(tasks) : tasks[k] = f
      BY <1>1 DEF Range
    <3>2. QED
      BY <1>3, <1>8, <3>1 DEF Range
  <2>2. e \in Range(placed)
    BY <1>1, <1>3, <1>6 DEF Range
  <2>3. ASSUME NEW f \in Range(placed) PROVE f \in Range(tasks) \cup {e}
    <3>1. PICK i \in 1 .. Len(tasks) + 1 : placed[i] = f
      BY <1>3 DEF Range
    <3>2. QED
      BY <1>5, <1>6, <3>1
  <2>4. QED
    BY <2>1, <2>2, <2>3
<1>10. QED
  BY <1>2, <1>7, <1>9 DEF placed

\* The calls that a drag of a board sends, when it is shown as it is stored
\* and straight, make the table what is shown.
LEMMA DragShows ==
    ASSUME TypeInv, Room + 1 <= MaxOrder, Shows(table, shown),
           \A c \in Cols : Straight(Tasks(c)),
           NEW g \in Gestures, NEW s \in Cols, NEW d \in Cols,
           NEW dragged \in Range(Tasks(s)),
           NEW n \in 1 .. Len(Onto(s, d, At(dragged))) + 1,
           Moves(g, s, d, dragged, n),
           NEW src, src = IF s = d THEN {}
                          ELSE Range(Numbered(InPlace(s, d, At(dragged), n, s), s)),
           NEW dst, dst = Range(Numbered(InPlace(s, d, At(dragged), n, d), d))
    PROVE  /\ Valid(src \cup dst) /\ Shows(Stored(table, src \cup dst), shown')
           /\ \A c \in Cols : Straight(shown'[c].tasks)
<1> DEFINE at == At(dragged)
           D == {s, d}
           col == [c \in D |-> InPlace(s, d, at, n, c)]
<1>1. ASSUME NEW c \in Cols
      PROVE  /\ Tasks(c) \in Seq(Entry) /\ Len(Tasks(c)) \in Nat
             /\ DOMAIN Tasks(c) = 1 .. Len(Tasks(c))
             /\ IsInjective(Tasks(c)) /\ Range(Tasks(c)) = StoredIn(table, c)
             /\ \A e \in StoredIn(table, c) : e.ColNo = c
  BY ShownTasks DEF Shows, Tasks, StoredIn, EntryOf
<1>2. at \in 1 .. Len(Tasks(s)) /\ Tasks(s)[at] = dragged /\ dragged \in Entry
      /\ dragged \in StoredIn(table, s)
  <2>1. PICK k \in 1 .. Len(Tasks(s)) : Tasks(s)[k] = dragged
    BY <1>1 DEF Range
  <2>2. at = k
    BY <1>1, <2>1 DEF At, Straight
  <2>3. QED
    BY <1>1, <2>1, <2>2, ShownTasks
<1> HIDE DEF at
<1>3. Dragged(s, at) = dragged
  BY <1>1, <1>2 DEF Dragged
<1>4. /\ Popped(Tasks(s), at) \in Seq(Entry) /\ IsInjective(Popped(Tasks(s), at))
      /\ Range(Popped(Tasks(s), at)) = StoredIn(table, s) \ {dragged}
  BY <1>1, <1>2, PoppedOnce
<1>5. /\ Onto(s, d, at) \in Seq(Entry) /\ IsInjective(Onto(s, d, at))
      /\ Range(Onto(s, d, at)) = StoredIn(table, d) \ {dragged}
  <2>1. CASE s = d
    BY <1>4, <2>1 DEF Onto
  <2>2. CASE s # d
    <3>1. dragged \notin StoredIn(table, d)
      BY <1>1, <1>2, <2>2
    <3>2. QED
      BY <1>1, <2>2, <3>1 DEF Onto
  <2>3. QED
    BY <2>1, <2>2
<1>6. /\ IsInjective(InsertAt(Onto(s, d, at), n, dragged))
      /\ Range(InsertAt(Onto(s, d, at), n, dragged)) = StoredIn(table, d) \cup {dragged}
  <2> DEFINE onto == Onto(s, d, at)
  <2>1. onto \in Seq(Entry) /\ IsInjective(onto) /\ dragged \notin Range(onto)
        /\ n \in 1 .. Len(onto) + 1
    BY <1>5 DEF at
  <2> HIDE DEF onto
  <2>2. /\ IsInjective(InsertAt(onto, n, dragged))
        /\ Range(InsertAt(onto, n, dragged)) = Range(onto) \cup {dragged}
    BY <1>2, <2>1, InsertedOnce
  <2>3. QED
    BY <1>5, <2>2 DEF onto
<1>7. /\ col[d] = InsertAt(Onto(s, d, at), n, dragged)
      /\ s # d => col[s] = Popped(Tasks(s), at)
  BY <1>3 DEF InPlace
<1>8. ASSUME NEW c \in D
      PROVE  /\ c \in Cols /\ col[c] = InPlace(s, d, At(dragged), n, c)
             /\ col[c] \in Seq(Entry) /\ Len(col[c]) <= MaxOrder + 1
             /\ IsInjective(col[c])
             /\ shown'[c].tasks = Numbered(col[c], c)
             /\ Range(col[c]) = IF c = d THEN StoredIn(table, d) \cup {dragged}
                                ELSE StoredIn(table, s) \ {dragged}
  <2>1. c \in Cols /\ col[c] = InPlace(s, d, At(dragged), n, c)
    BY DEF at
  <2>2. col[c] \in Seq(Entry) /\ Len(col[c]) <= Room + 1
    BY <2>1, DragPlaces
  <2>3. Len(col[c]) <= MaxOrder + 1
    <3>1. Len(col[c]) \in Nat /\ Room \in Nat /\ MaxOrder \in Nat
      BY <2>2, LenProperties, RoomType, Finite
    <3>2. QED
      BY <2>2, <3>1
  <2>4. shown'[c].tasks = Numbered(col[c], c)
    BY <2>1 DEF Moves, Column
  <2>5. IsInjective(col[c]) /\ Range(col[c]) = IF c = d THEN StoredIn(table, d) \cup {dragged}
                                ELSE StoredIn(table, s) \ {dragged}
    BY <1>4, <1>6, <1>7
  <2>6. QED
    BY <2>1, <2>2, <2>3, <2>4, <2>5
<1>9. \A c \in Cols \ D : shown'[c] = shown[c]
  BY DEF Moves
<1> HIDE DEF col
<1>10. \A c, k \in D : c # k => Range(col[c]) \cap Range(col[k]) = {}
  <2>1. s # d => Range(col[s]) \cap Range(col[d]) = {}
    <3>1. \A e \in StoredIn(table, s) \cap StoredIn(table, d) : s = d
      BY <1>1
    <3>2. QED
      BY <1>8, <3>1
  <2>2. QED
    BY <2>1
<1>11. \A e : (\E c \in D : e \in Range(col[c])) <=> (\E c \in D : e \in StoredIn(table, c))
  BY <1>2, <1>8
<1>12. \A e : e \in src \cup dst <=> \E c \in D : e \in Range(Numbered(col[c], c))
  BY <1>8
<1>13. table \in Board
  BY DEF TypeInv, StoreType
<1>14. /\ Valid(src \cup dst) /\ Shows(Stored(table, src \cup dst), shown')
       /\ \A c \in D : Straight(shown'[c].tasks)
  <2> HIDE DEF D
  <2>1. D \in SUBSET Cols
    BY DEF D
  <2>2. \A c \in D : /\ col[c] \in Seq(Entry) /\ Len(col[c]) <= MaxOrder + 1
                       /\ IsInjective(col[c])
                       /\ shown'[c].tasks = Numbered(col[c], c)
    BY <1>8
  <2> DEFINE tasks == src \cup dst
             new == shown'
  <2>3. \A e : e \in tasks <=> \E c \in D : e \in Range(Numbered(col[c], c))
    BY <1>12
  <2>4. \A c \in D : /\ col[c] \in Seq(Entry) /\ Len(col[c]) <= MaxOrder + 1
                       /\ IsInjective(col[c])
                       /\ new[c].tasks = Numbered(col[c], c)
    BY <2>2
  <2>5. \A c \in Cols \ D : new[c] = shown[c]
    BY <1>9
  <2> HIDE DEF tasks, new
  <2>6. /\ Valid(tasks) /\ Shows(Stored(table, tasks), new)
        /\ \A c \in D : Straight(new[c].tasks)
    <3>1. Relaid(table, shown, new, D, col, tasks)
      BY <1>10, <1>11, <2>1, <2>3, <2>4, <2>5 DEF Relaid
    <3>2. QED
      BY <1>13, <3>1, RenumberedShows
  <2>7. QED
    BY <2>6 DEF tasks, new
<1>15. \A c \in Cols \ D : Straight(shown'[c].tasks)
  BY <1>9 DEF Tasks
<1>16. QED
  BY <1>14, <1>15

-----------------------------------------------------------------------------
\* An edit goes back to what it has kept only while it is sent; then it has
\* made a call.
KeptInv ==
    \A g \in Gestures : /\ kept[g] # Nothing => pc[g] = "sent" /\ gesture[g].kind # "drag"
                        /\ pc[g] = "sent" => call[g].dst # "none"

\* What is shown, and gone back to, aims; and drags have moved what they
\* should, though the user did not wait or a load failed.
Aimed(board) == \A c \in Cols : Aims(board[c].tasks)
DragAimed(g) ==
    gesture[g].kind = "drag" /\ gesture[g].task.ID \in TaskIDs =>
        \E e \in body[g].dst : e.ID = gesture[g].task.ID
AimInv ==
    mishaps \subseteq {"overlap", "no load", "no cookie"} =>
        /\ Aimed(shown)
        /\ "overlap" \notin mishaps => \A g \in Gestures : kept[g] # Nothing => Aimed(kept[g])
        /\ \A g \in Gestures : DragAimed(g)

\* A drag that is sent, what its calls have still to put, and what it needs:
\* the board that is shown is what they make of the table.
DragGoes(g) == pc[g] = "sent" /\ gesture[g].kind = "drag"
Left(g) == (IF call[g].src = "sent" THEN body[g].src ELSE {})
              \cup (IF call[g].dst = "sent" THEN body[g].dst ELSE {})
DragSent(g) ==
    /\ Valid(body[g].src \cup body[g].dst)
    /\ \A c \in Cols : Straight(Tasks(c))
    /\ call[g].dst # "failed" => Shows(Stored(table, Left(g)), shown)
    /\ call[g].src = "none" /\ call[g].dst # "ok" => Dense(table)
    /\ call[g].src # "failed" /\ (call[g].dst = "failed" => call[g].src = "none")

\* An edit that is sent, which leaves no gaps either.
EditSent(g) ==
    /\ gesture[g].kind \in {"toggle", "create"}
    /\ gesture[g].kind = "create" /\ call[g].dst = "sent" =>
          \E e \in body[g].dst : /\ body[g].dst = {e} /\ e.ColNo = 0
                                 /\ e.Order = Cardinality(StoredIn(table, 0))
DenseFor(g) ==
    IF DragGoes(g) THEN DragSent(g)
    ELSE Dense(table) /\ (pc[g] = "sent" => EditSent(g))

\* As long as there is no mishap, what is stored has no gaps, but while a
\* drag is stored.
DenseInv ==
    mishaps = {} =>
        /\ Quiet => Dense(table)
        /\ \A g \in Gestures : Busy(g) => DenseFor(g)

\* What every step keeps.
DragInv == QuietInv /\ KeptInv /\ AimInv /\ DenseInv

\* What a step of the only gesture under way can use.
LEMMA DenseBefore ==
    ASSUME DragInv, mishaps = {}, NEW g \in Gestures, Busy(g) \/ Quiet
    PROVE  DenseFor(g) /\ NoMishap /\ TypeInv /\ Aimed(shown) /\ Waits(g) /\ table \in Board
<1>1. NoMishap /\ TypeInv /\ Aimed(shown) /\ Waits(g)
  BY DEF NoMishap, DragInv, QuietInv, AimInv
<1>2. CASE Busy(g)
  BY <1>1, <1>2 DEF DragInv, DenseInv, TypeInv, StoreType
<1>3. CASE Quiet
  <2>1. pc[g] # "sent" /\ Dense(table)
    BY <1>3 DEF Quiet, Busy, DragInv, DenseInv
  <2>2. QED
    BY <1>1, <2>1 DEF DenseFor, DragGoes, TypeInv, StoreType
<1>4. QED
  BY <1>2, <1>3

\* And what it has to show.
LEMMA DenseAfter ==
    ASSUME DragInv, mishaps \subseteq mishaps', NEW g \in Gestures,
           \A h \in Gestures : h # g => pc'[h] = pc[h] /\ call'[h] = call[h],
           mishaps' = {} => (Busy(g) \/ Quiet) /\ DenseFor(g)'
    PROVE  DenseInv'
<1> SUFFICES ASSUME mishaps' = {}
             PROVE  /\ Quiet' => Dense(table')
                    /\ \A h \in Gestures : Busy(h)' => DenseFor(h)'
  BY DEF DenseInv
<1>1. NoMishap
  BY DEF NoMishap
<1>2. ASSUME NEW h \in Gestures, h # g PROVE ~Busy(h)'
  <2>1. ~Busy(h) /\ pc'[h] = pc[h] /\ call'[h] = call[h]
    BY <1>1, <1>2 DEF DragInv, QuietInv, Quiet
  <2>2. QED
    BY <2>1 DEF Busy, Pending
<1>3. ASSUME Quiet' PROVE Dense(table')
  <2>1. pc'[g] # "sent"
    BY <1>3 DEF Quiet, Busy
  <2>2. QED
    BY <2>1 DEF DenseFor, DragGoes
<1>4. QED
  BY <1>2, <1>3

\* What is shown as it is stored, and aims, is straight.
LEMMA ShownStraight ==
    ASSUME TypeInv, NEW t \in Board, Shows(t, shown), Aimed(shown)
    PROVE  (\A c \in Cols : Straight(Tasks(c))) /\ Dense(t)
<1>1. ASSUME NEW c \in Cols PROVE shown[c].tasks \in Seq(Entry) /\ Straight(shown[c].tasks)
  <2>1. shown[c].tasks \in Seq(Entry)
    BY ShownTasks DEF Tasks
  <2>2. Range(shown[c].tasks) = StoredIn(t, c) /\ IsInjective(shown[c].tasks)
        /\ Aims(shown[c].tasks)
    BY DEF Shows, Aimed
  <2>3. QED
    BY <2>1, <2>2, AimsStraight
<1>2. Dense(t)
  BY <1>1, StraightDense
<1>3. QED
  BY <1>1, <1>2 DEF Tasks

-----------------------------------------------------------------------------
\* An answer leaves no gaps: the calls of a drag make the table what is
\* shown, and a task is created at the end of the inbox.
LEMMA AnswersDense ==
    ASSUME DragInv, QuietInv', NEW g \in Gestures, NEW way \in {"src", "dst"},
           Answers(g, way)
    PROVE  DenseInv'
<1>1. /\ TypeInv /\ mishaps' = mishaps /\ Pending(g, way)
      /\ UNCHANGED << shown, pc, gesture, body, kept >>
      /\ call' = [call EXCEPT ![g][way] = "ok"]
  BY DEF DragInv, QuietInv, Answers, Call
<1>2. /\ \A h \in Gestures : h # g => pc'[h] = pc[h] /\ call'[h] = call[h]
      /\ call'[g][way] = "ok"
      /\ \A other \in {"src", "dst"} : other # way => call'[g][other] = call[g][other]
  BY <1>1 DEF TypeInv, CallsType
<1>3. ASSUME mishaps' = {} PROVE Busy(g) /\ DenseFor(g)'
  <2>1. NoMishap /\ Waits(g)
    BY <1>1, <1>3 DEF NoMishap, DragInv, QuietInv
  <2>2. pc[g] = "sent" /\ Busy(g) /\ call[g][way] = "sent" /\ Stores(g, way)
    BY <1>1, <2>1 DEF Waits, Busy, Pending, Answers, Recognised
  <2>3. DenseFor(g) /\ Aimed(shown) /\ table \in Board
    BY <1>1, <1>3, <2>2, DenseBefore
  <2>4. TypeInv' /\ table' \in Board
    BY DEF QuietInv, TypeInv, StoreType
  <2>5. CASE gesture[g].kind = "drag"
    <3> DEFINE src == body[g].src
               dst == body[g].dst
               left == IF way = "src" THEN IF call[g].dst = "sent" THEN dst ELSE {}
                                      ELSE IF call[g].src = "sent" THEN src ELSE {}
    <3>1. DragSent(g)
      BY <2>2, <2>3, <2>5 DEF DenseFor, DragGoes
    <3>2. table' = Stored(table, body[g][way])
      BY <2>2, <2>5 DEF Stores, Changes, Puts, Stored
    <3>3. Left(g) = body[g][way] \cup left /\ Left(g)' = left
      BY <1>1, <1>2, <2>2 DEF Left
    <3>4. Valid(body[g][way] \cup left)
      BY <3>1 DEF DragSent, Valid
    <3>5. Stored(table', Left(g)') = Stored(table, Left(g))
      BY <3>2, <3>3, <3>4, StoredTwice
    <3>6. call[g].dst # "failed"
      BY <2>2, <3>1 DEF DragSent
    <3>7. Shows(Stored(table', Left(g)'), shown')
      BY <1>1, <3>1, <3>5, <3>6 DEF DragSent
    <3>8. call'[g].src = "none" => way = "dst"
      BY <1>2
    <3>9. DragSent(g)'
      BY <1>1, <1>2, <3>1, <3>6, <3>7, <3>8 DEF DragSent, Tasks
    <3>10. QED
      BY <1>1, <2>2, <2>5, <3>9 DEF DenseFor, DragGoes
  <2>6. CASE gesture[g].kind # "drag"
    <3>1. Edits(g) /\ EditSent(g) /\ Dense(table)
      BY <2>1, <2>2, <2>3, <2>6 DEF Waits, DenseFor, DragGoes
    <3>2. way = "dst" /\ call'[g].dst = "ok"
      BY <1>2, <2>2, <3>1 DEF Edits
    <3>3. Dense(table')
      <4>1. CASE gesture[g].kind = "toggle"
        <5>1. Waits(g)' /\ pc'[g] = "sent" /\ gesture'[g].kind = "toggle"
          BY <1>1, <1>3, <2>2, <4>1 DEF QuietInv, NoMishap
        <5>2. Shows(table', shown')
          BY <3>2, <5>1 DEF Waits, Edits
        <5>3. QED
          BY <1>1, <2>3, <2>4, <5>2, ShownStraight
      <4>2. CASE gesture[g].kind = "create"
        <5>1. PICK e \in body[g].dst : /\ body[g].dst = {e} /\ e.ColNo = 0
                                       /\ e.Order = Cardinality(StoredIn(table, 0))
          BY <2>2, <3>1, <3>2, <4>2 DEF EditSent
        <5>2. PICK id \in TaskIDs : table[id] = NoItem /\ table' = [table EXCEPT ![id] = ItemOf(e)]
          BY <2>2, <3>2, <4>2, <5>1 DEF Stores, Changes
        <5>3. e \in Entry /\ e.Content \in Contents
          BY <1>1, <4>2, <5>1 DEF TypeInv, CallsType, Prepared
        <5>4. ItemOf(e) \in Item /\ ItemOf(e).ColNo = 0
              /\ ItemOf(e).Order = Cardinality(StoredIn(table, 0)) /\ 0 \in Cols
          BY <5>1, <5>3, BoardClientAssumption DEF ItemOf, Item, Entry
        <5>5. QED
          BY <2>3, <3>1, <5>2, <5>4, CreatedDense
      <4>3. QED
        BY <3>1, <4>1, <4>2 DEF EditSent
    <3>4. EditSent(g)'
      BY <1>1, <3>1, <3>2 DEF EditSent
    <3>5. ~DragGoes(g)'
      BY <1>1, <2>6 DEF DragGoes
    <3>6. QED
      BY <2>2, <3>3, <3>4, <3>5 DEF DenseFor
  <2>7. QED
    BY <2>2, <2>5, <2>6
<1>4. QED
  BY <1>1, <1>2, <1>3, DenseAfter

\* A refusal leaves the table as it was, which has no gaps: a drag within a
\* column makes one call only.
LEMMA RefusesDense ==
    ASSUME DragInv, NEW g \in Gestures, NEW way \in {"src", "dst"}, Refuses(g, way)
    PROVE  DenseInv'
<1>1. /\ TypeInv /\ mishaps \subseteq mishaps' /\ Pending(g, way)
      /\ UNCHANGED << table, shown, pc, gesture, body, kept >>
      /\ call' = [call EXCEPT ![g][way] = "failed"]
      /\ Notes(When(call[g].src # "none", "numbering"))
  BY DEF DragInv, QuietInv, Refuses, Call, Notes, store
<1>2. /\ \A h \in Gestures : h # g => pc'[h] = pc[h] /\ call'[h] = call[h]
      /\ call'[g][way] = "failed"
      /\ \A other \in {"src", "dst"} : other # way => call'[g][other] = call[g][other]
  BY <1>1 DEF TypeInv, CallsType
<1>3. ASSUME mishaps' = {} PROVE Busy(g) /\ DenseFor(g)'
  <2>1. mishaps = {} /\ call[g].src = "none"
    BY <1>1, <1>3 DEF Notes, When
  <2>2. NoMishap /\ Waits(g)
    BY <2>1 DEF NoMishap, DragInv, QuietInv
  <2>3. pc[g] = "sent" /\ Busy(g) /\ call[g][way] = "sent"
    BY <1>1, <2>2 DEF Waits, Busy, Pending
  <2>4. DenseFor(g) /\ way = "dst"
    BY <2>1, <2>3, DenseBefore
  <2>5. call'[g].src = "none" /\ call'[g].dst = "failed"
    BY <1>2, <2>1, <2>4
  <2>6. CASE DragGoes(g)
    <3>1. DragSent(g) /\ Dense(table)
      BY <2>1, <2>3, <2>4, <2>6 DEF DenseFor, DragSent
    <3>2. DragSent(g)'
      BY <1>1, <2>5, <3>1 DEF DragSent, Tasks, Dense, StoredIn
    <3>3. QED
      BY <1>1, <2>3, <2>6, <3>2 DEF DenseFor, DragGoes
  <2>7. CASE ~DragGoes(g)
    <3>1. EditSent(g) /\ Dense(table) /\ ~DragGoes(g)'
      BY <1>1, <2>3, <2>4, <2>7 DEF DenseFor, DragGoes
    <3>2. EditSent(g)'
      BY <1>1, <2>5, <3>1 DEF EditSent
    <3>3. Dense(table')
      BY <1>1, <3>1
    <3>4. QED
      BY <2>3, <3>1, <3>2, <3>3 DEF DenseFor
  <2>8. QED
    BY <2>6, <2>7
<1>4. QED
  BY <1>1, <1>2, <1>3, DenseAfter

-----------------------------------------------------------------------------
\* What a gesture that is sent is from then on, and what stays.
LEMMA SendsParts ==
    ASSUME TypeInv, NEW g \in Gestures, NEW kind, NEW task, NEW src, NEW dst,
           Sends(g, kind, task, src, dst)
    PROVE  /\ pc'[g] = "sent" /\ gesture'[g].kind = kind /\ gesture'[g].task = task
           /\ body'[g].src = src /\ body'[g].dst = dst
           /\ call'[g].src = (IF src = {} THEN "none" ELSE "sent") /\ call'[g].dst = "sent"
           /\ table' = table
           /\ \A h \in Gestures : h # g => /\ pc'[h] = pc[h] /\ gesture'[h] = gesture[h]
                                           /\ body'[h] = body[h] /\ call'[h] = call[h]
<1>1. /\ pc' = [pc EXCEPT ![g] = "sent"]
      /\ gesture' = [gesture EXCEPT ![g] = [kind |-> kind, task |-> task]]
      /\ body' = [body EXCEPT ![g] = [src |-> src, dst |-> dst]]
      /\ call' = [call EXCEPT ![g] = [src |-> IF src = {} THEN "none" ELSE "sent",
                                      dst |-> "sent"]]
      /\ table' = table
  BY DEF Sends, Goes, store
<1>2. call'[g] = [src |-> IF src = {} THEN "none" ELSE "sent", dst |-> "sent"]
  BY <1>1 DEF TypeInv, CallsType
<1>3. QED
  BY <1>1, <1>2 DEF TypeInv, GesturesType, CallsType

\* A drag of a board that is shown as it is stored sends what makes the table
\* what is shown.
LEMMA DragDense ==
    ASSUME DragInv, NEW g \in Gestures, Drag(g)
    PROVE  DenseInv'
<1>1. TypeInv /\ MayAct(g) /\ Notes(Overlap) /\ mishaps \subseteq mishaps'
  BY DragParts DEF DragInv, QuietInv, Notes
<1>2. PICK s \in Cols, d \in Cols : \E dragged \in Range(Tasks(s)) :
         \E n \in 1 .. Len(Onto(s, d, At(dragged))) + 1 : Moves(g, s, d, dragged, n)
  BY DragParts
<1>3. PICK dragged \in Range(Tasks(s)) :
         \E n \in 1 .. Len(Onto(s, d, At(dragged))) + 1 : Moves(g, s, d, dragged, n)
  BY <1>2
<1>4. PICK n \in 1 .. Len(Onto(s, d, At(dragged))) + 1 : Moves(g, s, d, dragged, n)
  BY <1>3
<1> DEFINE src == IF s = d THEN {} ELSE Range(Numbered(InPlace(s, d, At(dragged), n, s), s))
           dst == Range(Numbered(InPlace(s, d, At(dragged), n, d), d))
<1>5. Sends(g, "drag", dragged, src, dst)
  BY <1>4 DEF Moves
<1>6. Room + 1 <= MaxOrder
  <2>1. pc[g] \in {"idle", "open"} /\ GesturesType /\ Goes(g, "sent")
    BY <1>1, <1>5 DEF MayAct, Sends, TypeInv
  <2>2. QED
    BY <2>1, RoomGrows
<1>7. /\ pc'[g] = "sent" /\ gesture'[g].kind = "drag"
      /\ body'[g].src = src /\ body'[g].dst = dst
      /\ call'[g].src = (IF src = {} THEN "none" ELSE "sent") /\ call'[g].dst = "sent"
      /\ table' = table
      /\ \A h \in Gestures : h # g => pc'[h] = pc[h] /\ call'[h] = call[h]
  <2> HIDE DEF src, dst
  <2>1. QED
    BY <1>1, <1>5, SendsParts
<1>8. ASSUME mishaps' = {} PROVE Quiet /\ DenseFor(g)'
  <2>1. Overlap \cup {} = Overlap /\ NoMishap'
    BY <1>8 DEF NoMishap
  <2>2. Quiet /\ mishaps = {}
    BY <1>1, <1>8, <2>1, OverlapNoted
  <2>3. Aimed(shown) /\ NoMishap /\ table \in Board
    BY <2>2, DenseBefore
  <2>4. Shows(table, shown)
    BY <1>1, <2>2, <2>3, ActsOnStored DEF DragInv
  <2>5. (\A c \in Cols : Straight(Tasks(c))) /\ Dense(table)
    BY <1>1, <2>3, <2>4, ShownStraight
  <2>6. /\ Valid(src \cup dst) /\ Shows(Stored(table, src \cup dst), shown')
        /\ \A c \in Cols : Straight(shown'[c].tasks)
    BY <1>1, <1>4, <1>6, <2>4, <2>5, DragShows
  <2> HIDE DEF src, dst
  <2>7. Left(g)' = src \cup dst
    BY <1>7 DEF Left
  <2>8. DragSent(g)'
    <3>1. Shows(Stored(table', Left(g)'), shown')
      BY <1>7, <2>6, <2>7
    <3>2. Valid(body'[g].src \cup body'[g].dst)
      BY <1>7, <2>6
    <3>3. Dense(table')
      BY <1>7, <2>5
    <3>4. call'[g].src # "failed" /\ call'[g].dst = "sent"
      BY <1>7
    <3>5. QED
      BY <2>6, <3>1, <3>2, <3>3, <3>4 DEF DragSent, Tasks
  <2>9. DragGoes(g)'
    BY <1>7 DEF DragGoes
  <2>10. QED
    BY <2>2, <2>8, <2>9 DEF DenseFor
<1>9. QED
  BY <1>1, <1>7, <1>8, DenseAfter

\* The other gestures change no order that is stored, or create a task at
\* the end of the inbox.
LEMMA EditsDense ==
    ASSUME DragInv, NEW g \in Gestures,
           Toggle(g) \/ Opens(g) \/ SubmitsCreate(g) \/ SubmitsEdit(g) \/ SubmitsDelete(g)
    PROVE  DenseInv'
<1>1. TypeInv
  BY DEF DragInv, QuietInv
<1>2. ASSUME SubmitsEdit(g) \/ SubmitsDelete(g) PROVE DenseInv'
  BY <1>2 DEF SubmitsEdit, SubmitsDelete, Notes, DenseInv
<1>3. CASE Toggle(g)
  <2>1. PICK task, sent, happened :
           MayAct(g) /\ Sends(g, "toggle", task, {}, sent) /\ Notes(Overlap \cup happened)
    BY <1>3 DEF Toggle
  <2>2. /\ pc'[g] = "sent" /\ gesture'[g].kind = "toggle" /\ table' = table
        /\ \A h \in Gestures : h # g => pc'[h] = pc[h] /\ call'[h] = call[h]
    BY <1>1, <2>1, SendsParts
  <2>3. mishaps \subseteq mishaps'
    BY <2>1 DEF Notes
  <2>4. ASSUME mishaps' = {} PROVE Quiet /\ DenseFor(g)'
    <3>1. Quiet /\ mishaps = {}
      BY <2>1, <2>3, <2>4, OverlapNoted DEF NoMishap
    <3>2. Dense(table)
      BY <3>1 DEF DragInv, DenseInv
    <3>3. Dense(table') /\ EditSent(g)' /\ ~DragGoes(g)'
      BY <2>2, <3>2 DEF EditSent, DragGoes
    <3>4. QED
      BY <3>1, <3>3 DEF DenseFor
  <2>5. QED
    BY <2>2, <2>3, <2>4, DenseAfter
<1>4. CASE Opens(g)
  <2>1. /\ MayAct(g) /\ Notes(Overlap) /\ mishaps \subseteq mishaps'
        /\ pc' = [pc EXCEPT ![g] = "open"] /\ call' = call /\ table' = table
    BY <1>4 DEF Opens, Notes, Goes, calls, store
  <2>2. pc'[g] = "open" /\ \A h \in Gestures : h # g => pc'[h] = pc[h] /\ call'[h] = call[h]
    BY <1>1, <2>1 DEF TypeInv, GesturesType
  <2>3. ASSUME mishaps' = {} PROVE Quiet /\ DenseFor(g)'
    <3>1. Overlap \cup {} = Overlap /\ NoMishap'
      BY <2>3 DEF NoMishap
    <3>2. Quiet /\ mishaps = {}
      BY <2>1, <2>3, <3>1, OverlapNoted
    <3>3. Dense(table')
      BY <2>1, <3>2 DEF DragInv, DenseInv
    <3>4. QED
      BY <2>2, <3>2, <3>3 DEF DenseFor, DragGoes
  <2>4. QED
    BY <2>1, <2>2, <2>3, DenseAfter
<1>5. CASE SubmitsCreate(g)
  <2>1. PICK content \in Contents :
           LET new(order) == [ID |-> NoID, ColNo |-> 0, Order |-> order,
                              Content |-> content]
               length == Len(Tasks(0))
           IN  /\ Optimistically(g, 0, Append(Tasks(0), new(length + 1)))
               /\ Sends(g, "create", NoItem, {}, {new(length)})
    BY <1>5 DEF SubmitsCreate
  <2> DEFINE new == [ID |-> NoID, ColNo |-> 0, Order |-> Len(Tasks(0)), Content |-> content]
  <2>2. Sends(g, "create", NoItem, {}, {new}) /\ pc[g] = "open" /\ mishaps' = mishaps
    BY <1>5, <2>1 DEF SubmitsCreate, Submitting
  <2>3. new.ColNo = 0 /\ new.Order = Len(Tasks(0))
    OBVIOUS
  <2> HIDE DEF new
  <2>4. /\ pc'[g] = "sent" /\ gesture'[g].kind = "create" /\ table' = table
        /\ body'[g].dst = {new}
        /\ \A h \in Gestures : h # g => pc'[h] = pc[h] /\ call'[h] = call[h]
    BY <1>1, <2>2, SendsParts
  <2>5. ASSUME mishaps' = {} PROVE Busy(g) /\ DenseFor(g)'
    <3>1. Busy(g) /\ mishaps = {}
      BY <2>2, <2>5 DEF Busy
    <3>2. DenseFor(g) /\ NoMishap
      BY <3>1, DenseBefore
    <3>3. Dense(table)
      BY <2>2, <3>2 DEF DenseFor, DragGoes
    <3>4. Shows(table, shown)
      BY <2>2, <3>2, ActsOnStored DEF DragInv
    <3>5. Cardinality(StoredIn(table, 0)) = Len(Tasks(0))
      BY <1>1, <3>4, ShownCount, ShownTasks, BoardClientAssumption DEF Shows, Tasks
    <3>6. EditSent(g)'
      <4>1. new \in body'[g].dst /\ body'[g].dst = {new} /\ new.ColNo = 0
            /\ new.Order = Cardinality(StoredIn(table', 0))
        BY <2>3, <2>4, <3>5
      <4>2. QED
        BY <2>4, <4>1 DEF EditSent
    <3>7. Dense(table') /\ ~DragGoes(g)'
      BY <2>4, <3>3 DEF DragGoes
    <3>8. QED
      BY <3>1, <3>6, <3>7 DEF DenseFor
  <2>6. QED
    BY <2>2, <2>4, <2>5, DenseAfter
<1>6. QED
  BY <1>2, <1>3, <1>4, <1>5

\* When a gesture has its answers, there are no gaps: if a drag has failed,
\* it has failed as a whole.
LEMMA HandlesDense ==
    ASSUME DragInv, NEW g \in Gestures, Handles(g)
    PROVE  DenseInv'
<1>1. /\ TypeInv /\ mishaps \subseteq mishaps' /\ table' = table /\ Busy(g)
      /\ \E label \in {"loading", "loaded", "done"} : Goes(g, label)
      /\ \A h \in Gestures : h # g => call'[h] = call[h]
  BY DEF DragInv, QuietInv, Handles, EditAnswered, DragAnswered, LoadReads, LoadShows,
     LoadFails, Loading, Notes, Reloads, store, calls, Busy, Taken, TypeInv, CallsType
<1>2. /\ pc'[g] \in {"loading", "loaded", "done"}
      /\ \A h \in Gestures : h # g => pc'[h] = pc[h] /\ call'[h] = call[h]
  BY <1>1 DEF Goes, TypeInv, GesturesType
<1>3. ASSUME mishaps' = {} PROVE DenseFor(g)'
  <2>1. mishaps = {}
    BY <1>1, <1>3
  <2>2. DenseFor(g) /\ Waits(g) /\ Aimed(shown) /\ table \in Board
    BY <1>1, <2>1, DenseBefore
  <2>3. Dense(table)
    <3>1. CASE ~DragGoes(g)
      BY <2>2, <3>1 DEF DenseFor
    <3>2. CASE DragGoes(g)
      <4>1. DragAnswered(g)
        BY <3>2 DEF Handles, DragGoes, EditAnswered, LoadReads, LoadShows, LoadFails, Loading
      <4>2. DragSent(g)
        BY <2>2, <3>2 DEF DenseFor
      <4>3. call[g].dst \in {"ok", "failed"}
        BY <1>1, <2>2, <3>2, <4>1, CallTypes
           DEF Waits, DragGoes, DragAnswered, Awaited, Pending, CallStates
      <4>4. CASE call[g].dst = "failed"
        BY <4>2, <4>4 DEF DragSent
      <4>5. CASE call[g].dst = "ok"
        <5>1. call[g].src # "sent"
          BY <4>1, <4>5 DEF DragAnswered, Awaited, Pending
        <5>2. Left(g) = {}
          BY <4>5, <5>1 DEF Left
        <5>3. Stored(table, {}) = table
          BY <2>2 DEF Stored, Board
        <5>4. Shows(table, shown)
          BY <4>2, <4>5, <5>2, <5>3 DEF DragSent
        <5>5. QED
          BY <1>1, <2>2, <5>4, ShownStraight
      <4>6. QED
        BY <4>3, <4>4, <4>5
    <3>3. QED
      BY <3>1, <3>2
  <2>4. QED
    BY <1>1, <1>2, <2>3 DEF DenseFor, DragGoes
<1>4. QED
  BY <1>1, <1>2, <1>3, DenseAfter

-----------------------------------------------------------------------------
\* A drag keeps nothing where nothing was kept.
LEMMA DragKeepsNothing ==
    ASSUME NEW g \in Gestures, Drag(g), NEW h \in Gestures, kept[h] = Nothing
    PROVE  kept'[h] = Nothing
<1>1. PICK s \in Cols, d \in Cols : \E dragged \in Range(Tasks(s)) :
         \E n \in 1 .. Len(Onto(s, d, At(dragged))) + 1 : Moves(g, s, d, dragged, n)
  BY DragParts
<1>2. PICK dragged \in Range(Tasks(s)) :
         \E n \in 1 .. Len(Onto(s, d, At(dragged))) + 1 : Moves(g, s, d, dragged, n)
  BY <1>1
<1>3. PICK n \in 1 .. Len(Onto(s, d, At(dragged))) + 1 : Moves(g, s, d, dragged, n)
  BY <1>2
<1>4. DOMAIN kept[h] = {}
  BY DEF Nothing
<1>5. DOMAIN kept'[h] = {} /\ kept'[h] = [c \in DOMAIN kept'[h] |-> kept'[h][c]]
  BY <1>3, <1>4 DEF Moves
<1>6. QED
  BY <1>5, NoColumns

\* An edit that is sent keeps the board that is shown.
LEMMA SubmitsKept ==
    ASSUME NEW g, Toggle(g) \/ SubmitsCreate(g) \/ SubmitsEdit(g) \/ SubmitsDelete(g)
    PROVE  /\ kept' = [kept EXCEPT ![g] = shown]
           /\ \E kind \in {"toggle", "create", "edit", "delete"} : \E task, dst :
                 Sends(g, kind, task, {}, dst)
<1>1. CASE Toggle(g)
  BY <1>1 DEF Toggle, Optimistically
<1>2. CASE SubmitsCreate(g)
  BY <1>2 DEF SubmitsCreate, Optimistically
<1>3. CASE SubmitsEdit(g)
  BY <1>3 DEF SubmitsEdit
<1>4. CASE SubmitsDelete(g)
  BY <1>4 DEF SubmitsDelete, Optimistically
<1>5. QED
  BY <1>1, <1>2, <1>3, <1>4

\* Only while it is sent has an edit kept a board.
LEMMA KeptStep == TypeInv /\ KeptInv /\ [Next]_vars => KeptInv'
<1> SUFFICES ASSUME TypeInv, KeptInv, [Next]_vars PROVE KeptInv'
  OBVIOUS
<1>1. CASE CookieGoes \/ UNCHANGED vars
  BY <1>1 DEF CookieGoes, vars, calls, KeptInv
<1>2. ASSUME NEW g \in Gestures, Drag(g) PROVE KeptInv'
  <2>1. PICK task, src, dst : Sends(g, "drag", task, src, dst)
    BY <1>2, DragParts DEF Moves
  <2>2. /\ pc'[g] = "sent" /\ call'[g].dst = "sent"
        /\ \A h \in Gestures : h # g => /\ pc'[h] = pc[h] /\ gesture'[h] = gesture[h]
                                        /\ call'[h] = call[h]
    BY <2>1, SendsParts
  <2>3. pc[g] = "idle"
    BY <1>2 DEF Drag, MayAct
  <2>4. \A h \in Gestures : kept'[h] # Nothing => kept[h] # Nothing /\ h # g
    BY <1>2, <2>3, DragKeepsNothing DEF KeptInv
  <2>5. QED
    BY <2>2, <2>4 DEF KeptInv
<1>3. ASSUME NEW g \in Gestures,
             Toggle(g) \/ SubmitsCreate(g) \/ SubmitsEdit(g) \/ SubmitsDelete(g)
      PROVE  KeptInv'
  <2>1. PICK kind \in {"toggle", "create", "edit", "delete"} :
           \E task, dst : Sends(g, kind, task, {}, dst)
    BY <1>3, SubmitsKept
  <2>2. PICK task, dst : Sends(g, kind, task, {}, dst)
    BY <2>1
  <2>3. /\ pc'[g] = "sent" /\ call'[g].dst = "sent" /\ gesture'[g].kind = kind
        /\ \A h \in Gestures : h # g => /\ pc'[h] = pc[h] /\ gesture'[h] = gesture[h]
                                        /\ call'[h] = call[h]
    BY <2>2, SendsParts
  <2>4. \A h \in Gestures : h # g => kept'[h] = kept[h]
    BY <1>3, SubmitsKept DEF TypeInv, KeptFits
  <2>5. QED
    BY <2>3, <2>4 DEF KeptInv
<1>4. ASSUME NEW g \in Gestures, Opens(g) PROVE KeptInv'
  <2>1. /\ pc' = [pc EXCEPT ![g] = "open"] /\ pc[g] = "idle"
        /\ UNCHANGED << call, kept >>
        /\ \E what : gesture' = [gesture EXCEPT ![g] = what]
    BY <1>4 DEF Opens, MayAct, Goes, calls
  <2>2. QED
    BY <2>1 DEF KeptInv, TypeInv, GesturesType
<1>5. ASSUME NEW g \in Gestures, NEW way \in {"src", "dst"},
             Ends(g, way) \/ StoresUnanswered(g, way)
      PROVE  KeptInv'
  <2>1. PICK state \in {"ok", "again", "failed"} :
           call' = [call EXCEPT ![g][way] = state] /\ UNCHANGED << pc, gesture, kept >>
    BY <1>5 DEF Ends, Answers, Refuses, StoresUnanswered, Call
  <2>2. \A h \in Gestures : call'[h].dst # "none" \/ call'[h].dst = call[h].dst
    BY <2>1 DEF TypeInv, CallsType
  <2>3. QED
    BY <2>1, <2>2 DEF KeptInv
<1>6. ASSUME NEW g \in Gestures, EditAnswered(g) PROVE KeptInv'
  <2>1. /\ kept' = [kept EXCEPT ![g] = Nothing] /\ Taken(g)
        /\ \E label \in {"loading", "done"} : Goes(g, label)
    BY <1>6 DEF EditAnswered, Reloads
  <2>2. \A h \in Gestures : h # g => /\ call'[h] = call[h] /\ kept'[h] = kept[h]
                                     /\ pc'[h] = pc[h] /\ gesture'[h] = gesture[h]
    BY <2>1 DEF Taken, Goes, TypeInv, CallsType, KeptFits, GesturesType
  <2>3. pc'[g] # "sent" /\ kept'[g] = Nothing
    BY <2>1 DEF Goes, TypeInv, GesturesType, KeptFits
  <2>4. QED
    BY <2>2, <2>3 DEF KeptInv
<1>7. ASSUME NEW g \in Gestures, DragAnswered(g) PROVE KeptInv'
  <2>1. /\ kept' = kept /\ Taken(g) /\ pc[g] = "sent" /\ gesture[g].kind = "drag"
        /\ \E label \in {"loading", "done"} : Goes(g, label)
    BY <1>7 DEF DragAnswered, Reloads
  <2>2. \A h \in Gestures : h # g => /\ call'[h] = call[h] /\ kept'[h] = kept[h]
                                     /\ pc'[h] = pc[h] /\ gesture'[h] = gesture[h]
    BY <2>1 DEF Taken, Goes, TypeInv, CallsType, GesturesType
  <2>3. pc'[g] # "sent"
    BY <2>1 DEF Goes, TypeInv, GesturesType
  <2>4. QED
    BY <2>1, <2>2, <2>3 DEF KeptInv
<1>8. ASSUME NEW g \in Gestures, LoadReads(g) \/ LoadShows(g) \/ LoadFails(g)
      PROVE  KeptInv'
  <2>1. /\ UNCHANGED << call, gesture, kept >> /\ pc[g] \in {"loading", "loaded"}
        /\ \E label \in {"loaded", "done"} : Goes(g, label)
    BY <1>8 DEF LoadReads, LoadShows, LoadFails, Loading, calls
  <2>2. QED
    BY <2>1 DEF KeptInv, Goes, TypeInv, GesturesType
<1>9. QED
  BY <1>1, <1>2, <1>3, <1>4, <1>5, <1>6, <1>7, <1>8 DEF Next, UserActs, Handles

-----------------------------------------------------------------------------
\* In a board that aims, a drag takes the task that is dragged, if that has an
\* ID, sends it, and leaves a board that aims.
LEMMA DragAims ==
    ASSUME TypeInv, Room + 1 <= MaxOrder, Aimed(shown),
           NEW g \in Gestures, NEW s \in Cols, NEW d \in Cols,
           NEW dragged \in Range(Tasks(s)),
           NEW n \in 1 .. Len(Onto(s, d, At(dragged))) + 1,
           Moves(g, s, d, dragged, n),
           NEW dst, dst = Range(Numbered(InPlace(s, d, At(dragged), n, d), d))
    PROVE  /\ Aimed(shown')
           /\ dragged.ID \in TaskIDs => \E e \in dst : e.ID = dragged.ID
<1> DEFINE at == At(dragged)
           onto == Onto(s, d, at)
           item == Dragged(s, at)
           placed == InPlace(s, d, at, n, d)
<1>1. /\ Tasks(s) \in Seq(Entry) /\ Len(Tasks(s)) \in Nat
      /\ DOMAIN Tasks(s) = 1 .. Len(Tasks(s)) /\ Aims(Tasks(s))
      /\ dragged \in Entry
  BY ShownTasks DEF Aimed, Tasks
<1>2. /\ dragged.ID \in TaskIDs => item.ID = dragged.ID
      /\ item \in Entry /\ at \in Nat \ {0}
  <2>1. PICK k \in 1 .. Len(Tasks(s)) : Tasks(s)[k] = dragged
    BY <1>1 DEF Range
  <2>2. dragged.Order \in Nat
    BY <1>1, Finite DEF Entry
  <2>3. at \in Nat \ {0}
    BY <2>2 DEF At
  <2>4. dragged.ID \in TaskIDs => at <= Len(Tasks(s)) /\ Tasks(s)[at].ID = dragged.ID
    BY <1>1, <2>1 DEF Aims, At
  <2>5. Undefined \in Entry
    BY Finite, BoardClientAssumption DEF Undefined, Entry
  <2> HIDE DEF at
  <2>6. at <= Len(Tasks(s)) => Tasks(s)[at] \in Entry
    BY <1>1, <2>3, ElementOfSeq
  <2>7. QED
    BY <2>3, <2>4, <2>5, <2>6 DEF Dragged
<1>3. /\ onto \in Seq(Entry) /\ Len(onto) \in Nat /\ n \in 1 .. Len(onto) + 1
      /\ placed = InsertAt(onto, n, item)
  <2>1. Popped(Tasks(s), at) \in Seq(Entry)
    BY <1>1, <1>2, PoppedPlaces
  <2>2. onto \in Seq(Entry)
    BY <2>1, ShownTasks DEF Onto
  <2>3. QED
    BY <2>2, LenProperties DEF InPlace
<1>4. /\ placed \in Seq(Entry) /\ Len(placed) = Len(onto) + 1 /\ placed[n] = item
  <2> HIDE DEF onto, item, placed
  <2>1. QED
    BY <1>2, <1>3, InsertedPlaces
<1>5. ASSUME NEW c \in {s, d}
      PROVE  LET column == InPlace(s, d, at, n, c)
             IN  /\ column \in Seq(Entry) /\ Len(column) <= MaxOrder + 1
                 /\ c \in Cols /\ shown'[c].tasks = Numbered(column, c)
  <2> DEFINE column == InPlace(s, d, at, n, c)
  <2>1. column \in Seq(Entry) /\ Len(column) <= Room + 1
    BY DragPlaces
  <2>2. shown'[c].tasks = Numbered(column, c)
    BY DEF Moves, Column
  <2> HIDE DEF column
  <2>3. Len(column) \in Nat /\ Room \in Nat /\ MaxOrder \in Nat
    BY <2>1, LenProperties, RoomType, Finite
  <2>4. QED
    BY <2>1, <2>2, <2>3 DEF column
<1>6. ASSUME dragged.ID \in TaskIDs PROVE \E e \in dst : e.ID = dragged.ID
  <2>1. placed \in Seq(Entry) /\ Len(placed) <= MaxOrder + 1 /\ n \in 1 .. Len(placed)
        /\ dst = Range(Numbered(placed, d))
    BY <1>3, <1>4, <1>5
  <2> HIDE DEF placed, item
  <2>2. Numbered(placed, d) \in Seq(Entry) /\ Len(Numbered(placed, d)) = Len(placed)
        /\ Numbered(placed, d)[n] = [ID |-> placed[n].ID, ColNo |-> d, Order |-> n - 1,
                                     Content |-> placed[n].Content]
    BY <2>1, NumberedPlaces
  <2>3. DOMAIN Numbered(placed, d) = 1 .. Len(placed)
    BY <2>2, LenProperties
  <2>4. Numbered(placed, d)[n].ID = dragged.ID
    BY <1>2, <1>4, <1>6, <2>2
  <2>5. QED
    BY <2>1, <2>3, <2>4 DEF Range
<1>7. ASSUME NEW c \in Cols PROVE Aims(shown'[c].tasks)
  <2>1. CASE c \in {s, d}
    <3> DEFINE column == InPlace(s, d, at, n, c)
    <3>1. column \in Seq(Entry) /\ Len(column) <= MaxOrder + 1
          /\ shown'[c].tasks = Numbered(column, c)
      BY <1>5, <2>1
    <3> HIDE DEF column
    <3>2. Numbered(column, c) \in Seq(Entry) /\ Straight(Numbered(column, c))
      <4>1. /\ Numbered(column, c) \in Seq(Entry) /\ Len(Numbered(column, c)) = Len(column)
            /\ \A i \in 1 .. Len(column) : Numbered(column, c)[i] =
                  [ID |-> column[i].ID, ColNo |-> c, Order |-> i - 1,
                   Content |-> column[i].Content]
        BY <3>1, NumberedPlaces
      <4>2. DOMAIN Numbered(column, c) = 1 .. Len(column)
        BY <4>1, LenProperties
      <4>3. ASSUME NEW i \in 1 .. Len(column) PROVE Numbered(column, c)[i].Order = i - 1
        <5>1. Numbered(column, c)[i] = [ID |-> column[i].ID, ColNo |-> c, Order |-> i - 1,
                                        Content |-> column[i].Content]
          BY <4>1
        <5>2. QED
          BY <5>1
      <4>4. QED
        BY <4>1, <4>2, <4>3 DEF Straight
    <3>3. QED
      BY <3>1, <3>2, StraightAims
  <2>2. CASE c \notin {s, d}
    BY <2>2 DEF Moves, Aimed
  <2>3. QED
    BY <2>1, <2>2
<1>8. QED
  BY <1>6, <1>7 DEF Aimed

\* A drag leaves a board that aims, and sends the task that is dragged, if
\* that has an ID.
LEMMA DragAimsAgain ==
    ASSUME TypeInv, NEW g \in Gestures, Drag(g), Aimed(shown),
           \A h \in Gestures : DragAimed(h)
    PROVE  Aimed(shown') /\ \A h \in Gestures : DragAimed(h)'
<1>1. MayAct(g)
  BY DragParts
<1>2. PICK s \in Cols, d \in Cols : \E dragged \in Range(Tasks(s)) :
         \E n \in 1 .. Len(Onto(s, d, At(dragged))) + 1 : Moves(g, s, d, dragged, n)
  BY DragParts
<1>3. PICK dragged \in Range(Tasks(s)) :
         \E n \in 1 .. Len(Onto(s, d, At(dragged))) + 1 : Moves(g, s, d, dragged, n)
  BY <1>2
<1>4. PICK n \in 1 .. Len(Onto(s, d, At(dragged))) + 1 : Moves(g, s, d, dragged, n)
  BY <1>3
<1> DEFINE dst == Range(Numbered(InPlace(s, d, At(dragged), n, d), d))
<1>5. \E src : Sends(g, "drag", dragged, src, dst)
  BY <1>4 DEF Moves
<1>6. Room + 1 <= MaxOrder
  <2>1. pc[g] \in {"idle", "open"} /\ GesturesType /\ Goes(g, "sent")
    BY <1>1, <1>5 DEF MayAct, Sends, TypeInv
  <2>2. QED
    BY <2>1, RoomGrows
<1>7. /\ Aimed(shown')
      /\ dragged.ID \in TaskIDs => \E e \in dst : e.ID = dragged.ID
  <2>1. dst = Range(Numbered(InPlace(s, d, At(dragged), n, d), d))
    OBVIOUS
  <2> HIDE DEF dst
  <2>2. QED
    BY <1>1, <1>4, <1>6, <2>1, DragAims
<1> HIDE DEF dst
<1>8. /\ gesture'[g].task = dragged /\ body'[g].dst = dst
      /\ \A h \in Gestures : h # g => gesture'[h] = gesture[h] /\ body'[h] = body[h]
  <2>1. PICK src : Sends(g, "drag", dragged, src, dst)
    BY <1>5
  <2>2. QED
    BY <1>1, <2>1, SendsParts
<1>9. \A h \in Gestures : DragAimed(h)'
  BY <1>1, <1>7, <1>8 DEF DragAimed
<1>10. QED
  BY <1>7, <1>9

\* A drag keeps AimInv: what is kept while the user waits is kept by no
\* other gesture.
LEMMA DragKeepsAim ==
    ASSUME DragInv, NEW g \in Gestures, Drag(g)
    PROVE  AimInv'
<1> SUFFICES ASSUME mishaps' \subseteq {"overlap", "no load", "no cookie"}
             PROVE  /\ Aimed(shown')
                    /\ "overlap" \notin mishaps' =>
                          \A h \in Gestures : kept'[h] # Nothing => Aimed(kept'[h])
                    /\ \A h \in Gestures : DragAimed(h)'
  BY DEF AimInv, Aimed
<1>1. /\ TypeInv /\ KeptInv /\ Notes(Overlap) /\ mishaps \subseteq mishaps'
      /\ Aimed(shown) /\ \A h \in Gestures : DragAimed(h)
  BY DragParts DEF DragInv, QuietInv, Notes, AimInv
<1>2. Aimed(shown') /\ \A h \in Gestures : DragAimed(h)'
  BY <1>1, DragAimsAgain
<1>3. ASSUME "overlap" \notin mishaps', NEW h \in Gestures PROVE kept'[h] = Nothing
  <2>1. Quiet
    BY <1>1, <1>3 DEF Notes, Overlap, When
  <2>2. pc[h] # "sent"
    BY <2>1 DEF Quiet, Busy
  <2>3. kept[h] = Nothing
    BY <1>1, <2>2 DEF KeptInv
  <2>4. QED
    BY <2>3, DragKeepsNothing
<1>4. QED
  BY <1>2, <1>3

\* A function from 1 to n is a sequence as long.
LEMMA FunctionSeq ==
    ASSUME NEW n \in Nat, NEW S, NEW s \in [1 .. n -> S]
    PROVE  s \in Seq(S) /\ Len(s) = n /\ DOMAIN s = 1 .. n
BY IsASeq, LenProperties

\* What Append does with the places of a column.
LEMMA AppendedPlaces ==
    ASSUME NEW tasks \in Seq(Entry), NEW e
    PROVE  LET new == Append(tasks, e)
           IN  /\ Len(new) = Len(tasks) + 1 /\ new[Len(tasks) + 1] = e
               /\ \A i \in 1 .. Len(tasks) : new[i] = tasks[i]
               /\ DOMAIN new = 1 .. Len(tasks) + 1
<1> DEFINE S == Entry \cup {e}
           new == Append(tasks, e)
<1>1. Len(tasks) \in Nat /\ tasks \in [1 .. Len(tasks) -> S]
  BY LenProperties
<1>2. e \in S
  OBVIOUS
<1> HIDE DEF S
<1>3. tasks \in Seq(S)
  BY <1>1, FunctionSeq
<1>4. /\ new \in Seq(S) /\ Len(new) = Len(tasks) + 1 /\ new[Len(tasks) + 1] = e
      /\ \A i \in 1 .. Len(tasks) : new[i] = tasks[i]
  BY <1>2, <1>3, AppendProperties
<1> HIDE DEF new
<1>5. DOMAIN new = 1 .. Len(new)
  BY <1>4, LenProperties
<1>6. QED
  BY <1>4, <1>5 DEF new

\* To change what tasks contain leaves the orders.
LEMMA SameAims ==
    ASSUME NEW old \in Seq(Entry), Aims(old), NEW new,
           DOMAIN new = 1 .. Len(old), Len(new) = Len(old),
           \A i \in 1 .. Len(old) : new[i].ID = old[i].ID /\ new[i].Order = old[i].Order
    PROVE  Aims(new)
<1>1. Len(old) \in Nat /\ DOMAIN old = 1 .. Len(old)
  BY LenProperties
<1>2. SUFFICES ASSUME NEW i \in 1 .. Len(old)
               PROVE  LET at == new[i].Order + 1
                      IN  new[i].ID \in TaskIDs =>
                              at <= Len(new) /\ new[at].ID = new[i].ID
  BY DEF Aims
<1> DEFINE at == old[i].Order + 1
<1>3. at \in Nat \ {0}
  <2>1. old[i].Order \in 0 .. MaxOrder
    BY ElementOfSeq DEF Entry
  <2>2. QED
    BY <2>1, Finite
<1>4. old[i].ID \in TaskIDs => at <= Len(old) /\ old[at].ID = old[i].ID
  BY <1>1 DEF Aims
<1>5. new[i].Order + 1 = at
  OBVIOUS
<1> HIDE DEF at
<1>6. at <= Len(old) => new[at].ID = old[at].ID
  BY <1>1, <1>3
<1>7. QED
  BY <1>4, <1>5, <1>6

\* A task without an ID, at the end of a column, leaves the others in place.
LEMMA AppendedAims ==
    ASSUME NEW old \in Seq(Entry), Aims(old), NEW e, e.ID \notin TaskIDs
    PROVE  Aims(Append(old, e))
<1> DEFINE new == Append(old, e)
<1>1. Len(old) \in Nat /\ DOMAIN old = 1 .. Len(old)
  BY LenProperties
<1>2. /\ Len(new) = Len(old) + 1 /\ new[Len(old) + 1] = e
      /\ \A i \in 1 .. Len(old) : new[i] = old[i]
      /\ DOMAIN new = 1 .. Len(old) + 1
  BY AppendedPlaces
<1> HIDE DEF new
<1>3. ASSUME NEW i \in 1 .. Len(old) + 1
      PROVE  LET at == new[i].Order + 1
             IN  new[i].ID \in TaskIDs => at <= Len(new) /\ new[at].ID = new[i].ID
  <2>1. CASE i = Len(old) + 1
    BY <1>2, <2>1
  <2>2. CASE i # Len(old) + 1
    <3> DEFINE at == old[i].Order + 1
    <3>1. i \in 1 .. Len(old) /\ new[i] = old[i] /\ old[i] \in Entry
      BY <1>1, <1>2, <2>2, ElementOfSeq
    <3>2. at \in Nat \ {0}
      <4>1. old[i].Order \in 0 .. MaxOrder
        BY <3>1 DEF Entry
      <4>2. QED
        BY <4>1, Finite
    <3>3. old[i].ID \in TaskIDs => at <= Len(old) /\ old[at].ID = old[i].ID
      BY <1>1, <3>1 DEF Aims
    <3> HIDE DEF at
    <3>4. at <= Len(old) => new[at] = old[at]
      BY <1>1, <1>2, <3>2
    <3>5. new[i].ID \in TaskIDs => at <= Len(new) /\ new[at].ID = new[i].ID
      BY <1>1, <1>2, <3>1, <3>2, <3>3, <3>4
    <3>6. QED
      BY <3>1, <3>5 DEF at
  <2>3. QED
    BY <2>1, <2>2
<1>4. QED
  BY <1>2, <1>3 DEF Aims, new

\* So do the edits: a new task is shown last and has no ID, and a subtask
\* that is checked leaves the orders.
LEMMA EditsKeepAim ==
    ASSUME DragInv, NEW g \in Gestures,
           Toggle(g) \/ Opens(g) \/ SubmitsCreate(g) \/ SubmitsEdit(g) \/ SubmitsDelete(g)
    PROVE  AimInv'
<1> SUFFICES ASSUME mishaps' \subseteq {"overlap", "no load", "no cookie"}
             PROVE  /\ Aimed(shown')
                    /\ "overlap" \notin mishaps' =>
                          \A h \in Gestures : kept'[h] # Nothing => Aimed(kept'[h])
                    /\ \A h \in Gestures : DragAimed(h)'
  BY DEF AimInv, Aimed
<1>1. ~SubmitsEdit(g) /\ ~SubmitsDelete(g)
  <2>1. SUFFICES ASSUME SubmitsEdit(g) \/ SubmitsDelete(g) PROVE FALSE
    OBVIOUS
  <2>2. mishaps' = mishaps \cup {"numbering"}
    BY <2>1 DEF SubmitsEdit, SubmitsDelete, Notes
  <2>3. QED
    BY <2>2
<1>2. /\ TypeInv /\ KeptInv /\ mishaps \subseteq mishaps' /\ Aimed(shown)
      /\ \A h \in Gestures : DragAimed(h)
      /\ "overlap" \notin mishaps' =>
            \A h \in Gestures : kept[h] # Nothing => Aimed(kept[h])
  <2>1. mishaps \subseteq mishaps'
    BY <1>1 DEF Toggle, Opens, SubmitsCreate, Notes
  <2>2. QED
    BY <2>1 DEF DragInv, QuietInv, AimInv
<1>3. CASE Opens(g)
  <2>1. UNCHANGED << shown, body, kept >>
    BY <1>3 DEF Opens, calls
  <2>2. /\ gesture'[g].kind # "drag"
        /\ \A h \in Gestures : h # g => gesture'[h] = gesture[h]
    <3>1. CASE gesture' = [gesture EXCEPT ![g].kind = "create"]
      BY <1>2, <3>1 DEF TypeInv, GesturesType
    <3>2. ASSUME NEW kind \in {"edit", "delete"}, NEW task,
                 gesture' = [gesture EXCEPT ![g] = [kind |-> kind, task |-> task]]
          PROVE  /\ gesture'[g].kind # "drag"
                 /\ \A h \in Gestures : h # g => gesture'[h] = gesture[h]
      BY <1>2, <3>2 DEF TypeInv, GesturesType
    <3>3. QED
      BY <1>3, <3>1, <3>2 DEF Opens
  <2>3. \A h \in Gestures : DragAimed(h)'
    BY <1>2, <2>1, <2>2 DEF DragAimed
  <2>4. QED
    BY <1>2, <2>1, <2>3
<1>4. ASSUME Toggle(g) \/ SubmitsCreate(g), Aimed(shown')
      PROVE  /\ "overlap" \notin mishaps' =>
                          \A h \in Gestures : kept'[h] # Nothing => Aimed(kept'[h])
             /\ \A h \in Gestures : DragAimed(h)'
  <2>1. /\ kept' = [kept EXCEPT ![g] = shown]
        /\ \E kind \in {"toggle", "create", "edit", "delete"} : \E task, dst :
                 Sends(g, kind, task, {}, dst)
    BY <1>4, SubmitsKept
  <2>2. PICK kind \in {"toggle", "create", "edit", "delete"} :
           \E task, dst : Sends(g, kind, task, {}, dst)
    BY <2>1
  <2>3. PICK task, dst : Sends(g, kind, task, {}, dst)
    BY <2>2
  <2>4. /\ gesture'[g].kind = kind
        /\ \A h \in Gestures : h # g => gesture'[h] = gesture[h] /\ body'[h] = body[h]
    BY <1>2, <2>3, SendsParts
  <2>5. \A h \in Gestures : DragAimed(h)'
    BY <1>2, <2>4 DEF DragAimed
  <2>6. \A h \in Gestures : kept'[h] = IF h = g THEN shown ELSE kept[h]
    BY <1>2, <2>1 DEF TypeInv, KeptFits
  <2>7. QED
    BY <1>2, <2>5, <2>6
<1>5. CASE Toggle(g)
  <2>1. PICK c \in Cols : \E task \in Range(Tasks(c)), content \in Contents :
           LET tasks == Tasks(task.ColNo)
           IN  Optimistically(g, task.ColNo,
                   [i \in DOMAIN tasks |-> IF i \in WithID(task.ID, tasks)
                        THEN [tasks[i] EXCEPT !.Content = content] ELSE tasks[i]])
    BY <1>5 DEF Toggle
  <2>2. PICK task \in Range(Tasks(c)), content \in Contents :
           LET tasks == Tasks(task.ColNo)
           IN  Optimistically(g, task.ColNo,
                   [i \in DOMAIN tasks |-> IF i \in WithID(task.ID, tasks)
                        THEN [tasks[i] EXCEPT !.Content = content] ELSE tasks[i]])
    BY <2>1
  <2> DEFINE k == task.ColNo
             old == Tasks(k)
             new == [i \in DOMAIN old |-> IF i \in WithID(task.ID, old)
                        THEN [old[i] EXCEPT !.Content = content] ELSE old[i]]
  <2>3. k \in Cols /\ shown' = [shown EXCEPT ![k] = Column(<< g, "edit" >>, new)]
    BY <1>2, <2>2, ShownTasks DEF Optimistically, Entry
  <2>4. old \in Seq(Entry) /\ Len(old) \in Nat /\ DOMAIN old = 1 .. Len(old)
    BY <1>2, <2>3, ShownTasks
  <2>5. Aims(old)
    BY <1>2, <2>3 DEF Aimed, Tasks
  <2> HIDE DEF old, k
  <2>6. DOMAIN new = 1 .. Len(old) /\ Len(new) = Len(old)
        /\ \A i \in 1 .. Len(old) : new[i].ID = old[i].ID /\ new[i].Order = old[i].Order
    <3>1. ASSUME NEW e \in Entry PROVE [e EXCEPT !.Content = content] \in Entry
                                     /\ [e EXCEPT !.Content = content].ID = e.ID
                                     /\ [e EXCEPT !.Content = content].Order = e.Order
      BY BoardClientAssumption DEF Entry
    <3>2. \A i \in 1 .. Len(old) : old[i] \in Entry
      BY <2>4, ElementOfSeq
    <3>3. new \in [1 .. Len(old) -> Entry]
          /\ \A i \in 1 .. Len(old) : new[i].ID = old[i].ID /\ new[i].Order = old[i].Order
      BY <2>4, <3>1, <3>2
    <3>4. new \in [1 .. Len(old) -> Entry]
      BY <3>3
    <3> HIDE DEF new
    <3>5. Len(new) = Len(old) /\ DOMAIN new = 1 .. Len(old)
      BY <2>4, <3>4, FunctionSeq
    <3>6. QED
      BY <3>3, <3>5
  <2> HIDE DEF new
  <2>7. Aims(new)
    BY <2>4, <2>5, <2>6, SameAims
  <2>8. Aimed(shown')
    BY <1>2, <2>3, <2>7 DEF Aimed, Column, TypeInv, BoardFits
  <2>9. QED
    BY <1>4, <1>5, <2>8
<1>6. CASE SubmitsCreate(g)
  <2>1. PICK content \in Contents :
           LET new(order) == [ID |-> NoID, ColNo |-> 0, Order |-> order,
                              Content |-> content]
               length == Len(Tasks(0))
           IN  Optimistically(g, 0, Append(Tasks(0), new(length + 1)))
    BY <1>6 DEF SubmitsCreate
  <2> DEFINE old == Tasks(0)
             e == [ID |-> NoID, ColNo |-> 0, Order |-> Len(old) + 1, Content |-> content]
             new == Append(old, e)
  <2>2. 0 \in Cols /\ shown' = [shown EXCEPT ![0] = Column(<< g, "edit" >>, new)]
    BY <2>1, BoardClientAssumption DEF Optimistically
  <2>3. old \in Seq(Entry) /\ Len(old) \in Nat /\ DOMAIN old = 1 .. Len(old) /\ Aims(old)
    BY <1>2, <2>2, ShownTasks DEF Aimed, Tasks
  <2>4. e.ID \notin TaskIDs
    BY BoardClientAssumption
  <2> HIDE DEF old, e
  <2>5. Aims(new)
    BY <2>3, <2>4, AppendedAims
  <2> HIDE DEF new
  <2>6. Aimed(shown')
    BY <1>2, <2>2, <2>5 DEF Aimed, Column, TypeInv, BoardFits
  <2>7. QED
    BY <1>4, <1>6, <2>6
<1>7. QED
  BY <1>1, <1>3, <1>5, <1>6

-----------------------------------------------------------------------------
\* A step that changes nothing that aims.
LEMMA AimStays ==
    ASSUME AimInv, mishaps \subseteq mishaps', UNCHANGED << shown, kept, gesture, body >>
    PROVE  AimInv'
BY DEF AimInv, Aimed, DragAimed

\* When its answers are taken a gesture is over, or stays for one of its calls.
LEMMA TakenParts ==
    ASSUME TypeInv, NEW g \in Gestures, Taken(g)
    PROVE  /\ IF Pending(g, "src") THEN gesture'[g] = gesture[g] ELSE gesture'[g].kind = "none"
           /\ \A h \in Gestures : h # g => gesture'[h] = gesture[h] /\ body'[h] = body[h]
<1>1. CASE Pending(g, "src")
  <2>1. gesture' = gesture /\ body' = [body EXCEPT ![g].dst = {}]
    BY <1>1 DEF Taken
  <2>2. QED
    BY <1>1, <2>1 DEF TypeInv, CallsType
<1>2. CASE ~Pending(g, "src")
  <2>1. /\ gesture' = [gesture EXCEPT ![g] = NoGesture]
        /\ body' = [body EXCEPT ![g] = [src |-> {}, dst |-> {}]]
    BY <1>2 DEF Taken
  <2>2. NoGesture.kind = "none"
    BY DEF NoGesture
  <2>3. QED
    BY <1>2, <2>1, <2>2 DEF TypeInv, CallsType, GesturesType
<1>3. QED
  BY <1>1, <1>2

\* An edit that failed goes back to a board that aims, if the user waited.
LEMMA EditAnsweredKeepsAim ==
    ASSUME DragInv, NEW g \in Gestures, EditAnswered(g)
    PROVE  AimInv'
<1>1. /\ TypeInv /\ pc[g] = "sent" /\ gesture[g].kind # "drag"
      /\ kept' = [kept EXCEPT ![g] = Nothing] /\ Taken(g) /\ mishaps \subseteq mishaps'
      /\ \/ shown' = shown
         \/ shown' = kept[g] /\ Notes(When("overlap" \in mishaps, "late rollback"))
  BY DEF DragInv, QuietInv, EditAnswered, Notes, Reloads
<1>2. SUFFICES ASSUME mishaps' \subseteq {"overlap", "no load", "no cookie"}
               PROVE  /\ Aimed(shown')
                      /\ "overlap" \notin mishaps' =>
                            \A h \in Gestures : kept'[h] # Nothing => Aimed(kept'[h])
                      /\ \A h \in Gestures : DragAimed(h)'
  BY DEF AimInv, Aimed
<1>3. /\ Aimed(shown) /\ \A h \in Gestures : DragAimed(h)
      /\ "overlap" \notin mishaps => \A h \in Gestures : kept[h] # Nothing => Aimed(kept[h])
  BY <1>1, <1>2 DEF DragInv, AimInv
<1>4. Aimed(shown')
  <2>1. CASE shown' = shown
    BY <1>3, <2>1
  <2>2. CASE shown' = kept[g] /\ Notes(When("overlap" \in mishaps, "late rollback"))
    <3>1. "overlap" \notin mishaps
      BY <1>2, <2>2 DEF Notes, When
    <3>2. kept[g] # Nothing
      BY <1>1 DEF TypeInv, Prepared
    <3>3. QED
      BY <1>3, <2>2, <3>1, <3>2
  <2>3. QED
    BY <1>1, <2>1, <2>2
<1>5. \A h \in Gestures : kept'[h] = IF h = g THEN Nothing ELSE kept[h]
  BY <1>1 DEF TypeInv, KeptFits
<1>6. /\ gesture'[g].kind # "drag"
      /\ \A h \in Gestures : h # g => gesture'[h] = gesture[h] /\ body'[h] = body[h]
  BY <1>1, TakenParts
<1>7. \A h \in Gestures : DragAimed(h)'
  BY <1>3, <1>6 DEF DragAimed
<1>8. QED
  BY <1>1, <1>3, <1>4, <1>5, <1>7

\* A drag that is answered is over, unless one half failed while the other
\* was under way.
LEMMA DragAnsweredKeepsAim ==
    ASSUME DragInv, NEW g \in Gestures, DragAnswered(g)
    PROVE  AimInv'
<1>1. /\ TypeInv /\ pc[g] = "sent" /\ Taken(g) /\ mishaps \subseteq mishaps'
      /\ Awaited(g) /\ UNCHANGED << shown, kept >>
      /\ When(call[g].dst = "failed" /\ Pending(g, "src"), "split drag") \subseteq mishaps'
  BY DEF DragInv, QuietInv, DragAnswered, Notes, Reloads
<1>2. SUFFICES ASSUME mishaps' \subseteq {"overlap", "no load", "no cookie"}
               PROVE  \A h \in Gestures : DragAimed(h)'
  BY <1>1 DEF DragInv, AimInv, Aimed
<1>3. \A h \in Gestures : DragAimed(h)
  BY <1>1, <1>2 DEF DragInv, AimInv
<1>4. ~Pending(g, "src")
  <2>1. call[g].dst \in {"ok", "failed"}
    BY <1>1, CallTypes DEF Awaited, Pending, CallStates, DragInv, KeptInv
  <2>2. ~ (call[g].dst = "failed" /\ Pending(g, "src"))
    BY <1>1, <1>2 DEF When
  <2>3. QED
    BY <1>1, <2>1, <2>2 DEF Awaited
<1>5. /\ gesture'[g].kind = "none"
      /\ \A h \in Gestures : h # g => gesture'[h] = gesture[h] /\ body'[h] = body[h]
  BY <1>1, <1>4, TakenParts
<1>6. QED
  BY <1>3, <1>5 DEF DragAimed

\* A load that is not late shows a board without gaps, which aims.
LEMMA LoadsKeepAim ==
    ASSUME DragInv, NEW g \in Gestures, LoadReads(g) \/ LoadShows(g) \/ LoadFails(g)
    PROVE  AimInv'
<1>1. CASE LoadReads(g) \/ LoadFails(g)
  BY <1>1, AimStays DEF DragInv, LoadReads, LoadFails, Notes, calls
<1>2. CASE LoadShows(g)
  <2>1. /\ UNCHANGED << gesture, body, kept >> /\ mishaps \subseteq mishaps'
        /\ When(mishaps \cap {"overlap", "no load", "no cookie"} # {}, "late load")
              \subseteq mishaps'
        /\ pc[g] = "loaded" /\ Busy(g)
    BY <1>2 DEF LoadShows, calls, Notes, Busy
  <2>2. SUFFICES ASSUME mishaps' \subseteq {"overlap", "no load", "no cookie"}
                 PROVE  Aimed(shown')
    BY <2>1 DEF DragInv, AimInv, Aimed, DragAimed
  <2>3. mishaps = {}
    <3>1. mishaps \cap {"overlap", "no load", "no cookie"} = {}
      BY <2>1, <2>2 DEF When
    <3>2. QED
      BY <2>1, <2>2, <3>1
  <2>4. got[g] = table /\ Dense(table) /\ table \in Board
    BY <2>1, <2>3, DenseBefore DEF Waits, DenseFor, DragGoes
  <2>5. PICK f \in Layouts(table) : shown' = [c \in Cols |-> Column(<< g, "load" >>, f[c])]
    BY <1>2, <2>4 DEF LoadShows
  <2>6. ASSUME NEW c \in Cols PROVE Aims(shown'[c].tasks)
    <3>1. Aims(f[c])
      BY <2>4, DenseStraight, StraightAims
    <3>2. shown'[c].tasks = f[c]
      BY <2>5 DEF Column
    <3>3. QED
      BY <3>1, <3>2
  <2>7. QED
    BY <2>6 DEF Aimed
<1>3. QED
  BY <1>1, <1>2

\* A board that was loaded aims.
LEMMA InitDrags == Init => DragInv
<1> SUFFICES ASSUME Init PROVE DragInv
  OBVIOUS
<1>1. QuietInv
  BY InitQuiet
<1>2. KeptInv
  BY DEF Init, KeptInv
<1>3. table \in Board /\ Dense(table)
  BY <1>1 DEF Init, QuietInv, TypeInv, StoreType, Dense
<1>4. Aimed(shown)
  <2>1. PICK f \in Layouts(table) : shown = [c \in Cols |-> Column(Nothing, f[c])]
    BY DEF Init
  <2>2. ASSUME NEW c \in Cols PROVE Aims(shown[c].tasks)
    <3>1. Aims(f[c])
      BY <1>3, DenseStraight, StraightAims
    <3>2. shown[c].tasks = f[c]
      BY <2>1 DEF Column
    <3>3. QED
      BY <3>1, <3>2
  <2>3. QED
    BY <2>2 DEF Aimed
<1>5. \A g \in Gestures : gesture[g].kind = "none" /\ kept[g] = Nothing /\ pc[g] = "idle"
  BY DEF Init, NoGesture
<1>6. AimInv
  BY <1>4, <1>5 DEF AimInv, DragAimed
<1>7. DenseInv
  BY <1>3, <1>5 DEF DenseInv, DenseFor, DragGoes
<1>8. QED
  BY <1>1, <1>2, <1>6, <1>7 DEF DragInv

\* Every step keeps what drags need.
LEMMA DragStep == DragInv /\ [Next]_vars => DragInv'
<1> SUFFICES ASSUME DragInv, [Next]_vars PROVE DragInv'
  OBVIOUS
<1>1. QuietInv' /\ KeptInv'
  BY QuietStep, KeptStep DEF DragInv, QuietInv
<1> USE DEF UserActs, Handles, Ends
<1>2. CASE CookieGoes \/ UNCHANGED vars
  <2>1. UNCHANGED << table, shown, pc, gesture, body, call, kept, got, mishaps >>
    BY <1>2 DEF CookieGoes, vars, calls, store
  <2>2. AimInv'
    BY <2>1, AimStays DEF DragInv
  <2>3. \A g \in Gestures : /\ Busy(g)' <=> Busy(g)
                            /\ DenseFor(g)' <=> DenseFor(g)
    BY <2>1 DEF Busy, Pending, DenseFor, DragGoes, DragSent, EditSent, Left, Shows,
       Dense, StoredIn, Tasks
  <2>4. Quiet' <=> Quiet
    BY <2>3 DEF Quiet
  <2>5. DenseInv'
    BY <2>1, <2>3, <2>4 DEF DragInv, DenseInv
  <2>6. QED
    BY <1>1, <2>2, <2>5 DEF DragInv
<1>3. ASSUME NEW g \in Gestures, UserActs(g) PROVE AimInv' /\ DenseInv'
  BY <1>3, DragKeepsAim, EditsKeepAim, DragDense, EditsDense
<1>4. ASSUME NEW g \in Gestures, Handles(g) PROVE AimInv' /\ DenseInv'
  BY <1>4, EditAnsweredKeepsAim, DragAnsweredKeepsAim, LoadsKeepAim, HandlesDense
<1>5. ASSUME NEW g \in Gestures, NEW way \in {"src", "dst"}, Ends(g, way)
      PROVE  AimInv' /\ DenseInv'
  <2>1. UNCHANGED << shown, kept, gesture, body >> /\ mishaps \subseteq mishaps'
    BY <1>5 DEF Answers, Refuses, Notes
  <2>2. AimInv'
    BY <2>1, AimStays DEF DragInv
  <2>3. DenseInv'
    BY <1>1, <1>5, AnswersDense, RefusesDense
  <2>4. QED
    BY <2>2, <2>3
<1>6. ASSUME NEW g \in Gestures, NEW way \in {"src", "dst"}, StoresUnanswered(g, way)
      PROVE  AimInv' /\ DenseInv'
  <2>1. "lost answer" \in mishaps'
    BY <1>6 DEF StoresUnanswered, Notes
  <2>2. QED
    BY <2>1 DEF AimInv, DenseInv
<1>7. QED
  BY <1>1, <1>2, <1>3, <1>4, <1>5, <1>6 DEF Next, DragInv

\* A drag of a task that has its ID from the service moves that task, also
\* while others are under way and tasks without an ID are shown, until
\* something has happened that breaks the numbering.
THEOREM DragsAreAimed == Spec => []DragMovesTheDragged
<1>1. DragInv => DragMovesTheDragged
  BY DEF DragInv, AimInv, DragAimed, DragMovesTheDragged
<1>2. QED
  BY <1>1, InitDrags, DragStep, PTL DEF Spec

=============================================================================
