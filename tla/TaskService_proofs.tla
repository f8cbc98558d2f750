------------------------- MODULE TaskService_proofs -------------------------
(***************************************************************************)
(* Proofs about TaskService, for any number of requests, tasks, boards and *)
(* teams, with eventually or strongly consistent reads.                    *)
(***************************************************************************)
EXTENDS TaskService, FiniteSetTheorems, TLAPS

Stageable == UNION {[ids -> Task \cup {NoItem}] : ids \in SUBSET TaskIDs}

\* Request q is left as it is.
Same(q) ==
    /\ pc'[q] = pc[q] /\ req'[q] = req[q] /\ staged'[q] = staged[q]
    /\ tries'[q] = tries[q] /\ shown'[q] = shown[q] /\ resp'[q] = resp[q]
    /\ written'[q] = written[q]

\* No version is forgotten.
Grows == \A k \in Keys : versions[k] \subseteq versions'[k]

LEMMA Claim ==
    ASSUME NEW r \in Requests, req[r] # NoReq, req[r].auth \in Auths
    PROVE  /\ req[r].auth.TeamID \in TeamIDs
           /\ \A id \in TaskIDs : Key(r, id) \in Keys
BY DEF Auths, Key, Keys

\* What a request has is typed.
LEMMA Typed ==
    ASSUME TypeOK, NEW r \in Requests
    PROVE  /\ req[r] \in Reqs \cup {NoReq}
           /\ staged[r] \in Stageable
           /\ DOMAIN staged[r] \subseteq TaskIDs
           /\ \A id \in DOMAIN staged[r] : staged[r][id] \in Task \cup {NoItem}
           /\ tries[r] \in 0 .. 3
           /\ shown[r] \subseteq Keys \X Task
           /\ resp[r] \in Statuses \cup {0}
           /\ written[r] \subseteq TaskIDs
BY DEF TypeOK, Stageable

\* A request that is left as it is keeps its part of the invariant.
LEMMA FrameRequest ==
    ASSUME NEW q \in Requests, TypeOK, Same(q), Grows, RequestOK(q)
    PROVE  RequestOK(q)'
<1>1. \A id : Key(q, id)' = Key(q, id)
  BY DEF Same, Key
<1>2. CASE req[q] = NoReq
  BY <1>2 DEF Same, RequestOK
<1>3. CASE req[q] # NoReq
  <2>1. req[q].auth \in Auths /\ req[q].auth.TeamID \in TeamIDs
    BY <1>3, Claim DEF RequestOK
  <2>2. \A id \in TaskIDs : versions[Key(q, id)] \subseteq versions'[Key(q, id)']
    BY <1>1, <1>3, <2>1, Claim DEF Grows
  <2>3. StagedOK(q)'
    BY <1>3 DEF Same, RequestOK, StagedOK
  <2>4. PostOK(q) => PostOK(q)'
    BY <2>2, Typed DEF Same, PostOK
  <2>5. EditOK(q) => EditOK(q)'
    BY <2>2, Typed DEF Same, EditOK
  <2>6. GetOK(q) => GetOK(q)'
    <3>1. \A s \in shown[q] : s[1] \in Keys
      BY Typed
    <3>2. ShowsOneBoard(q) => ShowsOneBoard(q)'
      BY <3>1 DEF Same, ShowsOneBoard, Grows
    <3>3. QED
      BY <3>2 DEF Same, GetOK
  <2>7. QED
    BY <1>3, <2>1, <2>3, <2>4, <2>5, <2>6 DEF Same, RequestOK
<1>4. QED
  BY <1>2, <1>3

\* What a step of request r has to establish for the whole invariant.
LEMMA StepOf ==
    ASSUME IInv, NEW r \in Requests, TypeOK', StoreInv', Grows,
           \A q \in Requests \ {r} : Same(q), RequestOK(r)'
    PROVE  IInv'
<1>1. ASSUME NEW q \in Requests
      PROVE  RequestOK(q)'
  <2>1. CASE q = r
    BY <2>1
  <2>2. CASE q # r
    BY <2>2, FrameRequest DEF IInv
  <2>3. QED
    BY <2>1, <2>2
<1>2. QED
  BY <1>1 DEF IInv

\* A step that leaves the table alone.
LEMMA StoreSame ==
    ASSUME IInv, UNCHANGED store
    PROVE  /\ table' \in [Keys -> Task \cup {NoItem}]
           /\ versions' \in [Keys -> SUBSET (Task \cup {NoItem})]
           /\ written' \in [Requests -> SUBSET TaskIDs]
           /\ StoreInv' /\ Grows
           /\ UNCHANGED << table, versions, written >>
BY DEF IInv, TypeOK, StoreInv, Grows, store

\* A request in its call has been let in, for a team.
LEMMA Running ==
    ASSUME IInv, NEW r \in Requests, pc[r] = "call"
    PROVE  /\ req[r] # NoReq /\ req[r] \in Reqs /\ req[r].auth \in Auths
           /\ req[r].auth.TeamID \in TeamIDs
           /\ \A id \in TaskIDs : Key(r, id) \in Keys
           /\ StagedOK(r)
           /\ req[r].op = "POST" => PostOK(r)
           /\ req[r].op = "GET" => GetOK(r)
           /\ req[r].op \notin {"POST", "GET"} => EditOK(r)
           /\ req[r].op \in {"POST", "PATCH", "DELETE", "PATCH tasks", "GET"}
<1>1. RequestOK(r) /\ req[r] # NoReq
  BY DEF IInv, RequestOK
<1>2. req[r] \in Reqs
  BY <1>1, Typed DEF IInv
<1>3. req[r].op \in {"POST", "PATCH", "DELETE", "PATCH tasks", "GET"}
  BY <1>2 DEF Reqs, PostReqs, PatchReqs, DeleteReqs, MultiReqs, GetReqs
<1>4. QED
  BY <1>1, <1>2, <1>3, Claim DEF RequestOK

-----------------------------------------------------------------------------
(***************************************************************************)
(* Arrivals.                                                               *)
(***************************************************************************)

LEMMA RejectedStep ==
    ASSUME IInv, NEW r \in Requests, NEW status \in Statuses,
           Rejected(r, status)
    PROVE  IInv'
<1>1. pc[r] = "idle" /\ req[r] = NoReq /\ resp[r] = 0
  BY DEF Rejected, IInv, RequestOK
<1>2. /\ pc' = [pc EXCEPT ![r] = "done"]
      /\ resp' = [resp EXCEPT ![r] = status]
      /\ UNCHANGED << req, staged, tries, shown >>
  BY <1>1 DEF Rejected, Answers, Goes, Sends, IInv, TypeOK
<1>3. /\ table' \in [Keys -> Task \cup {NoItem}]
      /\ versions' \in [Keys -> SUBSET (Task \cup {NoItem})]
      /\ written' \in [Requests -> SUBSET TaskIDs]
      /\ StoreInv' /\ Grows
      /\ UNCHANGED << table, versions, written >>
  BY StoreSame DEF Rejected
<1>4. TypeOK'
  BY <1>2, <1>3 DEF IInv, TypeOK
<1>5. \A q \in Requests \ {r} : Same(q)
  BY <1>2, <1>3 DEF IInv, TypeOK, Same
<1>6. pc'[r] = "done"
  BY <1>2 DEF IInv, TypeOK
<1>7. RequestOK(r)'
  BY <1>1, <1>2, <1>3, <1>6 DEF IInv, RequestOK
<1>8. QED
  BY <1>3, <1>4, <1>5, <1>7, StepOf

\* What is staged for a request, and sent to it, as it is let in.
WellStaged(request, items, refusal) ==
    \/ /\ request.op = "POST" /\ refusal = 0
       /\ ColNoOK(request.task) /\ Storable(request.task)
       /\ \E id \in TaskIDs : items = One(id, request.task)
    \/ request.op = "PATCH" /\ items = One(request.id, request.task)
    \/ request.op = "DELETE" /\ items = One(request.id, NoItem)
    \/ request.op = "PATCH tasks" /\ items = request.tasks
    \/ request.op = "GET" /\ items = << >> /\ refusal = 0

\* A request that is let in, with what its call will store.
LEMMA LetInStep ==
    ASSUME IInv, NEW r \in Requests, NEW request \in Reqs,
           NEW items \in Stageable, NEW refusal \in {0, 403},
           LetIn(r, request, items, refusal),
           request.auth \in Auths,
           WellStaged(request, items, refusal)
    PROVE  IInv'
<1>1. /\ pc[r] = "idle" /\ req[r] = NoReq /\ resp[r] = 0
      /\ written[r] = {} /\ tries[r] = 0
  BY DEF LetIn, IInv, RequestOK
<1>2. /\ pc' = [pc EXCEPT ![r] = "call"]
      /\ req' = [req EXCEPT ![r] = request]
      /\ staged' = [staged EXCEPT ![r] = items]
      /\ resp' = [resp EXCEPT ![r] = refusal]
      /\ UNCHANGED << tries, shown >>
  BY <1>1 DEF LetIn, Goes, Stages, Sends, IInv, TypeOK
<1>3. /\ table' \in [Keys -> Task \cup {NoItem}]
      /\ versions' \in [Keys -> SUBSET (Task \cup {NoItem})]
      /\ written' \in [Requests -> SUBSET TaskIDs]
      /\ StoreInv' /\ Grows
      /\ UNCHANGED << table, versions, written >>
  BY StoreSame DEF LetIn
<1>4. TypeOK'
  <2>1. staged' \in [Requests -> Stageable]
    BY <1>2 DEF IInv, TypeOK, Stageable
  <2>2. QED
    BY <1>2, <1>3, <2>1 DEF IInv, TypeOK, Stageable, Statuses
<1>5. \A q \in Requests \ {r} : Same(q)
  BY <1>2, <1>3 DEF IInv, TypeOK, Same
<1>6. /\ pc'[r] = "call" /\ req'[r] = request /\ staged'[r] = items
      /\ resp'[r] = refusal /\ written'[r] = {} /\ tries'[r] = 0
  BY <1>1, <1>2, <1>3 DEF IInv, TypeOK
<1>7. request # NoReq
  BY TaskServiceAssumption
<1>8. StagedOK(r)'
  BY <1>6 DEF StagedOK, WellStaged
<1>9. CASE request.op = "POST"
  <2>1. PICK id \in TaskIDs : items = One(id, request.task)
    BY <1>9 DEF WellStaged
  <2>2. written'[r] \cup DOMAIN staged'[r] = {id}
    BY <1>6, <2>1 DEF One
  <2>3. Cardinality({id}) = 1 /\ IsFiniteSet({})
    BY FS_Singleton, FS_EmptySet
  <2>4. PostOK(r)'
    BY <1>6, <1>9, <2>2, <2>3 DEF PostOK, WellStaged
  <2>5. QED
    BY <1>3, <1>4, <1>5, <1>6, <1>7, <1>8, <1>9, <2>4, StepOf DEF RequestOK
<1>10. CASE request.op = "GET"
  <2>1. GetOK(r)'
    BY <1>6, <1>10 DEF GetOK, WellStaged
  <2>2. QED
    BY <1>3, <1>4, <1>5, <1>6, <1>7, <1>8, <1>10, <2>1, StepOf DEF RequestOK
<1>11. CASE request.op \notin {"POST", "GET"}
  <2>1. EditOK(r)'
    BY <1>6 DEF EditOK
  <2>2. QED
    BY <1>3, <1>4, <1>5, <1>6, <1>7, <1>8, <1>11, <2>1, StepOf DEF RequestOK
<1>12. QED
  BY <1>9, <1>10, <1>11

\* What is staged for a task is typed.
LEMMA OneTyped ==
    ASSUME NEW id \in TaskIDs, NEW item \in Task \cup {NoItem}
    PROVE  /\ One(id, item) \in Stageable
           /\ DOMAIN One(id, item) = {id}
           /\ One(id, item)[id] = item
<1>1. One(id, item) \in [{id} -> Task \cup {NoItem}]
  BY DEF One
<1>2. QED
  BY <1>1 DEF One, Stageable

LEMMA PostArrivesStep ==
    ASSUME IInv, NEW r \in Requests, PostArrives(r)
    PROVE  IInv'
<1>1. PICK auth \in Claims, body \in Bodies :
         \/ auth = NoAuth /\ Rejected(r, 401)
         \/ auth # NoAuth /\ ~auth.IsAdmin /\ Rejected(r, 403)
         \/ auth.IsAdmin /\ body # "valid" /\ Rejected(r, BodyRejection(body))
         \/ /\ auth.IsAdmin /\ body = "valid"
            /\ \E request \in PostReqs, id \in TaskIDs :
                  /\ request.auth = auth
                  /\ IF PostAccepts(request.task)
                     THEN LetIn(r, request, One(id, request.task), 0)
                     ELSE Rejected(r, 400)
  BY DEF PostArrives
<1>2. CASE \E status \in Statuses : Rejected(r, status)
  BY <1>2, RejectedStep
<1>3. CASE /\ auth.IsAdmin
           /\ \E request \in PostReqs, id \in TaskIDs :
                 /\ request.auth = auth
                 /\ PostAccepts(request.task)
                 /\ LetIn(r, request, One(id, request.task), 0)
  <2>1. PICK request \in PostReqs, id \in TaskIDs :
           /\ request.auth = auth
           /\ PostAccepts(request.task)
           /\ LetIn(r, request, One(id, request.task), 0)
    BY <1>3
  <2>2. auth \in Auths
    BY <1>3 DEF Claims, NoAuth
  <2>3. request \in Reqs /\ request.op = "POST" /\ request.task \in Task
    BY DEF Reqs, PostReqs
  <2>4. One(id, request.task) \in Stageable
    BY <2>3, OneTyped
  <2>5. QED
    BY <2>1, <2>2, <2>3, <2>4, LetInStep DEF PostAccepts, WellStaged
<1>4. QED
  BY <1>1, <1>2, <1>3 DEF BodyRejection, Statuses

LEMMA PatchArrivesStep ==
    ASSUME IInv, NEW r \in Requests, PatchArrives(r)
    PROVE  IInv'
<1>1. PICK auth \in Claims, body \in Bodies :
         \/ auth = NoAuth /\ Rejected(r, 401)
         \/ auth # NoAuth /\ ~auth.IsAdmin /\ Rejected(r, 403)
         \/ auth.IsAdmin /\ body # "valid" /\ Rejected(r, BodyRejection(body))
         \/ /\ auth.IsAdmin /\ body = "valid"
            /\ \E request \in PatchReqs :
                  /\ request.auth = auth
                  /\ LetIn(r, request, One(request.id, request.task), 0)
  BY DEF PatchArrives
<1>2. CASE \E status \in Statuses : Rejected(r, status)
  BY <1>2, RejectedStep
<1>3. CASE /\ auth.IsAdmin
           /\ \E request \in PatchReqs :
                 /\ request.auth = auth
                 /\ LetIn(r, request, One(request.id, request.task), 0)
  <2>1. PICK request \in PatchReqs :
           /\ request.auth = auth
           /\ LetIn(r, request, One(request.id, request.task), 0)
    BY <1>3
  <2>2. auth \in Auths
    BY <1>3 DEF Claims, NoAuth
  <2>3. /\ request \in Reqs /\ request.op = "PATCH"
        /\ request.id \in TaskIDs /\ request.task \in Task
    BY DEF Reqs, PatchReqs
  <2>4. One(request.id, request.task) \in Stageable
    BY <2>3, OneTyped
  <2>5. QED
    BY <2>1, <2>2, <2>3, <2>4, LetInStep DEF WellStaged
<1>4. QED
  BY <1>1, <1>2, <1>3 DEF BodyRejection, Statuses

LEMMA DeleteArrivesStep ==
    ASSUME IInv, NEW r \in Requests, DeleteArrives(r)
    PROVE  IInv'
<1>1. PICK request \in DeleteReqs :
         IF request.auth = NoAuth
         THEN Rejected(r, 401)
         ELSE LetIn(r, request, One(request.id, NoItem), Refusal(request.auth))
  BY DEF DeleteArrives
<1>2. CASE request.auth = NoAuth
  BY <1>1, <1>2, RejectedStep DEF Statuses
<1>3. CASE request.auth # NoAuth
  <2>1. /\ request \in Reqs /\ request.op = "DELETE"
        /\ request.id \in TaskIDs /\ request.auth \in Auths
    BY <1>3 DEF Reqs, DeleteReqs, Claims
  <2>2. One(request.id, NoItem) \in Stageable
    BY <2>1, OneTyped
  <2>3. Refusal(request.auth) \in {0, 403}
    BY DEF Refusal
  <2>4. WellStaged(request, One(request.id, NoItem), Refusal(request.auth))
    BY <2>1 DEF WellStaged
  <2>5. QED
    BY <1>1, <1>3, <2>1, <2>2, <2>3, <2>4, LetInStep
<1>4. QED
  BY <1>2, <1>3

LEMMA MultiArrivesStep ==
    ASSUME IInv, NEW r \in Requests, MultiArrives(r)
    PROVE  IInv'
<1>1. PICK auth \in Claims, body \in Bodies :
         \/ auth = NoAuth /\ Rejected(r, 401)
         \/ /\ auth # NoAuth /\ body # "valid"
            /\ Rejected(r, IF auth.IsAdmin THEN BodyRejection(body) ELSE 403)
         \/ /\ auth # NoAuth /\ body = "valid"
            /\ \E request \in MultiReqs :
                  /\ request.auth = auth
                  /\ \A task \in Range(request.tasks) : ColNoOK(task)
                  /\ LetIn(r, request, request.tasks, Refusal(auth))
  BY DEF MultiArrives
<1>2. CASE \E status \in Statuses : Rejected(r, status)
  BY <1>2, RejectedStep
<1>3. CASE /\ auth # NoAuth
           /\ \E request \in MultiReqs :
                 /\ request.auth = auth
                 /\ LetIn(r, request, request.tasks, Refusal(auth))
  <2>1. PICK request \in MultiReqs :
           /\ request.auth = auth
           /\ LetIn(r, request, request.tasks, Refusal(auth))
    BY <1>3
  <2>2. auth \in Auths
    BY <1>3 DEF Claims
  <2>3. /\ request \in Reqs /\ request.op = "PATCH tasks"
        /\ request.tasks \in Batches
    BY DEF Reqs, MultiReqs
  <2>4. request.tasks \in Stageable
    <3>1. PICK ids \in SUBSET TaskIDs : request.tasks \in [ids -> Task]
      BY <2>3 DEF Batches
    <3>2. request.tasks \in [ids -> Task \cup {NoItem}]
      BY <3>1
    <3>3. QED
      BY <3>2 DEF Stageable
  <2>5. Refusal(auth) \in {0, 403}
    BY DEF Refusal
  <2>6. PICK refusal \in {0, 403} : refusal = Refusal(auth)
    BY <2>5
  <2>7. WellStaged(request, request.tasks, refusal)
    BY <2>3 DEF WellStaged
  <2>8. LetIn(r, request, request.tasks, refusal)
    BY <2>1, <2>6
  <2>9. request \in Reqs /\ request.auth \in Auths
    BY <2>1, <2>2, <2>3
  <2>10. QED
    BY <2>4, <2>7, <2>8, <2>9, LetInStep
<1>4. QED
  BY <1>1, <1>2, <1>3 DEF BodyRejection, Statuses

LEMMA GetArrivesStep ==
    ASSUME IInv, NEW r \in Requests, GetArrives(r)
    PROVE  IInv'
<1>1. PICK request \in GetReqs :
         \/ request.auth = NoAuth /\ Rejected(r, 401)
         \/ request.auth # NoAuth /\ Rejected(r, 400)
         \/ request.auth # NoAuth /\ LetIn(r, request, << >>, 0)
  BY DEF GetArrives
<1>2. CASE \E status \in Statuses : Rejected(r, status)
  BY <1>2, RejectedStep
<1>3. CASE request.auth # NoAuth /\ LetIn(r, request, << >>, 0)
  <2>1. /\ request \in Reqs /\ request.op = "GET" /\ request.auth \in Auths
    BY <1>3 DEF Reqs, GetReqs, Claims
  <2>2. << >> \in Stageable
    <3>1. << >> \in [{} -> Task \cup {NoItem}]
      OBVIOUS
    <3>2. QED
      BY <3>1 DEF Stageable
  <2>3. QED
    BY <1>3, <2>1, <2>2, LetInStep DEF WellStaged
<1>4. QED
  BY <1>1, <1>2, <1>3 DEF Statuses

-----------------------------------------------------------------------------
(***************************************************************************)
(* Calls.                                                                  *)
(***************************************************************************)

\* A request in its call has been sent nothing, or 403.
LEMMA Refused ==
    ASSUME IInv, NEW r \in Requests, pc[r] = "call"
    PROVE  resp[r] \in {0, 403}
BY Running DEF PostOK, GetOK, EditOK

\* A handler answers an error, or success; not if 403 has been sent.
LEMMA Failure ==
    ASSUME IInv, NEW r \in Requests, pc[r] = "call",
           Answers(r, 403) \/ Answers(r, 404) \/ Answers(r, 500)
    PROVE  /\ pc' \in [Requests -> {"idle", "call", "done"}]
           /\ resp' \in [Requests -> Statuses \cup {0}]
           /\ \A q \in Requests \ {r} : pc'[q] = pc[q] /\ resp'[q] = resp[q]
           /\ pc'[r] = "done"
           /\ resp'[r] # 200
BY Refused DEF Answers, Goes, Sends, IInv, TypeOK, Statuses

LEMMA Success ==
    ASSUME IInv, NEW r \in Requests, pc[r] = "call", Answers(r, 200)
    PROVE  /\ pc' \in [Requests -> {"idle", "call", "done"}]
           /\ resp' \in [Requests -> Statuses \cup {0}]
           /\ \A q \in Requests \ {r} : pc'[q] = pc[q] /\ resp'[q] = resp[q]
           /\ pc'[r] = "done"
BY DEF Answers, Goes, Sends, IInv, TypeOK, Statuses

\* A step of r that answers and changes nothing else.
LEMMA AnswerStep ==
    ASSUME IInv, NEW r \in Requests, pc[r] = "call",
           UNCHANGED << store, req, staged, tries, shown >>,
           pc' \in [Requests -> {"idle", "call", "done"}],
           resp' \in [Requests -> Statuses \cup {0}],
           \A q \in Requests \ {r} : pc'[q] = pc[q] /\ resp'[q] = resp[q],
           pc'[r] = "done",
           resp'[r] # 200 \/ Applied(r)
    PROVE  IInv'
<1>1. /\ table' \in [Keys -> Task \cup {NoItem}]
      /\ versions' \in [Keys -> SUBSET (Task \cup {NoItem})]
      /\ StoreInv' /\ Grows
      /\ UNCHANGED << table, versions, written, req, staged, tries, shown >>
  BY StoreSame
<1>2. resp'[r] = 200 => req[r].op = "PATCH tasks" /\ written[r] # {}
  BY DEF Applied
<1>3. TypeOK'
  BY <1>1, <1>2 DEF IInv, TypeOK
<1>4. \A q \in Requests \ {r} : Same(q)
  BY <1>1, <1>2 DEF Same
<1>5. \A id : Key(r, id)' = Key(r, id)
  BY <1>1 DEF Key
<1>6. StagedOK(r)'
  BY <1>1, Running DEF StagedOK
<1>7. /\ pc'[r] = "done" /\ req'[r] = req[r]
      /\ req[r] # NoReq /\ req[r].auth \in Auths
  BY <1>2, Running
<1>8. ASSUME req[r].op = "POST" PROVE RequestOK(r)'
  <2>1. PostOK(r)'
    <3>1. PostOK(r)
      BY <1>8, Running
    <3>2. \A id \in written'[r] : req'[r].task \in versions'[Key(r, id)']
      BY <1>1, <1>5, <3>1 DEF PostOK
    <3>3. resp'[r] # 200
      BY <1>2, <1>8
    <3>4. QED
      BY <1>1, <1>2, <3>1, <3>2, <3>3 DEF PostOK
  <2>2. QED
    BY <1>6, <1>7, <1>8, <2>1 DEF RequestOK
<1>9. ASSUME req[r].op = "GET" PROVE RequestOK(r)'
  <2>1. GetOK(r)'
    BY <1>2, <1>9 DEF GetOK
  <2>2. QED
    BY <1>6, <1>7, <1>9, <2>1 DEF RequestOK
<1>10. ASSUME req[r].op \notin {"POST", "GET"} PROVE RequestOK(r)'
  <2>1. EditOK(r)'
    <3>1. EditOK(r)
      BY <1>10, Running
    <3>2. resp'[r] = 200 => written'[r] = DOMAIN staged'[r]
      BY <1>1, <1>2, <3>1 DEF EditOK
    <3>3. \A id \in written'[r] : staged'[r][id] \in versions'[Key(r, id)']
      BY <1>1, <1>5, <3>1 DEF EditOK
    <3>4. written'[r] = {} \/ written'[r] = DOMAIN staged'[r]
      BY <1>1, <3>1 DEF EditOK
    <3>5. QED
      BY <1>7, <3>2, <3>3, <3>4 DEF EditOK
  <2>2. QED
    BY <1>6, <1>7, <1>10, <2>1 DEF RequestOK
<1>11. QED
  BY <1>1, <1>3, <1>4, <1>8, <1>9, <1>10, StepOf

LEMMA RecognisedStep ==
    ASSUME IInv, NEW r \in Requests, TransactionRecognised(r)
    PROVE  IInv'
BY Success, AnswerStep DEF TransactionRecognised

LEMMA ConditionFailsStep ==
    ASSUME IInv, NEW r \in Requests, ConditionFails(r)
    PROVE  IInv'
<1>1. pc[r] = "call" /\ (Answers(r, 404) \/ Answers(r, 500))
  BY DEF ConditionFails, Calling
<1>2. QED
  BY <1>1, Failure, AnswerStep DEF ConditionFails

LEMMA CallFailsStep ==
    ASSUME IInv, NEW r \in Requests, CallFails(r)
    PROVE  IInv'
BY Failure, AnswerStep DEF CallFails

\* What a write of a request does to the table.
LEMMA StoreWrite ==
    ASSUME IInv, NEW r \in Requests, CanWrite(r), Writes(r)
    PROVE  /\ table' \in [Keys -> Task \cup {NoItem}]
           /\ versions' \in [Keys -> SUBSET (Task \cup {NoItem})]
           /\ written' \in [Requests -> SUBSET TaskIDs]
           /\ \A q \in Requests \ {r} : written'[q] = written[q]
           /\ written'[r] = written[r] \cup DOMAIN staged[r]
           /\ StoreInv' /\ Grows
           /\ \A id \in DOMAIN staged[r] :
                 staged[r][id] \in versions'[Key(r, id)]
<1>1. pc[r] = "call"
  BY DEF CanWrite, Calling
<1> DEFINE mine == {Key(r, id) : id \in DOMAIN staged[r]}
<1>2. /\ table' = [k \in Keys |-> IF k \in mine THEN staged[r][k[2]] ELSE table[k]]
      /\ versions' = [k \in Keys |-> versions[k] \cup {table'[k]}]
      /\ written' = [written EXCEPT ![r] = @ \cup DOMAIN staged[r]]
  BY DEF Writes, Stores
<1>3. /\ DOMAIN staged[r] \subseteq TaskIDs
      /\ \A id \in DOMAIN staged[r] : staged[r][id] \in Task \cup {NoItem}
  BY Typed DEF IInv
<1>4. \A id \in DOMAIN staged[r] : Key(r, id) \in Keys /\ Key(r, id)[2] = id
  BY <1>1, <1>3, Running DEF Key
<1>5. \A k \in mine : k[2] \in DOMAIN staged[r]
  BY <1>4
<1>6. \A id \in DOMAIN staged[r] : table'[Key(r, id)] = staged[r][id]
  BY <1>2, <1>4
<1> HIDE DEF mine
<1>7. table' \in [Keys -> Task \cup {NoItem}]
  <2>1. \A k \in Keys : (IF k \in mine THEN staged[r][k[2]] ELSE table[k])
                           \in Task \cup {NoItem}
    BY <1>3, <1>5 DEF IInv, TypeOK
  <2>2. QED
    BY <1>2, <2>1
<1>8. versions' \in [Keys -> SUBSET (Task \cup {NoItem})]
  BY <1>2, <1>7 DEF IInv, TypeOK
<1>9. /\ written' \in [Requests -> SUBSET TaskIDs]
      /\ \A q \in Requests \ {r} : written'[q] = written[q]
      /\ written'[r] = written[r] \cup DOMAIN staged[r]
  BY <1>2, <1>3 DEF IInv, TypeOK
<1>10. StoreInv' /\ Grows
  BY <1>2 DEF StoreInv, Grows
<1>11. \A id \in DOMAIN staged[r] : staged[r][id] \in versions'[Key(r, id)]
  BY <1>2, <1>4, <1>6
<1>12. QED
  BY <1>7, <1>8, <1>9, <1>10, <1>11

\* A write whose answer is lost, or that is answered with 200.
LEMMA WriteStep ==
    ASSUME IInv, NEW r \in Requests, CanWrite(r), Writes(r),
           UNCHANGED << req, staged, tries, shown >>,
           (UNCHANGED << pc, resp >>) \/ Answers(r, 200)
    PROVE  IInv'
<1>1. pc[r] = "call" /\ req[r].op \in {"POST", "PATCH", "DELETE", "PATCH tasks"}
  BY DEF CanWrite, Calling
<1>2. /\ table' \in [Keys -> Task \cup {NoItem}]
      /\ versions' \in [Keys -> SUBSET (Task \cup {NoItem})]
      /\ written' \in [Requests -> SUBSET TaskIDs]
      /\ \A q \in Requests \ {r} : written'[q] = written[q]
      /\ written'[r] = written[r] \cup DOMAIN staged[r]
      /\ StoreInv' /\ Grows
      /\ \A id \in DOMAIN staged[r] : staged[r][id] \in versions'[Key(r, id)]
  BY StoreWrite
<1>3. /\ pc' \in [Requests -> {"idle", "call", "done"}]
      /\ resp' \in [Requests -> Statuses \cup {0}]
      /\ \A q \in Requests \ {r} : pc'[q] = pc[q] /\ resp'[q] = resp[q]
      /\ pc'[r] \in {"call", "done"}
      /\ pc'[r] = "call" => resp'[r] = resp[r]
  <2>1. CASE UNCHANGED << pc, resp >>
    BY <1>1, <2>1 DEF IInv, TypeOK
  <2>2. CASE Answers(r, 200)
    BY <1>1, <2>2, Success
  <2>3. QED
    BY <2>1, <2>2
<1>4. TypeOK'
  BY <1>2, <1>3 DEF IInv, TypeOK
<1>5. \A q \in Requests \ {r} : Same(q)
  BY <1>2, <1>3 DEF Same
<1>6. \A id : Key(r, id)' = Key(r, id)
  BY DEF Key
<1>7. StagedOK(r)'
  BY <1>1, Running DEF StagedOK
<1>8. \A id \in written[r] : versions[Key(r, id)] \subseteq versions'[Key(r, id)]
  BY <1>1, <1>2, Typed, Running DEF IInv, Grows
<1>9. CASE req[r].op = "POST"
  <2>1. PICK id \in TaskIDs : staged[r] = One(id, req[r].task)
    BY <1>1, <1>9, Running DEF StagedOK
  <2>2. DOMAIN staged[r] = {id} /\ staged[r][id] = req[r].task
    BY <2>1 DEF One
  <2>3. PostOK(r)
    BY <1>1, <1>9, Running
  <2>4. /\ IsFiniteSet(written[r] \cup {id})
        /\ Cardinality(written[r] \cup {id}) <= tries[r] + 1
    BY <2>2, <2>3, FS_AddElement DEF PostOK
  <2>5. /\ written'[r] = written[r] \cup {id}
        /\ written'[r] \cup DOMAIN staged'[r] = written[r] \cup {id}
    BY <1>2, <2>2
  <2>6. \A i \in written'[r] : req[r].task \in versions'[Key(r, i)]
    BY <1>2, <1>8, <2>2, <2>3, <2>5 DEF PostOK
  <2>7. PostOK(r)'
    <3>1. ColNoOK(req'[r].task) /\ Storable(req'[r].task)
      BY <2>3 DEF PostOK
    <3>2. pc'[r] = "call" => resp'[r] = 0 /\ tries'[r] < 3
      BY <1>1, <1>3, <2>3 DEF PostOK
    <3>3. /\ IsFiniteSet(written'[r])
          /\ Cardinality(written'[r] \cup DOMAIN staged'[r]) <= tries'[r] + 1
      BY <2>4, <2>5
    <3>4. \A i \in written'[r] : req'[r].task \in versions'[Key(r, i)']
      BY <1>6, <2>6
    <3>5. written'[r] # {}
      BY <2>5
    <3>6. QED
      BY <3>1, <3>2, <3>3, <3>4, <3>5 DEF PostOK
  <2>8. QED
    BY <1>1, <1>2, <1>3, <1>4, <1>5, <1>7, <1>9, <2>7, Running, StepOf
    DEF RequestOK
<1>10. CASE req[r].op \in {"PATCH", "DELETE", "PATCH tasks"}
  <2>1. EditOK(r)
    BY <1>1, <1>10, Running
  <2>2. written'[r] = DOMAIN staged[r]
    BY <1>2, <2>1 DEF EditOK
  <2>3. EditOK(r)'
    <3>1. written'[r] = DOMAIN staged'[r]
      BY <2>2
    <3>2. pc'[r] = "call" => resp'[r] \in {0, 403}
      BY <1>1, <1>3, <2>1 DEF EditOK
    <3>3. \A id \in written'[r] : staged'[r][id] \in versions'[Key(r, id)']
      BY <1>2, <1>6, <2>2
    <3>4. QED
      BY <3>1, <3>2, <3>3 DEF EditOK
  <2>4. QED
    BY <1>1, <1>2, <1>3, <1>4, <1>5, <1>7, <1>10, <2>3, Running, StepOf
    DEF RequestOK
<1>11. QED
  BY <1>1, <1>9, <1>10

LEMMA WriteUnansweredStep ==
    ASSUME IInv, NEW r \in Requests, WriteUnanswered(r)
    PROVE  IInv'
BY WriteStep DEF WriteUnanswered

LEMMA WriteAnswersStep ==
    ASSUME IInv, NEW r \in Requests, WriteAnswers(r)
    PROVE  IInv'
BY WriteStep DEF WriteAnswers

\* Another try of POST, or the end of it.
LEMMA InsertDuplicateStep ==
    ASSUME IInv, NEW r \in Requests, InsertDuplicate(r)
    PROVE  IInv'
<1>1. /\ pc[r] = "call" /\ req[r].op = "POST"
      /\ UNCHANGED << req, shown >>
  BY DEF InsertDuplicate, Calling
<1>2. PostOK(r) /\ StagedOK(r) /\ req[r] # NoReq /\ req[r].auth \in Auths
  BY <1>1, Running
<1>3. /\ table' \in [Keys -> Task \cup {NoItem}]
      /\ versions' \in [Keys -> SUBSET (Task \cup {NoItem})]
      /\ StoreInv' /\ Grows
      /\ UNCHANGED << table, versions, written >>
  BY StoreSame DEF InsertDuplicate
<1>4. /\ tries' \in [Requests -> 0 .. 3]
      /\ \A q \in Requests \ {r} : tries'[q] = tries[q]
      /\ tries[r] \in 0 .. 3 /\ tries'[r] = tries[r] + 1
  <2>1. tries[r] < 3 /\ tries[r] \in 0 .. 3
    BY <1>1, <1>2, Typed DEF PostOK, IInv
  <2>2. QED
    BY <2>1 DEF InsertDuplicate, CountsTry, IInv, TypeOK
<1>5. PICK old \in TaskIDs : DOMAIN staged[r] = {old}
  BY <1>1, <1>2 DEF StagedOK, One
<1>6. /\ IsFiniteSet(written[r])
      /\ Cardinality(written[r] \cup {old}) <= tries[r] + 1
  BY <1>2, <1>5 DEF PostOK
<1>7. Cardinality(written[r]) \in Nat /\ Cardinality(written[r]) <= tries[r] + 1
  <2>1. IsFiniteSet(written[r] \cup {old})
    BY <1>6, FS_AddElement
  <2>2. Cardinality(written[r]) <= Cardinality(written[r] \cup {old})
    BY <2>1, FS_Subset
  <2>3. Cardinality(written[r]) \in Nat /\ Cardinality(written[r] \cup {old}) \in Nat
    BY <1>6, <2>1, FS_CardinalityType
  <2>4. QED
    BY <1>4, <1>6, <2>2, <2>3
<1>8. \A id : Cardinality(written[r] \cup {id}) <= tries'[r] + 1
  <2> TAKE id
  <2>1. \/ Cardinality(written[r] \cup {id}) = Cardinality(written[r])
        \/ Cardinality(written[r] \cup {id}) = Cardinality(written[r]) + 1
    BY <1>6, FS_AddElement
  <2>2. QED
    BY <1>4, <1>7, <2>1
<1>9. \A id \in written'[r] : req'[r].task \in versions'[Key(r, id)']
  BY <1>1, <1>2, <1>3 DEF PostOK, Key
<1>10. ColNoOK(req'[r].task) /\ Storable(req'[r].task) /\ IsFiniteSet(written'[r])
  BY <1>1, <1>2, <1>3, <1>6 DEF PostOK
<1>11. CASE TriesLeft(r)
  <2>1. PICK id \in TaskIDs : staged' = [staged EXCEPT ![r] = One(id, req[r].task)]
    BY <1>11 DEF InsertDuplicate, Stages
  <2>2. UNCHANGED << pc, resp >>
    BY <1>11 DEF InsertDuplicate
  <2>3. One(id, req[r].task) \in Stageable /\ DOMAIN One(id, req[r].task) = {id}
    <3>1. req[r].task \in Task
      BY <1>1, Running DEF Reqs, PostReqs, PatchReqs, DeleteReqs, MultiReqs, GetReqs
    <3>2. QED
      BY <3>1, OneTyped
  <2>4. /\ staged' \in [Requests -> Stageable]
        /\ \A q \in Requests \ {r} : staged'[q] = staged[q]
        /\ staged'[r] = One(id, req[r].task)
    BY <2>1, <2>3 DEF IInv, TypeOK, Stageable
  <2>5. TypeOK'
    BY <1>1, <1>3, <1>4, <2>2, <2>4 DEF IInv, TypeOK, Stageable
  <2>6. \A q \in Requests \ {r} : Same(q)
    BY <1>1, <1>3, <1>4, <2>2, <2>4 DEF Same
  <2>7. written'[r] \cup DOMAIN staged'[r] = written[r] \cup {id}
    BY <1>3, <2>3, <2>4
  <2>8. resp'[r] = 0 /\ pc'[r] = "call" /\ tries'[r] < 3
    BY <1>1, <1>2, <1>4, <1>11, <2>2 DEF PostOK, TriesLeft
  <2>9. Cardinality(written'[r] \cup DOMAIN staged'[r]) <= tries'[r] + 1
    BY <1>8, <2>7
  <2>10. PostOK(r)'
    BY <1>9, <1>10, <2>8, <2>9 DEF PostOK
  <2>11. StagedOK(r)'
    BY <1>1, <2>4 DEF StagedOK
  <2>12. RequestOK(r)'
    BY <1>1, <1>2, <2>8, <2>10, <2>11 DEF RequestOK
  <2>13. QED
    BY <1>3, <2>5, <2>6, <2>12, StepOf
<1>12. CASE ~TriesLeft(r)
  <2>1. Answers(r, 500) /\ UNCHANGED staged
    BY <1>12 DEF InsertDuplicate, GivesUp
  <2>2. /\ pc' \in [Requests -> {"idle", "call", "done"}]
        /\ resp' \in [Requests -> Statuses \cup {0}]
        /\ \A q \in Requests \ {r} : pc'[q] = pc[q] /\ resp'[q] = resp[q]
        /\ pc'[r] = "done" /\ resp'[r] # 200
    BY <1>1, <2>1, Failure
  <2>3. TypeOK'
    BY <1>1, <1>3, <1>4, <2>1, <2>2 DEF IInv, TypeOK
  <2>4. \A q \in Requests \ {r} : Same(q)
    BY <1>1, <1>3, <1>4, <2>1, <2>2 DEF Same
  <2>5. written'[r] \cup DOMAIN staged'[r] = written[r] \cup {old}
    BY <1>3, <1>5, <2>1
  <2>6. Cardinality(written'[r] \cup DOMAIN staged'[r]) <= tries'[r] + 1
    BY <1>8, <2>5
  <2>7. PostOK(r)'
    BY <1>9, <1>10, <2>2, <2>6 DEF PostOK
  <2>8. StagedOK(r)'
    BY <1>1, <1>2, <2>1 DEF StagedOK
  <2>9. RequestOK(r)'
    BY <1>1, <1>2, <2>2, <2>7, <2>8 DEF RequestOK
  <2>10. QED
    BY <1>3, <2>3, <2>4, <2>9, StepOf
<1>13. QED
  BY <1>11, <1>12

\* What a query finds under a key is a version of it.
LEMMA SnapshotOK ==
    ASSUME IInv, NEW s \in Snapshots, NEW k \in Keys
    PROVE  /\ s[k] \in versions[k]
           /\ s[k] # NoItem => s[k] \in Task
<1>1. s[k] \in versions[k]
  BY DEF Snapshots, IInv, StoreInv
<1>2. QED
  BY <1>1 DEF IInv, TypeOK

\* A query whose answer is some of what it found: tasks of the team, on one
\* board.
LEMMA ShowStep ==
    ASSUME IInv, NEW r \in Requests, pc[r] = "call", req[r].op = "GET",
           NEW s \in Snapshots, NEW found \in SUBSET Keys,
           \A k \in found : s[k] # NoItem /\ k[1] = req[r].auth.TeamID,
           \A k, l \in found : s[k].BoardID = s[l].BoardID,
           req[r].board # NoBoard =>
               \A k \in found : s[k].BoardID = req[r].board,
           Shows(r, {<< k, s[k] >> : k \in found}),
           Answers(r, 200), UNCHANGED << store, req, staged, tries >>
    PROVE  IInv'
<1> DEFINE answer == {<< k, s[k] >> : k \in found}
<1>1. /\ table' \in [Keys -> Task \cup {NoItem}]
      /\ versions' \in [Keys -> SUBSET (Task \cup {NoItem})]
      /\ StoreInv' /\ Grows
      /\ UNCHANGED << table, versions, written >>
  BY StoreSame
<1>2. /\ pc' \in [Requests -> {"idle", "call", "done"}]
      /\ resp' \in [Requests -> Statuses \cup {0}]
      /\ \A q \in Requests \ {r} : pc'[q] = pc[q] /\ resp'[q] = resp[q]
      /\ pc'[r] = "done"
  BY Success
<1>3. \A k \in found : s[k] \in versions[k] /\ s[k] \in Task
  BY SnapshotOK
<1>4. answer \subseteq Keys \X Task
  BY <1>3
<1>5. \A e \in answer :
         /\ e[1][1] = req[r].auth.TeamID
         /\ e[2] \in versions[e[1]]
         /\ req[r].board # NoBoard => e[2].BoardID = req[r].board
  BY <1>3
<1>6. \A e, f \in answer :
         e[2].BoardID = f[2].BoardID /\ (e[1] = f[1] => e = f)
  OBVIOUS
<1>7. shown' = [shown EXCEPT ![r] = answer]
  BY DEF Shows
<1> HIDE DEF answer
<1>8. /\ shown' \in [Requests -> SUBSET (Keys \X Task)]
      /\ \A q \in Requests \ {r} : shown'[q] = shown[q]
      /\ shown'[r] = answer
  BY <1>4, <1>7 DEF IInv, TypeOK
<1>9. ShowsOneBoard(r)'
  BY <1>1, <1>5, <1>6, <1>8 DEF ShowsOneBoard
<1>10. TypeOK'
  BY <1>1, <1>2, <1>8 DEF IInv, TypeOK
<1>11. \A q \in Requests \ {r} : Same(q)
  BY <1>1, <1>2, <1>8 DEF Same
<1>12. GetOK(r)'
  BY <1>2, <1>9 DEF GetOK
<1>13. StagedOK(r)'
  BY Running DEF StagedOK
<1>14. RequestOK(r)'
  BY <1>2, <1>12, <1>13, Running DEF RequestOK
<1>15. QED
  BY <1>1, <1>10, <1>11, <1>14, StepOf

LEMMA GetByBoardStep ==
    ASSUME IInv, NEW r \in Requests, GetByBoard(r)
    PROVE  IInv'
<1>1. /\ pc[r] = "call" /\ req[r].op = "GET" /\ req[r].board # NoBoard
      /\ UNCHANGED << store, req, staged, tries >>
  BY DEF GetByBoard, Calling
<1>2. PICK s \in Snapshots :
         LET found == {k \in Keys : s[k] # NoItem /\ s[k].BoardID = req[r].board}
         IN  IF AllOwn(r, found)
             THEN Answers(r, 200) /\ Shows(r, {<< k, s[k] >> : k \in found})
             ELSE Answers(r, 403) /\ UNCHANGED shown
  BY DEF GetByBoard
<1> DEFINE found == {k \in Keys : s[k] # NoItem /\ s[k].BoardID = req[r].board}
<1>3. CASE AllOwn(r, found)
  <2>1. Answers(r, 200) /\ Shows(r, {<< k, s[k] >> : k \in found})
    BY <1>2, <1>3
  <2>2. \A k \in found : s[k] # NoItem /\ k[1] = req[r].auth.TeamID
    BY <1>3 DEF AllOwn
  <2>3. found \in SUBSET Keys /\ \A k \in found : s[k].BoardID = req[r].board
    OBVIOUS
  <2> HIDE DEF found
  <2>4. \A k, l \in found : s[k].BoardID = s[l].BoardID
    BY <2>3
  <2>5. QED
    BY <1>1, <2>1, <2>2, <2>3, <2>4, ShowStep
<1>4. CASE ~AllOwn(r, found)
  <2>1. Answers(r, 403) /\ UNCHANGED shown
    BY <1>2, <1>4
  <2>2. QED
    BY <1>1, <2>1, Failure, AnswerStep
<1>5. QED
  BY <1>3, <1>4

LEMMA GetByTeamStep ==
    ASSUME IInv, NEW r \in Requests, GetByTeam(r)
    PROVE  IInv'
<1>1. /\ pc[r] = "call" /\ req[r].op = "GET" /\ req[r].board = NoBoard
      /\ UNCHANGED << store, req, staged, tries >> /\ Answers(r, 200)
  BY DEF GetByTeam, Calling
<1>2. PICK s \in Snapshots :
         LET found == {k \in Keys : s[k] # NoItem /\ k[1] = req[r].auth.TeamID}
         IN  IF found = {}
             THEN Shows(r, {})
             ELSE \E first \in found :
                     Shows(r, {<< k, s[k] >> :
                         k \in {l \in found : s[l].BoardID = s[first].BoardID}})
  BY DEF GetByTeam, OnBoardOf
<1> DEFINE found == {k \in Keys : s[k] # NoItem /\ k[1] = req[r].auth.TeamID}
<1>3. CASE found = {}
  <2>1. Shows(r, {})
    BY <1>2, <1>3
  <2>2. PICK none \in SUBSET Keys : none = {}
    OBVIOUS
  <2>3. {<< k, s[k] >> : k \in none} = {}
    BY <2>2
  <2>4. Shows(r, {<< k, s[k] >> : k \in none})
    BY <2>1, <2>3
  <2>5. \A k \in none : FALSE
    BY <2>2
  <2>6. QED
    BY <1>1, <2>4, <2>5, ShowStep
<1>4. CASE found # {}
  <2>1. PICK first \in found :
           Shows(r, {<< k, s[k] >> :
               k \in {l \in found : s[l].BoardID = s[first].BoardID}})
    BY <1>2, <1>4
  <2> DEFINE chosen == {l \in found : s[l].BoardID = s[first].BoardID}
  <2>2. /\ chosen \in SUBSET Keys
        /\ \A k \in chosen : /\ s[k] # NoItem /\ k[1] = req[r].auth.TeamID
                             /\ s[k].BoardID = s[first].BoardID
    OBVIOUS
  <2>3. Shows(r, {<< k, s[k] >> : k \in chosen})
    BY <2>1
  <2> HIDE DEF chosen, found
  <2>4. \A k, l \in chosen : s[k].BoardID = s[l].BoardID
    BY <2>2
  <2>5. QED
    BY <1>1, <2>2, <2>3, <2>4, ShowStep
<1>5. QED
  BY <1>3, <1>4

-----------------------------------------------------------------------------
\* The invariant is inductive.
LEMMA Invariance == Spec => []IInv
<1>1. Init => IInv
  <2> SUFFICES ASSUME Init PROVE IInv
    OBVIOUS
  <2>1. << >> \in Stageable
    <3>1. << >> \in [{} -> Task \cup {NoItem}]
      OBVIOUS
    <3>2. QED
      BY <3>1 DEF Stageable
  <2>2. staged \in [Requests -> Stageable]
    BY <2>1 DEF Init
  <2>3. TypeOK
    <3>1. /\ table \in [Keys -> Task \cup {NoItem}]
          /\ versions \in [Keys -> SUBSET (Task \cup {NoItem})]
      BY DEF Init
    <3>2. /\ req \in [Requests -> Reqs \cup {NoReq}]
          /\ pc \in [Requests -> {"idle", "call", "done"}]
          /\ tries \in [Requests -> 0 .. 3]
          /\ resp \in [Requests -> Statuses \cup {0}]
      BY DEF Init
    <3>3. /\ shown \in [Requests -> SUBSET (Keys \X Task)]
          /\ written \in [Requests -> SUBSET TaskIDs]
      BY DEF Init
    <3>4. QED
      BY <2>2, <3>1, <3>2, <3>3 DEF TypeOK, Stageable
  <2>4. StoreInv
    BY DEF Init, StoreInv
  <2>5. \A r \in Requests : RequestOK(r)
    BY DEF Init, RequestOK
  <2>6. QED
    BY <2>3, <2>4, <2>5 DEF IInv
<1>2. IInv /\ [Next]_vars => IInv'
  <2> SUFFICES ASSUME IInv, [Next]_vars PROVE IInv'
    OBVIOUS
  <2>1. CASE UNCHANGED vars
    <3>1. \A r \in Requests : Same(r)
      BY <2>1 DEF vars, Same
    <3>2. StoreInv' /\ Grows
      BY <2>1, StoreSame DEF vars, store
    <3>3. TypeOK'
      BY <2>1 DEF vars, IInv, TypeOK
    <3>4. \A r \in Requests : RequestOK(r)'
      BY <3>1, <3>2, FrameRequest DEF IInv
    <3>5. QED
      BY <3>2, <3>3, <3>4 DEF IInv
  <2>2. ASSUME NEW r \in Requests, Arrival(r)
        PROVE  IInv'
    BY <2>2, PostArrivesStep, PatchArrivesStep, DeleteArrivesStep,
       MultiArrivesStep, GetArrivesStep
    DEF Arrival
  <2>3. ASSUME NEW r \in Requests, Serves(r)
        PROVE  IInv'
    BY <2>3, WriteAnswersStep, RecognisedStep, InsertDuplicateStep,
       ConditionFailsStep, CallFailsStep, GetByBoardStep, GetByTeamStep
    DEF Serves
  <2>4. QED
    BY <2>1, <2>2, <2>3, WriteUnansweredStep DEF Next
<1>3. QED
  BY <1>1, <1>2, PTL DEF Spec

\* Every variable keeps its type.
THEOREM TypeCorrect == Spec => []TypeOK
BY Invariance, PTL DEF IInv

\* What a request in the invariant has been told of its writes is true.
LEMMA TellsTheTruth ==
    ASSUME IInv, NEW r \in Requests, req[r] # NoReq, req[r].op # "GET"
    PROVE  StoredAsAsked(r)
<1>1. RequestOK(r)
  BY DEF IInv
<1>2. CASE req[r].op = "POST"
  <2>1. PostOK(r) /\ StagedOK(r)
    BY <1>1, <1>2 DEF RequestOK
  <2>2. PICK id \in TaskIDs : staged[r] = One(id, req[r].task)
    BY <1>2, <2>1 DEF StagedOK
  <2>3. DOMAIN staged[r] = {id} /\ staged[r][id] = req[r].task
    BY <2>2 DEF One
  <2>4. Cardinality(written[r]) <= tries[r] + 1
    <3>1. IsFiniteSet(written[r]) /\ IsFiniteSet(written[r] \cup {id})
      BY <2>1, FS_AddElement DEF PostOK
    <3>2. Cardinality(written[r]) <= Cardinality(written[r] \cup {id})
      BY <3>1, FS_Subset
    <3>3. /\ Cardinality(written[r]) \in Nat
          /\ Cardinality(written[r] \cup {id}) \in Nat
      BY <3>1, FS_CardinalityType
    <3>4. Cardinality(written[r] \cup {id}) <= tries[r] + 1
      BY <2>1, <2>3 DEF PostOK
    <3>5. tries[r] \in 0 .. 3
      BY Typed DEF IInv
    <3>6. QED
      BY <3>2, <3>3, <3>4, <3>5
  <2>5. \A i \in DOMAIN staged[r] \cap written[r] :
           staged[r][i] \in versions[Key(r, i)]
    BY <2>1, <2>3 DEF PostOK
  <2>6. QED
    BY <1>2, <2>1, <2>4, <2>5 DEF PostOK, StoredAsAsked
<1>3. CASE req[r].op # "POST"
  <2>1. EditOK(r)
    BY <1>1, <1>3 DEF RequestOK
  <2>2. QED
    BY <1>3, <2>1 DEF EditOK, StoredAsAsked
<1>4. QED
  BY <1>2, <1>3

\* A 200 means stored as asked for, whatever else happens to the task, for
\* any number of requests, lost answers and colliding IDs.
THEOREM SuccessfulIsStored == Spec => []SuccessIsStored
<1>1. IInv => SuccessIsStored
  BY TellsTheTruth DEF SuccessIsStored
<1>2. QED
  BY <1>1, Invariance, PTL

\* A 200 of GET /tasks shows stored tasks of one team and one board.
THEOREM GetsShowOneBoard == Spec => []GetShowsOneBoard
<1>1. IInv => GetShowsOneBoard
  BY DEF IInv, RequestOK, GetOK, GetShowsOneBoard
<1>2. QED
  BY <1>1, Invariance, PTL

\* The steps that do not write.
LEMMA OnlyWritesWrite ==
    ASSUME [Next]_vars
    PROVE  \/ UNCHANGED table
           \/ \E r \in Requests : CanWrite(r) /\ Writes(r)
<1>1. CASE UNCHANGED vars
  BY <1>1 DEF vars
<1>2. ASSUME NEW r \in Requests, Arrival(r)
      PROVE  UNCHANGED table
  BY <1>2 DEF Arrival, PostArrives, PatchArrives, DeleteArrives,
     MultiArrives, GetArrives, Rejected, LetIn, store
<1>3. ASSUME NEW r \in Requests, Serves(r)
      PROVE  UNCHANGED table \/ (CanWrite(r) /\ Writes(r))
  BY <1>3 DEF Serves, WriteAnswers, TransactionRecognised, InsertDuplicate,
     ConditionFails, CallFails, GetByBoard, GetByTeam, store
<1>4. ASSUME NEW r \in Requests, WriteUnanswered(r)
      PROVE  CanWrite(r) /\ Writes(r)
  BY <1>4 DEF WriteUnanswered
<1>5. QED
  BY <1>1, <1>2, <1>3, <1>4 DEF Next

\* A write is a step of the abstract store.
LEMMA WriteRefines ==
    ASSUME IInv, NEW r \in Requests, CanWrite(r), Writes(r)
    PROVE  Store!Next
<1>1. /\ pc[r] = "call" /\ req[r].op \in {"POST", "PATCH", "DELETE", "PATCH tasks"}
      /\ \A id \in DOMAIN staged[r] : Storable(staged[r][id])
      /\ ConditionHolds(r)
  BY DEF CanWrite, Calling, Range
<1>2. req[r] \in Reqs /\ req[r].auth.TeamID \in TeamIDs /\ StagedOK(r)
  BY <1>1, Running
<1>3. PICK t \in TeamIDs : t = req[r].auth.TeamID
  BY <1>2
<1>4. /\ table \in [Keys -> Task \cup {NoItem}]
      /\ table' \in [Keys -> Task \cup {NoItem}]
  BY StoreWrite DEF IInv, TypeOK
<1>5. \A k \in Keys : table'[k] = IF k \in {Key(r, id) : id \in DOMAIN staged[r]}
                                  THEN staged[r][k[2]] ELSE table[k]
  BY DEF Writes, Stores
<1>6. DOMAIN staged[r] \subseteq TaskIDs
  BY Typed DEF IInv
<1>7. \A id : Key(r, id) = << t, id >>
  BY <1>3 DEF Key
<1>8. \A k \in Keys : k = << k[1], k[2] >> /\ k[1] \in TeamIDs /\ k[2] \in TaskIDs
  BY DEF Keys
<1>9. ASSUME NEW id \in TaskIDs, NEW item, staged[r] = One(id, item)
      PROVE  /\ << t, id >> \in Keys
             /\ table' = [table EXCEPT ![<< t, id >>] = item]
             /\ Storable(item)
             /\ (table[<< t, id >>] = NoItem) <=> (req[r].op = "POST")
  <2>1. DOMAIN staged[r] = {id} /\ staged[r][id] = item
    BY <1>9 DEF One
  <2>2. << t, id >> \in Keys
    BY DEF Keys
  <2>3. \A k \in Keys : table'[k] = IF k = << t, id >> THEN item ELSE table[k]
    BY <1>5, <1>7, <2>1
  <2>4. table' = [table EXCEPT ![<< t, id >>] = item]
    BY <1>4, <2>2, <2>3
  <2>5. Storable(item) /\ ((table[<< t, id >>] = NoItem) <=> (req[r].op = "POST"))
    BY <1>1, <1>7, <2>1 DEF ConditionHolds
  <2>6. QED
    BY <2>2, <2>4, <2>5
<1>10. CASE req[r].op = "POST"
  <2>1. PICK id \in TaskIDs : staged[r] = One(id, req[r].task)
    BY <1>2, <1>10 DEF StagedOK
  <2>2. req[r].task \in Task
    BY <1>2, <1>10 DEF Reqs, PostReqs, PatchReqs, DeleteReqs, MultiReqs, GetReqs
  <2>3. ColNoOK(req[r].task)
    BY <1>1, <1>10, Running DEF PostOK
  <2>4. /\ << t, id >> \in Keys /\ table[<< t, id >>] = NoItem
        /\ table' = [table EXCEPT ![<< t, id >>] = req[r].task]
        /\ Storable(req[r].task)
    BY <1>9, <1>10, <2>1
  <2>5. Store!Create(<< t, id >>)
    BY <2>2, <2>3, <2>4 DEF Store!Create, Store!Task, Task, Store!ColNoOK,
       ColNoOK, Store!Storable, Storable
  <2>6. QED
    BY <2>4, <2>5 DEF Store!Next, Store!Keys, Keys
<1>11. CASE req[r].op = "DELETE"
  <2>1. req[r].id \in TaskIDs
    BY <1>2, <1>11 DEF Reqs, PostReqs, PatchReqs, DeleteReqs, MultiReqs, GetReqs
  <2>2. staged[r] = One(req[r].id, NoItem)
    BY <1>2, <1>11 DEF StagedOK
  <2>3. /\ << t, req[r].id >> \in Keys /\ table[<< t, req[r].id >>] # NoItem
        /\ table' = [table EXCEPT ![<< t, req[r].id >>] = NoItem]
    BY <1>9, <1>11, <2>1, <2>2
  <2>4. Store!Delete(<< t, req[r].id >>)
    BY <2>3 DEF Store!Delete
  <2>5. QED
    BY <2>3, <2>4 DEF Store!Next, Store!Keys, Keys
<1>12. CASE req[r].op \in {"PATCH", "PATCH tasks"}
  <2>1. \A id \in DOMAIN staged[r] :
           staged[r][id] # NoItem /\ table[<< t, id >>] # NoItem
    <3>1. \A id \in DOMAIN staged[r] : table[<< t, id >>] # NoItem
      BY <1>1, <1>7, <1>12 DEF ConditionHolds
    <3>2. CASE req[r].op = "PATCH"
      <4>1. req[r].task \in Task
        BY <1>2, <3>2 DEF Reqs, PostReqs, PatchReqs, DeleteReqs, MultiReqs, GetReqs
      <4>2. staged[r] = One(req[r].id, req[r].task)
        BY <1>2, <3>2 DEF StagedOK
      <4>3. QED
        BY <3>1, <4>1, <4>2, TaskDataAssumption DEF One
    <3>3. CASE req[r].op = "PATCH tasks"
      <4>1. req[r].tasks \in Batches
        BY <1>2, <3>3 DEF Reqs, PostReqs, PatchReqs, DeleteReqs, MultiReqs, GetReqs
      <4>2. PICK ids \in SUBSET TaskIDs : staged[r] \in [ids -> Task]
        BY <1>2, <3>3, <4>1 DEF StagedOK, Batches
      <4>3. QED
        BY <3>1, <4>2, TaskDataAssumption
    <3>4. QED
      BY <1>12, <3>2, <3>3
  <2>2. ASSUME NEW k \in Keys, table'[k] # table[k]
        PROVE  /\ k[1] = t /\ table[k] # NoItem /\ table'[k] # NoItem
               /\ Storable(table'[k])
    <3>1. PICK id \in DOMAIN staged[r] : k = << t, id >>
      BY <1>5, <1>7, <2>2
    <3>2. k[1] = t /\ k[2] = id
      BY <3>1
    <3>3. table'[k] = staged[r][id]
      BY <1>5, <1>7, <3>1, <3>2
    <3>4. QED
      BY <1>1, <2>1, <3>1, <3>2, <3>3
  <2>3. Store!Edit(t)
    BY <1>4, <2>2 DEF Store!Edit, Store!Keys, Keys, Store!Task, Task,
       Store!Storable, Storable
  <2>4. QED
    BY <2>3 DEF Store!Next
<1>13. QED
  BY <1>1, <1>10, <1>11, <1>12

\* The task service implements the abstract store: tasks are created once, on
\* a board and in a column, no edit brings one back, and a batch of edits is
\* one step.
THEOREM Refinement == Spec => StoreRefined
<1>1. Init => Store!Init
  BY DEF Init, Store!Init, Store!Keys, Keys
<1>2. IInv /\ [Next]_vars => [Store!Next]_table
  BY OnlyWritesWrite, WriteRefines
<1>3. QED
  BY <1>1, <1>2, Invariance, PTL DEF Spec, StoreRefined, Store!Spec

=============================================================================
