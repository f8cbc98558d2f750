---------------------------- MODULE TaskService -----------------------------
(***************************************************************************)
(* The task service: POST, PATCH and DELETE /task, GET and PATCH /tasks,   *)
(* served concurrently over one DynamoDB table.  A request is a process;   *)
(* each makes one kind of call to DynamoDB, POST up to three times.        *)
(*                                                                         *)
(* DynamoDB is modelled by how the service uses it.  A call may fail.  A   *)
(* write may be applied while its answer is lost: the SDK then sends it    *)
(* again, and a PutItem or DeleteItem is made, and its condition tested,   *)
(* anew, while a transaction carries a token by which it is recognised.    *)
(* A query reads each item by itself, and under EventualReads, as through  *)
(* the BoardID index, it may see any item the key has had.                 *)
(***************************************************************************)
EXTENDS TaskData, Functions, FiniteSets

CONSTANTS Requests,      \* the requests, each served once
          EventualReads, \* may a query see old items?
          CallsFail,     \* may calls fail, and answers be lost?
          NoReq          \* no request has been let in

VARIABLES table,    \* the task table
          versions, \* every item each key has had
          req,      \* what each request that was let in asks for
          pc,       \* where its handler is
          staged,   \* task ID -> the item its call will store there
          tries,    \* how many duplicate keys its retry loop has met
          shown,    \* the tasks in its answer
          resp,     \* the status it answered with
          written   \* the IDs of the tasks it has stored or deleted
store == << table, versions, written >>
vars == << table, versions, req, pc, staged, tries, shown, resp, written >>

\* The claims the task service uses of an auth cookie, and those of a
\* request with no cookie or one that does not decode.
Auths == [TeamID : TeamIDs, IsAdmin : BOOLEAN]
NoAuth == [TeamID |-> NoReq, IsAdmin |-> FALSE]
Claims == Auths \cup {NoAuth}

\* A batch that names a task twice is refused by DynamoDB: it is answered,
\* and changes, as a garbled one.
Batches == UNION {[ids -> Task] : ids \in SUBSET TaskIDs \ {{}}}

PostReqs   == [op : {"POST"}, auth : Claims, task : Task]
PatchReqs  == [op : {"PATCH"}, auth : Claims, id : TaskIDs, task : Task]
DeleteReqs == [op : {"DELETE"}, auth : Claims, id : TaskIDs]
MultiReqs  == [op : {"PATCH tasks"}, auth : Claims, tasks : Batches]
\* NoBoard asks for the tasks of the team, without a boardID parameter.
GetReqs    == [op : {"GET"}, auth : Claims, board : BoardIDs \cup {NoBoard}]
Reqs == PostReqs \cup PatchReqs \cup DeleteReqs \cup MultiReqs \cup GetReqs

ASSUME TaskServiceAssumption ==
    /\ EventualReads \in BOOLEAN /\ CallsFail \in BOOLEAN
    /\ NoReq \notin Reqs \cup TeamIDs

\* What the decoder and the validators say of the rest of a body.
Bodies == {"valid", "invalid", "garbled"}

Statuses == {200, 400, 401, 403, 404, 500}

Init ==
    /\ table = [k \in Keys |-> NoItem]
    /\ versions = [k \in Keys |-> {NoItem}]
    /\ req = [r \in Requests |-> NoReq]
    /\ pc = [r \in Requests |-> "idle"]
    /\ staged = [r \in Requests |-> << >>]
    /\ tries = [r \in Requests |-> 0]
    /\ shown = [r \in Requests |-> {}]
    /\ resp = [r \in Requests |-> 0]
    /\ written = [r \in Requests |-> {}]

Key(r, id) == << req[r].auth.TeamID, id >>

Goes(r, label) == pc' = [pc EXCEPT ![r] = label]
Stages(r, items) == staged' = [staged EXCEPT ![r] = items]
One(id, item) == [i \in {id} |-> item]

\* The first status a handler writes is the one that is sent.
Sends(r, status) ==
    resp' = [resp EXCEPT ![r] = IF @ = 0 THEN status ELSE @]
Answers(r, status) == Goes(r, "done") /\ Sends(r, status)

(***************************************************************************)
(* A request arrives.  The head of its handler authenticates it, checks    *)
(* that the user is an admin and validates the body.                       *)
(***************************************************************************)
Rejected(r, status) ==
    /\ pc[r] = "idle"
    /\ Answers(r, status)
    /\ UNCHANGED << store, req, staged, tries, shown >>

\* The request goes on to its call; a refusal may have been sent already.
LetIn(r, request, items, refusal) ==
    /\ pc[r] = "idle"
    /\ req' = [req EXCEPT ![r] = request]
    /\ Goes(r, "call")
    /\ Stages(r, items)
    /\ Sends(r, refusal)
    /\ UNCHANGED << store, tries, shown >>

BodyRejection(body) == IF body = "garbled" THEN 500 ELSE 400

AcceptsAnyColumn(task) == Storable(task) \* mutant: colNo is not checked
PostAccepts(task) == ColNoOK(task) /\ Storable(task)

PostArrives(r) ==
    \E auth \in Claims, body \in Bodies :
        \/ auth = NoAuth /\ Rejected(r, 401)
        \/ auth # NoAuth /\ ~auth.IsAdmin /\ Rejected(r, 403)
        \/ auth.IsAdmin /\ body # "valid" /\ Rejected(r, BodyRejection(body))
        \/ /\ auth.IsAdmin /\ body = "valid"
           /\ \E request \in PostReqs, id \in TaskIDs :
                 /\ request.auth = auth
                 /\ IF PostAccepts(request.task)
                    THEN LetIn(r, request, One(id, request.task), 0)
                    ELSE Rejected(r, 400)

\* Only the titles are validated, not the column or the board.
PatchArrives(r) ==
    \E auth \in Claims, body \in Bodies :
        \/ auth = NoAuth /\ Rejected(r, 401)
        \/ auth # NoAuth /\ ~auth.IsAdmin /\ Rejected(r, 403)
        \/ auth.IsAdmin /\ body # "valid" /\ Rejected(r, BodyRejection(body))
        \/ /\ auth.IsAdmin /\ body = "valid"
           /\ \E request \in PatchReqs :
                 /\ request.auth = auth
                 /\ LetIn(r, request, One(request.id, request.task), 0)

\* The handler does not return after sending 403.  It does not after an
\* undecodable cookie either, but its team ID is then empty and DynamoDB
\* refuses the call.
Refusal(auth) == IF auth.IsAdmin THEN 0 ELSE 403

DeleteArrives(r) ==
    \E request \in DeleteReqs :
        IF request.auth = NoAuth
        THEN Rejected(r, 401)
        ELSE LetIn(r, request, One(request.id, NoItem), Refusal(request.auth))

\* Likewise.  The body is decoded, and validated, after the refusal; it is
\* invalid if it is empty or has a column out of range.
MultiArrives(r) ==
    \E auth \in Claims, body \in Bodies :
        \/ auth = NoAuth /\ Rejected(r, 401)
        \/ /\ auth # NoAuth /\ body # "valid"
           /\ Rejected(r, IF auth.IsAdmin THEN BodyRejection(body) ELSE 403)
        \/ /\ auth # NoAuth /\ body = "valid"
           /\ \E request \in MultiReqs :
                 /\ request.auth = auth
                 /\ \A task \in Range(request.tasks) : ColNoOK(task)
                 /\ LetIn(r, request, request.tasks, Refusal(auth))

GetArrives(r) ==
    \E request \in GetReqs :
        \/ request.auth = NoAuth /\ Rejected(r, 401)
        \/ request.auth # NoAuth /\ Rejected(r, 400) \* malformed board ID
        \/ request.auth # NoAuth /\ LetIn(r, request, << >>, 0)

(***************************************************************************)
(* Calls to DynamoDB.                                                      *)
(***************************************************************************)
Stores(r, ids) ==
    /\ table' = [k \in Keys |-> IF k \in {Key(r, id) : id \in ids}
                                THEN staged[r][k[2]] ELSE table[k]]
    /\ versions' = [k \in Keys |-> versions[k] \cup {table'[k]}]
    /\ written' = [written EXCEPT ![r] = @ \cup ids]

Writes(r) == Stores(r, DOMAIN staged[r])

\* Mutant: Update, Delete and MultiUpdater have no ConditionExpression.
EditsAnyway(r) ==
    req[r].op = "POST" =>
        \A id \in DOMAIN staged[r] : table[Key(r, id)] = NoItem

\* Insert is under attribute_not_exists(ID); Update, Delete and each put of
\* MultiUpdater are under attribute_exists(ID).
ConditionHolds(r) ==
    \A id \in DOMAIN staged[r] :
        (table[Key(r, id)] = NoItem) <=> (req[r].op = "POST")

Calling(r, ops) == pc[r] = "call" /\ req[r].op \in ops

\* DynamoDB has applied this very transaction.
Applied(r) == req[r].op = "PATCH tasks" /\ written[r] # {}

CanWrite(r) ==
    /\ Calling(r, {"POST", "PATCH", "DELETE", "PATCH tasks"})
    /\ \A item \in Range(staged[r]) : Storable(item)
    /\ ~Applied(r)
    /\ ConditionHolds(r)

\* The write is applied, its answer is lost, the SDK will send it again.
WriteUnanswered(r) ==
    /\ CallsFail
    /\ CanWrite(r)
    /\ Writes(r)
    /\ UNCHANGED << req, pc, staged, tries, shown, resp >>

WriteAnswers(r) ==
    /\ CanWrite(r)
    /\ Writes(r)
    /\ Answers(r, 200)
    /\ UNCHANGED << req, staged, tries, shown >>

\* The answer to a transaction that was applied before.
TransactionRecognised(r) ==
    /\ pc[r] = "call" /\ req[r].op = "PATCH tasks" /\ Applied(r)
    /\ Answers(r, 200)
    /\ UNCHANGED << store, req, staged, tries, shown >>

\* The handler tries three IDs and then answers with an error.
OneTryMore(r) == tries[r] + 1 <= 3 \* mutant: i <= 3
TriesLeft(r) == tries[r] + 1 < 3

ForgetsTry(r) == UNCHANGED tries \* mutant: i is not incremented
CountsTry(r) == tries' = [tries EXCEPT ![r] = @ + 1]

GivesUpSilently(r) == Answers(r, 200) \* mutant: err is not looked at
GivesUp(r) == Answers(r, 500)

\* Insert returns ErrDupKey: another ID is drawn, three times in all.
InsertDuplicate(r) ==
    /\ Calling(r, {"POST"})
    /\ ~ConditionHolds(r)
    /\ CountsTry(r)
    /\ IF TriesLeft(r)
       THEN /\ \E id \in TaskIDs : Stages(r, One(id, req[r].task))
            /\ UNCHANGED << pc, resp >>
       ELSE GivesUp(r) /\ UNCHANGED staged
    /\ UNCHANGED << store, req, shown >>

\* Update and Delete return ErrNoItem.  A cancelled transaction is not a
\* ConditionalCheckFailedException, so MultiUpdater returns another error.
ConditionFails(r) ==
    /\ Calling(r, {"PATCH", "DELETE", "PATCH tasks"})
    /\ \A item \in Range(staged[r]) : Storable(item)
    /\ ~Applied(r)
    /\ ~ConditionHolds(r)
    /\ Answers(r, IF req[r].op = "PATCH tasks" THEN 500 ELSE 404)
    /\ UNCHANGED << store, req, staged, tries, shown >>

\* DynamoDB refuses the items, or the call fails for good.
CallFails(r) ==
    /\ pc[r] = "call"
    /\ CallsFail \/ \E item \in Range(staged[r]) : ~Storable(item)
    /\ Answers(r, 500)
    /\ UNCHANGED << store, req, staged, tries, shown >>

(***************************************************************************)
(* GET /tasks.                                                             *)
(***************************************************************************)

\* What a query may find: one item, of those the key has had, per key.
Snapshots ==
    IF EventualReads
    THEN {s \in [Keys -> UNION {versions[k] : k \in Keys}] :
             \A k \in Keys : s[k] \in versions[k]}
    ELSE {table}

Shows(r, found) == shown' = [shown EXCEPT ![r] = found]

TeamIgnored(r, found) == TRUE \* mutant: teams are not compared
AllOwn(r, found) == \A k \in found : k[1] = req[r].auth.TeamID

GetByBoard(r) ==
    /\ Calling(r, {"GET"}) /\ req[r].board # NoBoard
    /\ \E s \in Snapshots :
         LET found == {k \in Keys : s[k] # NoItem /\ s[k].BoardID = req[r].board}
         IN  IF AllOwn(r, found)
             THEN Answers(r, 200) /\ Shows(r, {<< k, s[k] >> : k \in found})
             ELSE Answers(r, 403) /\ UNCHANGED shown
    /\ UNCHANGED << store, req, staged, tries >>

AnyBoard(s, found, first) == found \* mutant: boards are not compared
OnBoardOf(s, found, first) == {k \in found : s[k].BoardID = s[first].BoardID}

\* The tasks that are on the board of the first one the query returns.
GetByTeam(r) ==
    /\ Calling(r, {"GET"}) /\ req[r].board = NoBoard
    /\ \E s \in Snapshots :
         LET found == {k \in Keys : s[k] # NoItem /\ k[1] = req[r].auth.TeamID}
         IN  IF found = {}
             THEN Shows(r, {})
             ELSE \E first \in found :
                     Shows(r, {<< k, s[k] >> : k \in OnBoardOf(s, found, first)})
    /\ Answers(r, 200)
    /\ UNCHANGED << store, req, staged, tries >>

(***************************************************************************)
(* The service.                                                            *)
(***************************************************************************)
Arrival(r) ==
    \/ PostArrives(r) \/ PatchArrives(r) \/ DeleteArrives(r)
    \/ MultiArrives(r) \/ GetArrives(r)

Serves(r) ==
    \/ WriteAnswers(r) \/ TransactionRecognised(r)
    \/ InsertDuplicate(r) \/ ConditionFails(r) \/ CallFails(r)
    \/ GetByBoard(r) \/ GetByTeam(r)

Next == \E r \in Requests : Arrival(r) \/ Serves(r) \/ WriteUnanswered(r)

Spec == Init /\ [][Next]_vars

\* A goroutine runs on, and the SDK gives up after three attempts, so a
\* call is answered or fails in the end.
FairSpec == Spec /\ \A r \in Requests : WF_vars(Serves(r))

-----------------------------------------------------------------------------
(***************************************************************************)
(* Properties.                                                             *)
(***************************************************************************)

\* Every variable has its type.
TypeOK ==
    /\ table \in [Keys -> Task \cup {NoItem}]
    /\ versions \in [Keys -> SUBSET (Task \cup {NoItem})]
    /\ req \in [Requests -> Reqs \cup {NoReq}]
    /\ pc \in [Requests -> {"idle", "call", "done"}]
    /\ staged \in [Requests ->
                      UNION {[ids -> Task \cup {NoItem}] : ids \in SUBSET TaskIDs}]
    /\ tries \in [Requests -> 0 .. 3]
    /\ shown \in [Requests -> SUBSET (Keys \X Task)]
    /\ resp \in [Requests -> Statuses \cup {0}]
    /\ written \in [Requests -> SUBSET TaskIDs]

\* The service implements the abstract store: a task is created once, in a
\* column and on a board, no edit brings a deleted task back, and a batch of
\* edits is made in one step.
Store == INSTANCE TaskStore
StoreRefined == Store!Spec

\* A write that is answered with 200 has been made, in full, and stored what
\* was asked for.  POST has made no more tasks than the IDs it drew, each as
\* asked for, however many of its answers were lost.
StoredAsAsked(r) ==
    /\ resp[r] = 200 => written[r] = DOMAIN staged[r] \/ req[r].op = "POST"
    /\ \A id \in DOMAIN staged[r] \cap written[r] :
          staged[r][id] \in versions[Key(r, id)]
    /\ req[r].op = "POST" =>
          /\ resp[r] = 200 => written[r] # {}
          /\ Cardinality(written[r]) <= tries[r] + 1
          /\ \A id \in written[r] : req[r].task \in versions[Key(r, id)]

SuccessIsStored ==
    \A r \in Requests :
        req[r] # NoReq /\ req[r].op # "GET" => StoredAsAsked(r)

\* The tasks in a 200 answer to GET /tasks are stored ones, each shown once,
\* all of the user's team and all on one board, the one asked for if any,
\* though the query saw each at a time of its own.
ShowsOneBoard(r) ==
    /\ \A s \in shown[r] :
          /\ s[1][1] = req[r].auth.TeamID
          /\ s[2] \in versions[s[1]]
          /\ req[r].board # NoBoard => s[2].BoardID = req[r].board
    /\ \A s, u \in shown[r] :
          s[2].BoardID = u[2].BoardID /\ (s[1] = u[1] => s = u)

GetShowsOneBoard ==
    \A r \in Requests :
        req[r] # NoReq /\ req[r].op = "GET" /\ resp[r] = 200 => ShowsOneBoard(r)

\* Every request is answered in the end: the retry loops are bounded.
Served == \A r \in Requests : pc[r] # "idle" ~> pc[r] = "done"

(***************************************************************************)
(* The inductive invariant behind the safety properties.                   *)
(***************************************************************************)

StoreInv == \A k \in Keys : table[k] \in versions[k]

\* What the call of a request will store: its task under some ID, under the
\* one it names, nothing there, its whole batch; a GET stores nothing.
StagedOK(r) ==
    /\ req[r].op = "POST" => \E id \in TaskIDs : staged[r] = One(id, req[r].task)
    /\ req[r].op = "PATCH" => staged[r] = One(req[r].id, req[r].task)
    /\ req[r].op = "DELETE" => staged[r] = One(req[r].id, NoItem)
    /\ req[r].op = "PATCH tasks" => staged[r] = req[r].tasks
    /\ req[r].op = "GET" => staged[r] = << >>

\* POST has stored its task under the IDs it drew before, and maybe under the
\* one it has drawn last.
PostOK(r) ==
    /\ ColNoOK(req[r].task) /\ Storable(req[r].task)
    /\ pc[r] = "call" => resp[r] = 0 /\ tries[r] < 3
    /\ IsFiniteSet(written[r])
    /\ Cardinality(written[r] \cup DOMAIN staged[r]) <= tries[r] + 1
    /\ \A id \in written[r] : req[r].task \in versions[Key(r, id)]
    /\ resp[r] = 200 => written[r] # {}

\* The other writes have been made as a whole, or not at all.
EditOK(r) ==
    /\ written[r] = {} \/ written[r] = DOMAIN staged[r]
    /\ pc[r] = "call" => resp[r] \in {0, 403}
    /\ resp[r] = 200 => written[r] = DOMAIN staged[r]
    /\ \A id \in written[r] : staged[r][id] \in versions[Key(r, id)]

GetOK(r) ==
    /\ pc[r] = "call" => resp[r] = 0
    /\ resp[r] = 200 => ShowsOneBoard(r)

RequestOK(r) ==
    /\ pc[r] = "idle" => req[r] = NoReq /\ resp[r] = 0
    /\ pc[r] = "call" => req[r] # NoReq
    /\ req[r] = NoReq =>
         written[r] = {} /\ tries[r] = 0 /\ staged[r] = << >>
    /\ req[r] # NoReq =>
         /\ req[r].auth \in Auths
         /\ StagedOK(r)
         /\ req[r].op = "POST" => PostOK(r)
         /\ req[r].op = "GET" => GetOK(r)
         /\ req[r].op \notin {"POST", "GET"} => EditOK(r)

IInv == TypeOK /\ StoreInv /\ \A r \in Requests : RequestOK(r)

(***************************************************************************)
(* What messages say of the code that the code does not do.                *)
(***************************************************************************)

\* tasksapi/patch.go:91 "Only team admins can edit tasks.",
\* taskapi/delete.go:77 "Only team admins can delete tasks.": a request that
\* is answered with 403 has changed no task.
RefusedWritesNothing ==
    \A r \in Requests : resp[r] = 403 => written[r] = {}

=============================================================================
