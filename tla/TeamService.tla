---------------------------- MODULE TeamService -----------------------------
(***************************************************************************)
(* The team service: GET /team and POST, PATCH and DELETE /board, served   *)
(* concurrently (net/http runs each request in a goroutine of its own)     *)
(* over one DynamoDB table and with no lock of their own.  A request is a  *)
(* process; one action is the code between two calls to DynamoDB, so that  *)
(* the calls of different requests interleave.                             *)
(*                                                                         *)
(* DynamoDB is modelled by how the service uses it.  GetItem is called     *)
(* without ConsistentRead, so under EventualReads it may return any item   *)
(* the key has had.  A call may fail.  A PutItem may also be applied while *)
(* its answer is lost; the SDK then sends it again, which is a second      *)
(* PutItem and may overwrite what was put between the two.                 *)
(***************************************************************************)
EXTENDS TeamData

CONSTANTS Requests,      \* the requests, each served once
          EventualReads, \* is GetItem allowed to return an old item?
          NoReq          \* no request has been let in

VARIABLES table,    \* the team table
          versions, \* every item each key has had
          req,      \* what each request that was let in asks for
          pc,       \* where its handler is
          staged,   \* its copy of the team, as it will put it
          shown,    \* the boards in its answer
          tries,    \* how many duplicate keys its retry loop has met
          resp,     \* the status it answered with
          wrote     \* did it change the table? (history variable)
store == << table, versions, wrote >>
vars == << table, versions, req, pc, staged, shown, tries, resp, wrote >>

\* The claims of the auth cookies the user service issues: a user is the
\* admin of the team named after them or a plain member of another one.
Auths == {a \in [Username : Users, TeamID : TeamIDs, IsAdmin : BOOLEAN] :
             a.IsAdmin <=> a.Username = a.TeamID}
NoAuth == [Username |-> NoReq, TeamID |-> NoReq, IsAdmin |-> FALSE]
Claims == Auths \cup {NoAuth}

GetReqs    == [op : {"GET"}, auth : Claims]
PostReqs   == [op : {"POST"}, auth : Claims, name : Names]
PatchReqs  == [op : {"PATCH"}, auth : Claims, board : Board]
DeleteReqs == [op : {"DELETE"}, auth : Claims, id : BoardIDs]
Reqs == GetReqs \cup PostReqs \cup PatchReqs \cup DeleteReqs

ASSUME TeamServiceAssumption == EventualReads \in BOOLEAN /\ NoReq \notin Reqs

\* What the validators say of a body: "garbled" does not decode as JSON.
Bodies == {"valid", "invalid", "garbled"}

Statuses == {200, 201, 400, 401, 403, 404, 500}

Init ==
    /\ table = [t \in TeamIDs |-> NoItem]
    /\ versions = [t \in TeamIDs |-> {NoItem}]
    /\ req = [r \in Requests |-> NoReq]
    /\ pc = [r \in Requests |-> "idle"]
    /\ staged = [r \in Requests |-> NoItem]
    /\ shown = [r \in Requests |-> {}]
    /\ tries = [r \in Requests |-> 0]
    /\ resp = [r \in Requests |-> 0]
    /\ wrote = [r \in Requests |-> FALSE]

TeamOf(r) == req[r].auth.TeamID
User(r)   == req[r].auth.Username

Goes(r, label) == pc' = [pc EXCEPT ![r] = label]
Stages(r, item) == staged' = [staged EXCEPT ![r] = item]

Answers(r, status) ==
    /\ Goes(r, "done")
    /\ resp' = [resp EXCEPT ![r] = status]

(***************************************************************************)
(* A request arrives.  The head of its handler authenticates it, checks    *)
(* that the user is an admin and validates the body; a handler rejects     *)
(* with the first of these that fails and goes on to the database if none  *)
(* does.                                                                   *)
(***************************************************************************)
Arrives(r, request, rejection) ==
    /\ pc[r] = "idle"
    /\ IF rejection = 0
       THEN /\ req' = [req EXCEPT ![r] = request]
            /\ Goes(r, "read")
            /\ UNCHANGED resp
       ELSE Answers(r, rejection) /\ UNCHANGED req
    /\ UNCHANGED << store, staged, shown, tries >>

GetArrives(r) ==
    \E request \in GetReqs :
        Arrives(r, request, IF request.auth = NoAuth THEN 401 ELSE 0)

BoardRejection(auth, body) ==
    CASE auth = NoAuth -> 401
      [] auth # NoAuth /\ ~auth.IsAdmin -> 403
      [] auth # NoAuth /\ auth.IsAdmin /\ body = "garbled" -> 500
      [] auth # NoAuth /\ auth.IsAdmin /\ body = "invalid" -> 400
      [] OTHER -> 0

PostArrives(r) ==
    \E request \in PostReqs, body \in Bodies :
        Arrives(r, request, BoardRejection(request.auth, body))

PatchArrives(r) ==
    \E request \in PatchReqs, body \in Bodies :
        Arrives(r, request, BoardRejection(request.auth, body))

\* The ID is in the query: there is no body to decode.
DeleteArrives(r) ==
    \E request \in DeleteReqs, body \in Bodies \ {"garbled"} :
        Arrives(r, request, BoardRejection(request.auth, body))

(***************************************************************************)
(* Calls to DynamoDB.                                                      *)
(***************************************************************************)
GetItem(t) == IF EventualReads THEN versions[t] ELSE {table[t]}

Puts(r) ==
    LET t == TeamOf(r) IN
    /\ table' = [table EXCEPT ![t] = staged[r]]
    /\ versions' = [versions EXCEPT ![t] = @ \cup {staged[r]}]
    /\ wrote' = [wrote EXCEPT ![r] = TRUE]

PutsAnyway(r) == TRUE \* mutant: no ConditionExpression

\* Insert puts under attribute_not_exists(ID), Update under
\* attribute_exists(ID) and the board operations under no condition.
ConditionHolds(r) ==
    CASE pc[r] = "insert" -> table[TeamOf(r)] = NoItem
      [] pc[r] = "update" -> table[TeamOf(r)] # NoItem
      [] OTHER -> TRUE

Putting == {"insert", "update", "put"}

\* The item is put but the answer is lost, and the SDK will put it again.
PutUnanswered(r) ==
    /\ pc[r] \in Putting
    /\ ConditionHolds(r)
    /\ Puts(r)
    /\ UNCHANGED << req, pc, staged, shown, tries, resp >>

\* The handlers try three IDs.
OneTryMore(r) == tries[r] + 1 <= 3 \* mutant: i <= 3
TriesLeft(r) == tries[r] + 1 < 3

ForgetsTry(r) == UNCHANGED tries \* mutant: i is not incremented
CountsTry(r) == tries' = [tries EXCEPT ![r] = @ + 1]

\* Mutant: a failed call is taken for a missing item.
CallFailsAsMissing(r) ==
    /\ pc[r] \in Putting \cup {"read"}
    /\ Answers(r, 404)
    /\ UNCHANGED << store, req, staged, shown, tries >>

\* The call fails for good: 500 in all four handlers.
CallFails(r) ==
    /\ pc[r] \in Putting \cup {"read"}
    /\ Answers(r, 500)
    /\ UNCHANGED << store, req, staged, shown, tries >>

(***************************************************************************)
(* GET /team.                                                              *)
(***************************************************************************)

\* The answer holds the whole team for its admin, who also gets an invite
\* token (which may fail to encode), the visible boards for a member.
GetAnswers(r, status, team) ==
    /\ shown' = [shown EXCEPT ![r] = IF req[r].auth.IsAdmin
                                     THEN Range(team.Boards)
                                     ELSE VisibleBoards(team, User(r))]
    /\ \/ Answers(r, status)
       \/ req[r].auth.IsAdmin /\ Answers(r, 500)

GetFindsNone(r) ==
    /\ pc[r] = "read" /\ req[r].op = "GET"
    /\ NoItem \in GetItem(TeamOf(r))
    /\ IF req[r].auth.IsAdmin
       THEN /\ Goes(r, "insert")
            /\ \E id \in BoardIDs : Stages(r, NewTeam(TeamOf(r), id))
            /\ UNCHANGED resp
       ELSE Answers(r, 401) /\ UNCHANGED staged
    /\ UNCHANGED << store, req, shown, tries >>

NobodyIsMember(r, team) == FALSE \* mutant: members are not looked up
EveryoneIsMember(r, team) == TRUE \* mutant: no synchronisation
IsMember(r, team) == User(r) \in Range(team.Members)

GetFinds(r) ==
    /\ pc[r] = "read" /\ req[r].op = "GET"
    /\ \E team \in GetItem(TeamOf(r)) \ {NoItem} :
          IF req[r].auth.IsAdmin \/ IsMember(r, team)
          THEN GetAnswers(r, 200, team) /\ UNCHANGED staged
          ELSE /\ Goes(r, "update")
               /\ Stages(r, MemberAdded(team, User(r)))
               /\ UNCHANGED << shown, resp >>
    /\ UNCHANGED << store, req, tries >>

GetInserts(r) ==
    /\ pc[r] = "insert"
    /\ ConditionHolds(r)
    /\ Puts(r)
    /\ GetAnswers(r, 201, staged[r])
    /\ UNCHANGED << req, staged, tries >>

\* The key that is taken is the team's, but it is the board's ID that is
\* drawn again; after three tries the handler goes on to answer 201.
GetInsertsDuplicate(r) ==
    /\ pc[r] = "insert"
    /\ ~ConditionHolds(r)
    /\ CountsTry(r)
    /\ \E id \in BoardIDs :
          /\ Stages(r, NewTeam(TeamOf(r), id))
          /\ IF TriesLeft(r)
             THEN UNCHANGED << pc, shown, resp >>
             ELSE GetAnswers(r, 201, NewTeam(TeamOf(r), id))
    /\ UNCHANGED << store, req >>

GetUpdates(r) ==
    /\ pc[r] = "update"
    /\ IF ConditionHolds(r)
       THEN Puts(r) /\ GetAnswers(r, 200, staged[r])
       ELSE Answers(r, 500) /\ UNCHANGED << store, shown >>
    /\ UNCHANGED << req, staged, tries >>

(***************************************************************************)
(* POST, PATCH and DELETE /board: read the team, edit the copy, put it.    *)
(***************************************************************************)
Replies(r, status) == Answers(r, status) /\ UNCHANGED << staged, tries >>
WillPut(r, item) ==
    Goes(r, "put") /\ Stages(r, item) /\ UNCHANGED << tries, resp >>

\* The handler draws a new ID and reads again when the ID is taken, three
\* times at most.
LimitPassed(team) == Len(team.Boards) > MaxBoards \* mutant: > for >=
LimitReached(team) == Len(team.Boards) >= MaxBoards

IDIgnored(team, id) == FALSE \* mutant: the scan for the ID is left out
IDTaken(team, id) == id \in IDsOf(team)

PostReads(r) ==
    /\ pc[r] = "read" /\ req[r].op = "POST"
    /\ \E team \in GetItem(TeamOf(r)), id \in BoardIDs :
         CASE team = NoItem -> Replies(r, 500)
           [] team # NoItem /\ IDTaken(team, id) ->
                /\ CountsTry(r)
                /\ IF TriesLeft(r) THEN UNCHANGED << pc, resp >>
                                   ELSE Answers(r, 500)
                /\ UNCHANGED staged
           [] OTHER ->
                IF LimitReached(team)
                THEN Replies(r, 400)
                ELSE WillPut(r, BoardAdded(team, NewBoard(id, req[r].name)))
    /\ UNCHANGED << store, req, shown >>

PatchReads(r) ==
    /\ pc[r] = "read" /\ req[r].op = "PATCH"
    /\ \E team \in GetItem(TeamOf(r)) :
         IF team # NoItem /\ req[r].board.ID \in IDsOf(team)
         THEN WillPut(r, BoardReplaced(team, req[r].board))
         ELSE Replies(r, 404)
    /\ UNCHANGED << store, req, shown >>

\* The loop steps back at a match and so never leaves it; it does not look
\* at the last of two or more boards.
DeleteReads(r) ==
    /\ pc[r] = "read" /\ req[r].op = "DELETE"
    /\ \E team \in GetItem(TeamOf(r)) :
         LET at == IF team = NoItem THEN {}
                   ELSE {i \in DOMAIN team.Boards :
                            team.Boards[i].ID = req[r].id}
         IN  CASE team # NoItem /\ Len(team.Boards) = 1 /\ 1 \in at ->
                    WillPut(r, BoardRemoved(team, 1))
               [] team # NoItem /\ \E i \in at : i < Len(team.Boards) ->
                    Goes(r, "spin") /\ UNCHANGED << staged, tries, resp >>
               [] OTHER -> Replies(r, 404)
    /\ UNCHANGED << store, req, shown >>

BoardPuts(r) ==
    /\ pc[r] = "put"
    /\ Puts(r)
    /\ Answers(r, 200)
    /\ UNCHANGED << req, staged, shown, tries >>

(***************************************************************************)
(* The service.                                                            *)
(***************************************************************************)
Arrival(r) ==
    GetArrives(r) \/ PostArrives(r) \/ PatchArrives(r) \/ DeleteArrives(r)

Serves(r) ==
    \/ GetFindsNone(r) \/ GetFinds(r)
    \/ GetInserts(r) \/ GetInsertsDuplicate(r) \/ GetUpdates(r)
    \/ PostReads(r) \/ PatchReads(r) \/ DeleteReads(r) \/ BoardPuts(r)
    \/ CallFails(r)

Next == \E r \in Requests : Arrival(r) \/ Serves(r) \/ PutUnanswered(r)

Spec == Init /\ [][Next]_vars

\* A goroutine runs on, and the SDK gives up after three attempts, so a
\* call is answered or fails in the end.
FairSpec == Spec /\ \A r \in Requests : WF_vars(Serves(r))

-----------------------------------------------------------------------------
(***************************************************************************)
(* Properties.                                                             *)
(***************************************************************************)

\* Every variable has its type.
TypeOK ==
    /\ table \in [TeamIDs -> Team \cup {NoItem}]
    /\ versions \in [TeamIDs -> SUBSET (Team \cup {NoItem})]
    /\ req \in [Requests -> Reqs \cup {NoReq}]
    /\ pc \in [Requests -> Putting \cup {"idle", "read", "spin", "done"}]
    /\ staged \in [Requests -> Team \cup {NoItem}]
    /\ shown \in [Requests -> SUBSET Board]
    /\ tries \in [Requests -> 0 .. 3]
    /\ resp \in [Requests -> Statuses \cup {0}]
    /\ wrote \in [Requests -> BOOLEAN]

Stored(t) == versions[t] \ {NoItem}

\* No team ever has more boards than the limit: BoardInserter counts the
\* boards of the copy it is about to put, so requests that race past the
\* check overwrite each other instead of adding up.
BoardLimitKept ==
    \A t \in TeamIDs : \A team \in Stored(t) : BoardsWithinLimit(team)

\* No team ever has two boards of one ID, whatever UUIDs are drawn, on
\* however old a copy: the duplicate check and the append are of one copy.
BoardIDsUnique ==
    \A t \in TeamIDs : \A team \in Stored(t) : BoardIDsDistinct(team)

\* No user is ever listed twice in a team, though a new member's first
\* requests may all find them missing and all add them.
MembersUnique ==
    \A t \in TeamIDs : \A team \in Stored(t) : MembersDistinct(team)

\* A team always lists the admin it is named after: no edit drops a member
\* and every copy that is put descends from the team GET created.
AdminKept ==
    \A t \in TeamIDs : \A team \in Stored(t) : AdminIsMember(t, team)

\* A 200 from GET /team shows the boards of one stored version of the team
\* that has the user among its members, all of them to the admin and those
\* the user is on to another member: never a version from before the user
\* was added, never a synchronisation that was not stored.
AnswersAVersion(r) ==
    req[r] # NoReq /\ req[r].op = "GET" /\ resp[r] = 200 =>
        \E team \in Stored(TeamOf(r)) :
            /\ User(r) \in Range(team.Members)
            /\ shown[r] = IF req[r].auth.IsAdmin
                          THEN Range(team.Boards)
                          ELSE VisibleBoards(team, User(r))

GetAnswersAVersion == \A r \in Requests : AnswersAVersion(r)

\* A request answered with 4xx has changed nothing, in particular not in an
\* earlier round of its retry loop.
RejectedWritesNothing ==
    \A r \in Requests : resp[r] \in 400 .. 499 => ~wrote[r]

\* Only a request of a user of the team has changed it, and only that of an
\* admin has done more than to add its own user: the boards of a version
\* that a member's request puts are those of an earlier version.
MembersKeepBoards ==
    [][\A r \in Requests, t \in TeamIDs :
         /\ table'[t] # table[t]
         /\ pc[r] \in Putting
         /\ ~wrote[r] /\ wrote'[r]
         => /\ TeamOf(r) = t
            /\ ~req[r].auth.IsAdmin =>
                 \E v \in Stored(t) :
                    /\ table'[t].Boards = v.Boards
                    /\ table'[t].Members \in
                         {v.Members, Append(v.Members, User(r))}]_vars

\* The service implements the abstract store: every write is the creation
\* of a team or one edit of a version it had.
Store == INSTANCE TeamStore
StoreRefined == Store!Spec

\* Every request is answered in the end, unless BoardDeleter's loop meets a
\* board it looks at: the retry loops and the SDK's are bounded.
Served ==
    \A r \in Requests : pc[r] # "idle" ~> pc[r] \in {"done", "spin"}

(***************************************************************************)
(* The inductive invariant behind the safety properties.                   *)
(***************************************************************************)

\* What the table holds is legal and is a version.
StoreInv ==
    \A t \in TeamIDs :
        /\ NoItem \in versions[t]
        /\ table[t] \in versions[t]
        /\ \A team \in Stored(t) : LegalTeam(t, team)

\* A request that was let in has valid claims; the copy it is about to put
\* is a new team or one edit of a version, and it does not touch the members
\* unless it adds its user; it has written nothing before its first PutItem.
RequestOK(r) ==
    /\ pc[r] = "idle" => req[r] = NoReq /\ resp[r] = 0
    /\ pc[r] \notin {"idle", "done"} => req[r] # NoReq /\ resp[r] = 0
    /\ req[r] # NoReq =>
         req[r].auth \in Auths /\ (req[r].op # "GET" => req[r].auth.IsAdmin)
    /\ pc[r] \in {"idle", "read", "spin"} => ~wrote[r]
    /\ pc[r] \in {"idle", "read", "insert"} => tries[r] < 3
    /\ pc[r] = "insert" =>
         /\ req[r].op = "GET" /\ req[r].auth.IsAdmin
         /\ \E id \in BoardIDs : staged[r] = NewTeam(TeamOf(r), id)
    /\ pc[r] = "update" =>
         /\ req[r].op = "GET" /\ ~req[r].auth.IsAdmin
         /\ \E v \in Stored(TeamOf(r)) :
               /\ User(r) \notin Range(v.Members)
               /\ staged[r] = MemberAdded(v, User(r))
    /\ pc[r] = "put" =>
         /\ req[r].op # "GET"
         /\ \E v \in Stored(TeamOf(r)) :
               staged[r] \in Edits(v) /\ staged[r].Members = v.Members

IInv ==
    /\ TypeOK
    /\ StoreInv
    /\ \A r \in Requests : RequestOK(r)
    /\ GetAnswersAVersion
    /\ RejectedWritesNothing

(***************************************************************************)
(* What comments say of the code that the code does not do.                *)
(***************************************************************************)

\* deleteBoard.go:24 "Delete deletes the board with the given ID from the
\* team with the given ID": a DELETE /board that reads a team with the board
\* (with consistent reads) fails or goes on to put the team without it.
DeleteRemoves ==
    [][\A r \in Requests :
         /\ pc[r] = "read" /\ req[r].op = "DELETE" /\ pc'[r] # "read"
         /\ table[TeamOf(r)] # NoItem
         /\ req[r].id \in IDsOf(table[TeamOf(r)])
         => \/ resp'[r] = 500
            \/ pc'[r] = "put" /\ req[r].id \notin IDsOf(staged'[r])]_vars

\* get.go:105 "write 201 to indicate creation of the new team": the team in
\* a 201 answer is one the table has held.
CreatedIsStored ==
    \A r \in Requests : resp[r] = 201 => staged[r] \in Stored(TeamOf(r))

\* get.go:123 "this is a synchronisation step and is safe": adding a member
\* leaves the boards of the team as they are.
SyncKeepsBoards ==
    [][\A r \in Requests :
         pc[r] = "update" /\ resp'[r] = 200 =>
             table'[TeamOf(r)].Boards = table[TeamOf(r)].Boards]_vars

=============================================================================
