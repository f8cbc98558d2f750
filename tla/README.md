# GoTeam, verified

GoTeam is a kanban board for small teams: three Go services (users, teams,
tasks), each an HTTP server over one DynamoDB table, and a React client. This
directory holds TLA+ models of the services and of the board in the client, TLC runs that
check small instances of them, and TLAPS proofs that hold for instances of any size. Paths
below are relative to the repository root, `src/`.

What is hard in this system is not any one handler. The services have no locks
and no transactions around their reads and writes: `net/http` serves every request
in a goroutine of its own, a team with all its members and boards is ONE item
that every edit reads, changes and puts back whole, reads may be old, and the AWS
SDK repeats a call whose answer it did not get. The client shows every edit before it is
stored and has to find back when it is not. The models are about that.

## The system

| part | state | operations |
|---|---|---|
| user service, `internal/usersvc` | the user table, through `pkg/db/usertbl` | POST /register, POST /login |
| team service, `internal/teamsvc` | the team table, through `pkg/db/teamtbl` | GET /team; POST, PATCH, DELETE /board |
| task service, `internal/tasksvc` | the task table, through `pkg/db/tasktbl` | POST, PATCH, DELETE /task; GET, PATCH /tasks |
| cookies, `pkg/cookie` | none: signed tokens that clients hold for an hour | encode and decode auth cookies and invite tokens |
| dispatch, `pkg/api` | none | choice of the handler by HTTP method, CORS headers |
| DynamoDB, `pkg/db` and outside | the three tables | GetItem, PutItem, DeleteItem, Query, TransactWriteItems |
| validators, `pkg/validator` and per handler | none | lengths, alphabets, UUIDs, column numbers |
| web client, `web/` | a copy of the team and of one board | optimistic edits, rollbacks, reloads |

How they interact. The services never call each other and share no state. A
client registers (or logs in) with the user service and gets an **auth cookie**
with its username, its team's ID and whether it is the team's admin. The other
services go by these claims and never look at the user table. An admin's
`GET /team` also answers an **invite token** for the team; a user who
registers with it becomes a plain member of that team. One key signs both kinds of token, and
registration accepts any that names a team, so an auth cookie will do for an invite (`TokenTeams`). Whoever registers without
one becomes the admin of a team named after them, which the first `GET /team`
creates. A member's first `GET /team` adds them to the team's member list.

What makes each part correct, and what threatens it:

* **Team service.** A team is created once; it never has more than three boards,
  two boards of one ID, a member listed twice, or no admin; an answer shows
  something that was stored. Threats: read-edit-put without a version condition,
  reads that are old, retry loops, lost answers.
* **Task service.** Success means stored, in full, once; a batch is one step; an
  edit does not bring back a deleted task; a query shows tasks of one team and one
  board. Threats: conditional writes that the SDK repeats, handlers that answer and go on,
  an index that lags behind the table.
* **User service.** A name is registered once; cookies tell the truth
  about the table for as long as they live. Threats: races for a name, lost answers.
* **Together.** Each service relies on what another one issues: members of a team
  are users of that team; an invite is for a team that is stored.
* **Web client.** When everything is answered, the board is shown as it is stored; no task
  is shown twice; a drag moves the stored task that was dragged. Threats: edits shown before they are stored,
  copies to go back to that share objects with what is shown, drags that are two
  calls, loads that overtake each other, orders that are taken for places in a column.

## Modules

| module | models | how it corresponds to the code |
|---|---|---|
| `TeamData` | the team item and its edits | one operator per edit in `teamtbl` (`BoardAdded`, `BoardReplaced`, `BoardRemoved`) and in `teamapi/get.go` (`NewTeam`, `MemberAdded`, `VisibleBoards`); `LegalTeam` is what every stored item should satisfy |
| `TeamStore` | what the team table promises | abstract: a team is created once; from then on every write is ONE edit of SOME earlier version |
| `TeamService` | the team service, concurrently | see below |
| `TaskData` | the task item and its key | `tasktbl.go`, the column validators |
| `TaskStore` | what the task table promises | abstract: create once, edit or delete only what is there, a batch in one step |
| `TaskService` | the task service, concurrently | one call to DynamoDB per handler (POST: up to three) |
| `UserService` | the user service, concurrently | one call per handler; `Invites` stands for GET /team handing out a token; a user registers with one of these or with an auth cookie that was issued |
| `GoTeam` | user and team service together | the two modules as instances; cookies flow one way, invite tokens the other, and cookies back as if they were |
| `BoardClient` | the board in a browser tab, over the task service | see below |
| `TeamData_proofs`, `TeamService_proofs`, `TaskService_proofs`, `UserService_proofs`, `GoTeam_proofs` | the proofs about the services | |
| `BoardColumns_proofs` | what splicing, filtering, sorting and numbering do to a column | lemmas that the next two cite |
| `BoardClient_proofs` | the proofs about the board: types, the store, places of tasks, the spinner | |
| `BoardQuiet_proofs` | the proofs about what is shown, stored and dragged | |
| `MC*` | constants and symmetry for TLC | |

**A request is a process.** `req[r]` is what it asks for, `pc[r]` where its
handler is, `resp[r]` the status it sent. A request's first action is the whole
head of its handler up to the first call to DynamoDB: cookie, claims, admin check,
body, in the code's order, with the rejection each of them sends. After that, one
action is one call to DynamoDB and the code up to the next one, so the calls of
different requests interleave as they do in the program. Rejected requests leave
`req` alone, which keeps the state small and loses nothing: their handlers are over.

In `TeamService`, `staged[r]` is the handler's local copy of the team, as it will put
it: the time between the read that made it and the put that stores it is where
the hazards are. `pc` is `"read"` before GetItem, `"insert"`, `"update"` or
`"put"` before a PutItem under `attribute_not_exists`, under `attribute_exists` or
under no condition (`teamtbl.Inserter`, `Updater`, the `Board*` accessors), and `"spin"` in
the loop of `BoardDeleter` that never ends. `tries` counts the rounds of
the two retry loops. In `TaskService`, `staged[r]` maps task IDs to what the one
call will store there (a batch has several, a deletion stages "no item"). Handlers
that go on after sending 403 do so in the model (`DeleteArrives`, `MultiArrives`):
the first status written is the one the client gets (`Sends`).

**A gesture is a process**, in `BoardClient`: a drag (`Board.jsx`, `handleOnDragEnd`), a subtask
checked (`Task.jsx`, `toggleSubtaskDone`), or a window for a new task, an edit or a deletion
(`CreateTask.jsx`, `EditTask.jsx`, `DeleteTask.jsx`). It changes what is `shown`, sends its `call`s, with
the tasks in its `body`, and takes the answers when they come (`EditAnswered`,
`DragAnswered`); `loadBoard` in `App.jsx` is `LoadReads` and `LoadShows`, with the tasks
it `got` in between. A column of the board is an object that a drag changes in place, and
that the copies edits go back to (`kept`, the `initialActiveBoard` of
the code) share: hence columns have an identity, `by`, and `Drag` changes
`kept` as well. `table` is what the service stores and `before` what an old read may find. A
window covers the board, and so does the `spinner`; otherwise the user need not wait. A
window that is cancelled is one that was not opened, and another try after an error
is a gesture of its own. A task just created has the empty ID until the next load (`NoID`), and is shown with an order one beyond its
place; a drag of it splices at a place that is not there, so it stays and `undefined` is moved, which is no task and has no ID
(`UndefinedID`). One board is shown, to the team's admin, and nobody else edits it.

`mishaps` records what has happened that the client does not mend, so that properties can say exactly
after what they are no longer promised; no guard reads it.

| mishap | what happened |
|---|---|
| `overlap` | the user acted while something was under way |
| `late rollback` | after such an overlap, a failed edit went back to the copy it kept |
| `late load` | the board was loaded after an overlap, or after a load that failed or was not made: perhaps between the two calls of a drag |
| `lost answer` | a call was carried out but looked failed, or was sent again |
| `split drag` | the second call of a drag failed before the first was answered |
| `no load`, `no cookie` | a load failed, or did not start because the cookie was gone |
| `old read` | a load found a task as it was before its last change |
| `toggle` | a subtask was checked outside the inbox |
| `numbering` | an edit, a deletion or half a drag left a column's orders with gaps or repeats |

History variables: `versions` (every item a key has had, which old reads choose from),
`wrote`, `written`, `stored` (which request changed what). No guard reads the
last three, save that `Applied` in `TaskService` reads `written` to know whether DynamoDB
has seen a transaction before.

### The environment

DynamoDB is outside the repository; it is modelled by how the services use it.

* *Old reads.* No accessor asks for a consistent read, so under `EventualReads`
  GetItem and Query choose among all versions of an item. In the user table an item
  never changes, so the choice is between the item and none.
* *Failing calls.* Any call may fail for good: 500.
* *Lost answers.* A write may be applied and its answer lost (`PutUnanswered`,
  `WriteUnanswered`, `InsertUnanswered`). The SDK's standard retryer then sends it
  again. A PutItem or DeleteItem is made anew and its condition tested anew; a
  transaction carries a token (the SDK fills in `ClientRequestToken`) by which
  DynamoDB recognises it and answers without applying it again. The SDK tries three times; the
  models allow any number, which includes three.
* *Signatures* are taken to be unforgeable; a token that has expired is one that does not
  decode. Items stay far below DynamoDB's size limits.

Left out of the models: wording of errors, logging, lengths and alphabets of texts (a body
is `valid`, `invalid` or `garbled`), HTTP methods without a handler.

## Runs

| run | instance | what it shows |
|---|---|---|
| `TeamService` | an admin and a member, 1 team, 3 board IDs, limit 2, 3 requests, old reads | type invariant; the four legality invariants over every version ever stored; answers are versions; 4xx wrote nothing; a member's write keeps the boards; `TeamStore` is implemented |
| `TeamServiceLive` | one user, 2 board IDs, 3 requests, fair | every request is answered or caught in `BoardDeleter`'s loop |
| `TeamDelete` | one user, 3 requests, consistent reads | **violated**: finding 1 |
| `TeamCreatedTwice` | same | **violated**: finding 2 |
| `TeamSyncReverts` | two users, 3 requests, consistent reads | **violated**: finding 3 |
| `TaskService` | 1 team, 2 tasks, 2 boards, 3 requests, old reads, failures and lost answers | type invariant; success is stored; an answer shows stored tasks of one board; `TaskStore` is implemented |
| `TaskServiceLive` | 2 teams, 2 requests, columns 0 and 4, bodies without a board, fair | every request is answered; a query shows the user's own team; `TaskStore` is implemented for such bodies, too |
| `TaskRefused` | 2 requests, lost answers | **violated**: finding 4 |
| `UserService` | 2 names, 2 passwords, 4 requests, late reads | names are registered once, by the request whose user is stored, and cookies tell the truth, also when they are used as invites |
| `GoTeam` | 2 users, 3 user requests, 2 team requests, old reads | each service keeps what the other one assumes; members are users of their team; an invite is for a team that is stored and whose admin is registered |
| `BoardClient` | 2 tasks, 2 columns, 2 contents, 2 gestures | the board is shown as it is stored when all is answered; no task twice; a drag moves the stored task that was dragged; the spinner stops; the calls are steps of `TaskStore` |
| `BoardDragError` | same | **violated**: finding 5 |

*Why these bounds are enough to be interesting.* Three requests are two that race and one
that set the scene (a GET that creates the team, a POST that stores the task); a race needs two.
The limit of boards is 2 so that the board GET creates and two racing POSTs pass it.
Three board IDs leave one to collide and one to be free. `TaskService` has two IDs,
so three tries must collide, and a batch of two; two boards make an edit
change something and a query leave something out. Column 4, out of range, the body without a board, and the second team, which the
403 needs, are in the runs with two requests. In `UserService` four
requests are an admin, an invited user and a rival for each of two registrations or logins.
Three user requests in `GoTeam` are the admin, the invited member and a rival, and two
team requests the admin's and the member's. Two gestures in `BoardClient` are one that
is overtaken by another, or that leaves the board in a state that the other one finds; with two tasks a column can
hold one to be pushed aside, and the board begins in every state that drags can have left it
in. A third gesture or task takes it out of TLC's reach (2.9 million states as it is; its deepest behaviour has 18). Requests are sets of size 2 to 4, no
counter is unbounded (`tries` ends at 3), and no run has a state constraint.
In `BoardClient` nothing is counted but the orders, which end at `MaxOrder`, as its type invariant shows.

*Every exclusion is needed.* Allowing any one of the mishaps that the properties of `BoardClient` exclude,
and only that one, makes TLC find `QuietShowsStored` violated (save for `numbering`, which it allows, and
`late rollback` and `late load`, which need another one first), `ShownOnce` for `late rollback`, and `DragMovesTheDragged` for
`numbering`, `old read` and `lost answer`. With three gestures and one content TLC finds it violated for `late load`, `late rollback` and `toggle`
as well: a load that is made for one drag, say, reads between the two calls of another, shows orders with gaps, and a third drag takes
them for places. (A `split drag` never comes without `numbering`.)

*Symmetry* is used in safety runs only: board IDs, task IDs, contents, requests and gestures are told apart by
nothing in the code. Users are permuted only where every one may be an admin.

*Deadlock* is not checked because a request is served once: when all have been answered,
or spin, the instance stops. That nobody waits for anybody is what the liveness runs say.

*One-shot requests.* A request that pauses between its read and its put holds a copy as
old as an old read could return, so old reads matter mostly for what is *answered*
and for a handler that reads once more in its retry loop.

*Fairness.* `WF_vars(Serves(r))`: a goroutine that can go on does, and a call returns in the
end, because the SDK gives up after three attempts. Nothing is assumed of arrivals or
of lost answers. `BoardClient` states no fairness: the browser waits for an answer without a limit. Weak fairness is enough, since a request at a call always has an enabled
step until it takes one; `PutUnanswered` leaves it there.

Each property of a passing run has a mutant in `PROJECT.json`: an operator of the
module, marked *mutant*, that changes one definition the way a plausible bug would
(a dropped condition, `>` for `>=`, a loop counter that is not incremented, an error that is not
looked at) and makes TLC find the property violated.

## Findings

1. **`TeamDelete`**: DELETE /board works only on a team's only board. With several, the loop
   in `pkg/db/teamtbl/deleteBoard.go:65` stops before the last, which is "not found", and at a
   match on an earlier one it steps `i` back (line 68) and finds the same board forever: the goroutine spins.
2. **`TeamCreatedTwice`**: of two first GET /team requests one loses the race, draws another
   *board* ID three times though it is the *team* that exists, and answers 201
   with a team that is not stored (`internal/teamsvc/teamapi/get.go:94`). A lost answer to the
   insert has the same effect with a single request.
3. **`TeamSyncReverts`**: the synchronisation that "is safe" (`get.go:123`) puts
   the whole item it read and undoes what the admin did to the boards meanwhile. Any two
   edits of a team can undo each other so; `TeamStore` promises no more, and says so.
4. **`TaskRefused`**: DELETE /task and PATCH /tasks send 403 to a user who is not an
   admin and then make the change (`taskapi/delete.go:74`, `tasksapi/patch.go:88`).
5. **`BoardDragError`**: a drag between two columns sends two calls at once and awaits the second first. If that one
   fails, "the state will be reset" (`web/src/components/Home/Board/Board.jsx:53`): the board is loaded while the first call
   is still under way (line 75), and then shows a board that is no longer stored.

The models also show what no line of the repository speaks against.

* A POST /task whose answer is lost
  finds its own task under the ID, takes it for a collision and inserts it again (up to three tasks, which
  `SuccessIsStored` allows); a DELETE /task whose answer is lost answers 404, and the client then shows the deleted
  task again; a registration whose answer is lost is told that the name is taken. If the task of such a POST is deleted before
  it is sent again, it comes back under the same ID.
* A put of a team whose answer is lost is sent again, and undoes an edit that was made in between.
* Whoever registers with an auth cookie for an invite is a member of a team that its admin need not have created
  yet: GET /team answers 401 (`teamapi/get.go:75`) until they have.
* PATCH /tasks with a missing task answers 500, for DynamoDB reports a cancelled transaction
  by another error than `tasktbl/updateMulti.go:49` looks for.
* PATCH /task checks titles only and stores any column number, with which the client indexes
  its four columns (`web/src/App.jsx:86`). Checking a subtask sends no column, which the service stores
  as 0: the task is in the inbox when it is next loaded. Editing a task sends no order, which becomes 0.
* The index of a dragged task is its stored order. After a deletion, an edit or half of a drag, orders are not
  places any more, and a drag moves another task, or an undefined one. A task just created has no place of its own yet: a drag
  leaves it where it is, moves `undefined`, and the call is refused.
* A failed edit goes back to a copy whose columns a drag has changed in place since: a task is then
  shown twice or not at all, until the next load.
* A drag that fails when the cookie has gone starts the spinner and no load: it stays.

## Proofs

TLAPS checks the following for all sets of users, boards, names and requests and every
limit of boards, from the named assumptions of the modules only (`TeamDataAssumption`,
`TeamServiceAssumption`, `TaskDataAssumption`, `TaskServiceAssumption`, `UserServiceAssumption`, `GoTeamAssumption`,
`BoardClientAssumption`; TLC evaluates them in the runs).

* `TeamData_proofs`: `EditsAreLegal`, every edit of a legal team is a legal team, by a
  lemma for each edit on length, distinct IDs, distinct members and the admin. It says
  nothing of when the edited version was read: that is why a stale copy cannot break legality.
* `TeamService_proofs`: the type invariant, `BoardLimitKept`, `BoardIDsUnique`, `MembersUnique`,
  `AdminKept`, `GetAnswersAVersion`, `RejectedWritesNothing`, `MembersKeepBoards`, and `Refinement`:
  `Spec => Store!Spec`. Also, for the composition: whoever is listed in a version of a team has sent a
  request with claims to it, and a team once stored stays.
* `TaskService_proofs`: the type invariant, `SuccessIsStored`, `GetShowsOneBoard` and `Refinement`.
* `UserService_proofs`: the type invariant, `CookiesMatchUsers`, `AdminsOwnTeams`,
  `RegisteredIsStored`, `UsersKept`.
* `GoTeam_proofs`: `UserServiceKept`, `CookiesAreClaims`, `MembersAreUsers`, `InvitesLeadToTeams`.
* `BoardClient_proofs`: the type invariant, which bounds the columns and their orders, `StoreStepsOnly`, `ShownOnce`, `SpinnerStops`.
* `BoardQuiet_proofs`: `QuietShowsStored` and `DragMovesTheDragged`.

So every invariant and every action property that a passing run checks is a theorem; what is left to TLC is at the end of this section.

*The argument for the team service.* None of the invariants is inductive, since each speaks
of what is stored and the danger is in what is about to be. `IInv` adds `RequestOK`: a request at its put
holds a copy that is one edit of a version (or a new team, at `"insert"`), is an
admin unless it is a GET, and has written nothing before its first put; and `StoreInv`: what the table
holds is a version, and all versions are legal. `versions` only grows, so what `RequestOK` says
survives whatever other requests write. A put then adds one edit of a legal
version, which is legal by `EditsAreLegal`, and is a step of `TeamStore`
by the same fact: `Revise` for an edit, `Create` for an insert, whose condition says that there was no
item. Steps that leave the table alone map to stuttering.

*The argument for the user service.* `IInv` adds that an invite is for the team of somebody
registered, and that every stored user's team is named after somebody registered (`TeamsOfAdmins`): so are then the teams of all
cookies, and whichever kind of token a request carries, the name of its team is taken by the time it inserts its user (`RequestOK`).
So an invited user never has the name of the team's admin; hence
a user is an admin exactly if the team has their name. Users are only inserted, under a name
that is free, so a cookie that was true stays true. `RegisteredIsStored` also counts the requests that have stored their user and were told
something else: an answer was lost, or the cookie failed to encode.

*The argument for the task service.* The invariant says what is staged: a request in its call has staged what its
operation gives it (a task under an ID it drew, its whole batch, or that there be nothing), so a write that is applied is what was
asked for. Edits are made in full or not at all, and a POST has stored its task under at most as many IDs
as it drew; the one it has staged counts, since a lost answer leaves it in its call. The table holds versions, and
versions only grow, so an answer keeps showing stored tasks. A batch sent again is
recognised because its request has written.

*The argument for the composition.* Each service is proved under an assumption about the other: that an invite is for the
team of a registered admin, that the claims of a cookie are those of a member or an admin. Neither can be
proved first. `U!IInv /\ ClaimsIssued` (requests to the team service carry cookies that
the user service issued) is inductive for both together: an invite needs a request of an admin, whose cookie is issued, and a
cookie, once issued, stands. So every step of `GoTeam` is a step of the user service or none, and one of the
team service or none, and the theorems about each carry over, by instances of their proof modules
whose assumptions are discharged. `MembersAreUsers` then follows from what team requests carry, and
`InvitesLeadToTeams` because GET /team has found the team, has put it, or has failed to because it was there (`InvitesStored`), and a
stored team stays. A 201 may be about a board that is not in it (finding 2), but never about no team.

*The argument for the spinner.* Only `DragAnswered` starts it, and then starts a load unless there is no cookie; only
the ends of a load take a gesture out of loading, and each of them stops the spinner.

*The argument for the columns.* An order must stay below `MaxOrder`, and a drag numbers a whole column, so the
length of a column has to be bounded, though tasks that were made up, or are shown in the wrong place, come and go. `TypeInv` says
that no column is longer than there are tasks and gestures that have begun (`Room`): each gesture changes the board once, and
adds at most one task to a column. What the client goes back to was shown once, and what it loads has no more tasks than there are.

*The argument for `ShownOnce`.* The danger is not in what is shown but in what is kept, whose columns drags change in place. `OnceInv`
adds that what an edit keeps shows each task once as long as the user has waited; a board
kept during an overlap may not, and going back to it is what the property excludes. Each new board is compared with the one before by a
map of places (`ComesFrom`): splicing moves places, none of them to two.

*The argument for `QuietShowsStored`.* Without the mishaps that it excludes the user waits, so one gesture is under way
(`QuietInv`). The invariant says for each stage of it what is shown and stored (`Waits`): an edit that is sent keeps a board as it is
stored, and shows the table as its call will make it; a drag may show anything, since it loads the board when it is
answered; a load has read what is stored. That `overlap` is missing from `mishaps` is thus used as a fact about all gestures at once.

*The argument for `DragMovesTheDragged`.* A drag takes the task whose place is the order of the one that was dragged. So the
board must *aim* (`Aims`): the order of a task that has an ID of the service is its place. Tasks without one, just created or
`undefined`, may have any order.
Drags, checked subtasks and new tasks keep that on the board whatever else is under way (`AimInv`), but a load brings in the orders
that are stored. Hence the second half (`DenseInv`): as long as nothing has happened at all, the stored orders
of a column are 0, 1, 2 and so on, but while a drag is stored, and then what its calls have still to put makes the table what is
shown (`DragSent`). A drag whose second call fails before the first is answered, or half of which is refused, leaves gaps, and
those are mishaps that the property excludes. A layout sorted by orders without gaps is numbered by its places
(`DenseStraight`), so what is loaded aims again.

*Induction over numbers* cannot be done with the library's theorems, which take an operator as a parameter; it can with a set of
numbers that contains 0 and the successor of each of its members (`SetInduction` in `BoardColumns_proofs`, from the
well-foundedness of the natural numbers). What `filter` leaves of a column, a recursive function, and the places in a sorted layout are proved so.

*Only model-checked*: liveness (`Served`), which is out of the prover's reach, and the violations.

## Not modelled

* In the web client: the windows for boards, the lists of boards and members, registration and login. Each
  makes one call and shows or loads its result, which `BoardClient` has. One of them cannot work: removing
  a member calls `UserAPI.delete`, which does not exist.
* Other users' edits of the board that is shown: nothing tells a client of them, so it shows them with the next load.
* `pkg/log`, `pkg/assert`, `test/`: output, and code that only tests run. The tests were read
  for what they say of the services.
* Lengths and alphabets of usernames, passwords, names and titles: pure functions of a
  string that only decide between `valid` and `invalid`.
* `vendor/`, `build/`, Makefiles: third-party code and deployment.
* `tasktbl.Retriever`: no handler uses it.
* Deleting a board leaves its tasks behind: no code relates the two tables.

## Plan

Done, in this order: the team service with its store (the richest concurrency), its proofs, the task
service with its store, the user service with its proofs, the composition of user and team service, the
proofs of the task service, the board in the client, the proofs of the composition, the proofs of the board.

What could follow:

1. The task service in the composition: it takes cookies as the team service does, so `ClaimsIssued` extends to it.
2. A second user in `BoardClient`, with properties of what a load may undo; it needs an abstraction of
   contents and orders to stay within TLC's reach.
