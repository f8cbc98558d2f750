---------------------------- MODULE UserService -----------------------------
(***************************************************************************)
(* The user service: POST /register and POST /login, served concurrently   *)
(* over one DynamoDB table.  Registering without an invite makes a user    *)
(* the admin of a team that is named after them; with the invite that      *)
(* GET /team gives to an admin, or with an auth cookie in its place, it    *)
(* makes them a member of the team the token names.  The auth cookie that both answer with is all the other services  *)
(* know of a user: they read its claims and never the user table.          *)
(*                                                                         *)
(* A request is a process with one call to DynamoDB.  The call may fail; a *)
(* PutItem may be applied and its answer lost, and the SDK sends it again; *)
(* GetItem, under EventualReads, may not see an item that is there.        *)
(***************************************************************************)
EXTENDS Naturals

CONSTANTS Users,         \* usernames that pass UsernameValidator
          Passwords,     \* passwords that pass PasswordValidator
          Requests,      \* the requests, each served once
          EventualReads, \* is GetItem allowed to miss an item?
          NoUser,        \* no item is stored under a username
          NoReq,         \* no request has been let in
          NoInvite,      \* a request without an invite token
          NoAuth         \* an answer without an auth cookie

VARIABLES users,   \* the user table
          invites, \* the teams an invite token was issued for
          req,     \* what each request that was let in asks for
          pc,      \* where its handler is
          resp,    \* what it was answered
          auth,    \* the claims of the cookie it was answered with
          stored   \* did it store a user? (history variable)
store == << users, invites, stored >>
vars == << users, invites, req, pc, resp, auth, stored >>

\* bcrypt's hash is as good as the password: Compare tells passwords apart.
User == [Password : Passwords, IsAdmin : BOOLEAN, TeamID : Users]
Auth == [Username : Users, IsAdmin : BOOLEAN, TeamID : Users]

RegisterReqs == [op : {"register"}, Username : Users, Password : Passwords,
                 invite : Users \cup {NoInvite}]
LoginReqs == [op : {"login"}, Username : Users, Password : Passwords]
Reqs == RegisterReqs \cup LoginReqs

ASSUME UserServiceAssumption ==
    /\ EventualReads \in BOOLEAN
    /\ NoUser \notin User /\ NoReq \notin Reqs
    /\ NoInvite \notin Users /\ NoAuth \notin Auth

\* "ok" is 200 with a cookie; "invalid" and "taken" are 400; "error" is 500
\* and "registered" is the 500 that asks to log in.
Answers == {"ok", "invalid", "taken", "error", "registered"}

Init ==
    /\ users = [u \in Users |-> NoUser]
    /\ invites = {}
    /\ req = [r \in Requests |-> NoReq]
    /\ pc = [r \in Requests |-> "idle"]
    /\ resp = [r \in Requests |-> "none"]
    /\ auth = [r \in Requests |-> NoAuth]
    /\ stored = [r \in Requests |-> FALSE]

Answered(r, answer) ==
    /\ pc' = [pc EXCEPT ![r] = "done"]
    /\ resp' = [resp EXCEPT ![r] = answer]

Rejected(r, answer) ==
    /\ pc[r] = "idle"
    /\ Answered(r, answer)
    /\ UNCHANGED << store, req, auth >>

LetIn(r, request, label) ==
    /\ pc[r] = "idle"
    /\ req' = [req EXCEPT ![r] = request]
    /\ pc' = [pc EXCEPT ![r] = label]
    /\ UNCHANGED << store, resp, auth >>

\* The handler goes on to answer with a cookie, which may fail to encode.
SignsIn(r, u, user, otherwise) ==
    \/ /\ auth' = [auth EXCEPT ![r] = [Username |-> u, IsAdmin |-> user.IsAdmin,
                                       TeamID |-> user.TeamID]]
       /\ Answered(r, "ok")
    \/ Answered(r, otherwise) /\ UNCHANGED auth

(***************************************************************************)
(* POST /register.                                                         *)
(***************************************************************************)

\* Mutant: the team is the invite's though there is none.
NewUserByInvite(request) ==
    [Password |-> request.Password, IsAdmin |-> request.invite = NoInvite,
     TeamID |-> request.invite]

\* Mutant: the user is an admin though invited.
NewUserAdmin(request) ==
    [Password |-> request.Password, IsAdmin |-> TRUE,
     TeamID |-> IF request.invite = NoInvite
                THEN request.Username ELSE request.invite]

\* The user a register request is about to insert.
NewUser(request) ==
    [Password |-> request.Password,
     IsAdmin  |-> request.invite = NoInvite,
     TeamID   |-> IF request.invite = NoInvite
                  THEN request.Username ELSE request.invite]

\* Mutant: the invite token is not verified.
RegisterArrivesUninvited(r) ==
    \/ \E answer \in {"error", "invalid"} : Rejected(r, answer)
    \/ \E request \in RegisterReqs : LetIn(r, request, "insert")

\* The teams that a token may be for.  InviteDecoder takes any token under
\* the services' one key that names a team: an invite, or an auth cookie.
TokenTeams ==
    invites \cup {auth[q].TeamID : q \in {r \in Requests : auth[r] # NoAuth}}

\* A body that does not decode, or a failing hash, is an error; a body or
\* a token that does not validate (an invite expires after an hour) is not
\* let in.
RegisterArrives(r) ==
    \/ \E answer \in {"error", "invalid"} : Rejected(r, answer)
    \/ \E request \in RegisterReqs :
          /\ request.invite \in TokenTeams \cup {NoInvite}
          /\ LetIn(r, request, "insert")

AlwaysFree(u) == TRUE \* mutant: no ConditionExpression

\* Inserter puts under attribute_not_exists(Username).
IsFree(u) == users[u] = NoUser

InsertsUser(r) ==
    /\ pc[r] = "insert"
    /\ IsFree(req[r].Username)
    /\ users' = [users EXCEPT ![req[r].Username] = NewUser(req[r])]
    /\ stored' = [stored EXCEPT ![r] = TRUE]
    /\ UNCHANGED << invites, req >>

\* The user is stored, the answer is lost, the SDK will put the item again.
InsertUnanswered(r) == InsertsUser(r) /\ UNCHANGED << pc, resp, auth >>

InsertAnswers(r) ==
    InsertsUser(r) /\ SignsIn(r, req[r].Username, NewUser(req[r]), "registered")

\* Mutant: ErrDupKey is not looked at.
InsertDuplicateIgnored(r) ==
    /\ pc[r] = "insert"
    /\ ~IsFree(req[r].Username)
    /\ SignsIn(r, req[r].Username, NewUser(req[r]), "registered")
    /\ UNCHANGED << store, req >>

InsertDuplicate(r) ==
    /\ pc[r] = "insert"
    /\ ~IsFree(req[r].Username)
    /\ Answered(r, "taken")
    /\ UNCHANGED << store, req, auth >>

(***************************************************************************)
(* POST /login.                                                            *)
(***************************************************************************)
LoginArrives(r) ==
    \/ \E answer \in {"error", "invalid"} : Rejected(r, answer)
    \/ \E request \in LoginReqs : LetIn(r, request, "read")

GetItem(u) == IF EventualReads THEN {NoUser, users[u]} ELSE {users[u]}

\* A user is stored once, so an old item is either the user or none.
LoginReads(r) ==
    /\ pc[r] = "read"
    /\ \E user \in GetItem(req[r].Username) :
          IF user # NoUser /\ user.Password = req[r].Password
          THEN SignsIn(r, req[r].Username, user, "error")
          ELSE Answered(r, "invalid") /\ UNCHANGED auth
    /\ UNCHANGED << store, req >>

\* The call, or the comparison of the passwords, fails for good.
CallFails(r) ==
    /\ pc[r] \in {"insert", "read"}
    /\ Answered(r, "error")
    /\ UNCHANGED << store, req, auth >>

(***************************************************************************)
(* The service, and GET /team of the team service, which issues an invite  *)
(* for the team of an admin.                                               *)
(***************************************************************************)
Invites(t) ==
    /\ \E r \in Requests :
          auth[r] # NoAuth /\ auth[r].IsAdmin /\ auth[r].TeamID = t
    /\ invites' = invites \cup {t}
    /\ UNCHANGED << users, req, pc, resp, auth, stored >>

Arrival(r) == RegisterArrives(r) \/ LoginArrives(r)

Serves(r) ==
    \/ InsertAnswers(r) \/ InsertDuplicate(r)
    \/ LoginReads(r) \/ CallFails(r)

Next ==
    \/ \E r \in Requests : Arrival(r) \/ Serves(r) \/ InsertUnanswered(r)
    \/ \E t \in Users : Invites(t)

Spec == Init /\ [][Next]_vars

-----------------------------------------------------------------------------
(***************************************************************************)
(* Properties.                                                             *)
(***************************************************************************)

\* Every variable has its type.
TypeOK ==
    /\ users \in [Users -> User \cup {NoUser}]
    /\ invites \subseteq Users
    /\ req \in [Requests -> Reqs \cup {NoReq}]
    /\ pc \in [Requests -> {"idle", "insert", "read", "done"}]
    /\ resp \in [Requests -> Answers \cup {"none"}]
    /\ auth \in [Requests -> Auth \cup {NoAuth}]
    /\ stored \in [Requests -> BOOLEAN]

\* The claims of every cookie that was ever issued are those of the user in
\* the table, whoever else has tried to register the name: the other
\* services may go by the cookie alone.
CookiesMatchUsers ==
    \A r \in Requests :
        auth[r] # NoAuth =>
            LET user == users[auth[r].Username] IN
            /\ user # NoUser
            /\ user.IsAdmin = auth[r].IsAdmin /\ user.TeamID = auth[r].TeamID
            /\ user.Password = req[r].Password

\* A user is the admin of the team that is named after them or a plain
\* member of another one: nobody is let into the team of their own name by
\* an invite, nor admin of a team of another.
AdminsOwnTeams ==
    \A u \in Users : users[u] # NoUser => (users[u].IsAdmin <=> users[u].TeamID = u)

\* Whoever is told to be registered is, and so is whoever was stored and is
\* told, after a lost answer, that the name is taken or that something went
\* wrong: at most one request per name, and the user stored is the one it
\* asked for, so that its password logs in.
RegisteredIsStored ==
    LET registered == {r \in Requests :
                          /\ req[r] \in RegisterReqs
                          /\ stored[r] \/ resp[r] \in {"ok", "registered"}}
    IN  /\ \A r \in registered : users[req[r].Username] = NewUser(req[r])
        /\ \A r, s \in registered :
              req[r].Username = req[s].Username => r = s

\* A user, once stored, is never changed.
UsersKept ==
    [][\A u \in Users : users[u] # NoUser => users'[u] = users[u]]_vars

(***************************************************************************)
(* The inductive invariant behind the safety properties.                   *)
(***************************************************************************)

\* An invite is for the team of somebody registered, and so is every user,
\* and with them every cookie.
TeamsOfAdmins ==
    /\ \A t \in invites : users[t] # NoUser
    /\ \A u \in Users : users[u] # NoUser => users[users[u].TeamID] # NoUser

\* A request that was let in asks for what its handler is about to do; the
\* name of the team that its token is for is taken when it comes to insert
\* its user.  It has not been answered, nor stored before it is let in.
RequestOK(r) ==
    /\ pc[r] = "insert" => req[r] \in RegisterReqs
    /\ pc[r] = "read" => req[r] \in LoginReqs
    /\ req[r] \in RegisterReqs =>
          req[r].invite = NoInvite \/ users[req[r].invite] # NoUser
    /\ pc[r] # "done" => resp[r] = "none" /\ auth[r] = NoAuth
    /\ pc[r] = "idle" => ~stored[r]

IInv ==
    /\ TypeOK
    /\ CookiesMatchUsers
    /\ AdminsOwnTeams
    /\ RegisteredIsStored
    /\ TeamsOfAdmins
    /\ \A r \in Requests : RequestOK(r)

=============================================================================
