------------------------- MODULE UserService_proofs -------------------------
(***************************************************************************)
(* IInv is an invariant of UserService; the safety properties follow.      *)
(*                                                                         *)
(* The step of a request either lets the request in, or stores its user    *)
(* and perhaps answers it, or only answers it, or reads a user and signs   *)
(* it in; each of these is a lemma.                                        *)
(***************************************************************************)
EXTENDS UserService, TLAPS

\* The item a register request inserts is one of the user table's.
LEMMA NewUserType ==
    ASSUME NEW request \in RegisterReqs
    PROVE  /\ NewUser(request) \in User
           /\ NewUser(request) # NoUser
<1>1. /\ request.Password \in Passwords /\ request.Username \in Users
      /\ request.invite \in Users \cup {NoInvite}
  BY DEF RegisterReqs
<1>2. NewUser(request) \in User
  BY <1>1 DEF NewUser, User
<1> QED
  BY <1>2, UserServiceAssumption

\* The two kinds of requests are told apart.
LEMMA RequestKinds ==
    /\ RegisterReqs \subseteq Reqs /\ LoginReqs \subseteq Reqs
    /\ \A q \in RegisterReqs : q \notin LoginReqs
    /\ NoReq \notin RegisterReqs
BY UserServiceAssumption DEF Reqs, RegisterReqs, LoginReqs

\* The service starts in a state that satisfies the invariant.
LEMMA InitInv == Init => IInv
BY RequestKinds
   DEF Init, IInv, TypeOK, CookiesMatchUsers, AdminsOwnTeams, RegisteredIsStored,
       TeamsOfAdmins, RequestOK

\* A request that is rejected on arrival only gets its answer.
LEMMA RejectedStep ==
    ASSUME IInv, NEW r \in Requests, NEW answer \in {"error", "invalid"},
           Rejected(r, answer)
    PROVE  IInv'
<1>1. /\ UNCHANGED << users, invites, stored, req, auth >>
      /\ pc' = [pc EXCEPT ![r] = "done"] /\ resp' = [resp EXCEPT ![r] = answer]
  BY DEF Rejected, Answered, store
<1>2. TypeOK'
  BY <1>1 DEF IInv, TypeOK, Answers
<1>3. CookiesMatchUsers' /\ AdminsOwnTeams' /\ TeamsOfAdmins'
  BY <1>1 DEF IInv, CookiesMatchUsers, AdminsOwnTeams, TeamsOfAdmins
<1>4. RegisteredIsStored'
  BY <1>1 DEF IInv, TypeOK, RegisteredIsStored
<1>5. \A q \in Requests : RequestOK(q)'
  BY <1>1 DEF IInv, TypeOK, RequestOK
<1> QED
  BY <1>2, <1>3, <1>4, <1>5 DEF IInv

\* A token, be it an invite or a cookie, is for the team of somebody who is
\* registered.
LEMMA TokensOfAdmins ==
    ASSUME IInv, NEW t \in TokenTeams
    PROVE  users[t] # NoUser
<1>1. CASE t \in invites
  BY <1>1 DEF IInv, TeamsOfAdmins
<1>2. ASSUME NEW r \in Requests, auth[r] # NoAuth, t = auth[r].TeamID
      PROVE  users[t] # NoUser
  <2>1. auth[r].Username \in Users
    BY <1>2 DEF IInv, TypeOK, Auth
  <2>2. users[auth[r].Username] # NoUser /\ users[auth[r].Username].TeamID = t
    BY <1>2 DEF IInv, CookiesMatchUsers
  <2> QED
    BY <2>1, <2>2 DEF IInv, TeamsOfAdmins
<1> QED
  BY <1>1, <1>2 DEF TokenTeams

\* A request that is let in waits for its call.
LEMMA LetInStep ==
    ASSUME IInv, NEW r \in Requests, NEW request \in Reqs, NEW label,
           LetIn(r, request, label),
           \/ /\ label = "insert" /\ request \in RegisterReqs
              /\ request.invite \in TokenTeams \cup {NoInvite}
           \/ label = "read" /\ request \in LoginReqs
    PROVE  IInv'
<1>1. /\ pc[r] = "idle"
      /\ UNCHANGED << users, invites, stored, resp, auth >>
      /\ pc' = [pc EXCEPT ![r] = label] /\ req' = [req EXCEPT ![r] = request]
  BY DEF LetIn, store
<1>2. resp[r] = "none" /\ auth[r] = NoAuth /\ ~stored[r]
  BY <1>1 DEF IInv, RequestOK
<1>3. TypeOK'
  BY <1>1 DEF IInv, TypeOK
<1>4. AdminsOwnTeams' /\ TeamsOfAdmins'
  BY <1>1 DEF IInv, AdminsOwnTeams, TeamsOfAdmins
<1>5. CookiesMatchUsers'
  BY <1>1, <1>2 DEF IInv, TypeOK, CookiesMatchUsers
<1>6. RegisteredIsStored'
  BY <1>1, <1>2 DEF IInv, TypeOK, RegisteredIsStored
<1>7. request \in RegisterReqs =>
        request.invite = NoInvite \/ users[request.invite] # NoUser
  BY TokensOfAdmins, RequestKinds
<1>8. \A q \in Requests : RequestOK(q)'
  BY <1>1, <1>2, <1>7, RequestKinds DEF IInv, TypeOK, RequestOK
<1> QED
  BY <1>3, <1>4, <1>5, <1>6, <1>8 DEF IInv

\* Storing a user under a free name makes a legal user, and leaves every
\* cookie and everybody registered before as they were; nobody was
\* registered under the name.
LEMMA InsertsUserStep ==
    ASSUME IInv, NEW r \in Requests, InsertsUser(r)
    PROVE  /\ users' \in [Users -> User \cup {NoUser}]
           /\ users'[req[r].Username] = NewUser(req[r])
           /\ \A u \in Users : users[u] # NoUser => users'[u] = users[u]
           /\ AdminsOwnTeams' /\ TeamsOfAdmins'
           /\ req[r] \in RegisterReqs
           /\ \A q \in Requests : q # r => stored'[q] = stored[q]
           /\ \A q \in Requests :
                 /\ req[q] \in RegisterReqs
                 /\ stored[q] \/ resp[q] \in {"ok", "registered"}
                 => /\ users'[req[q].Username] = NewUser(req[q])
                    /\ req[q].Username # req[r].Username
           /\ \A q \in Requests :
                 req[q] \in RegisterReqs /\ req[q].invite # NoInvite
                    /\ users[req[q].invite] # NoUser
                    => users'[req[q].invite] # NoUser
<1> DEFINE u == req[r].Username
<1>1. /\ pc[r] = "insert" /\ users[u] = NoUser
      /\ users' = [users EXCEPT ![u] = NewUser(req[r])]
      /\ stored' = [stored EXCEPT ![r] = TRUE]
      /\ UNCHANGED << invites, req >>
  BY DEF InsertsUser, IsFree
<1>2. /\ req[r] \in RegisterReqs /\ u \in Users
      /\ req[r].invite = NoInvite \/ users[req[r].invite] # NoUser
      /\ req[r].invite \in Users \cup {NoInvite}
  BY <1>1 DEF IInv, RequestOK, RegisterReqs
<1>3. NewUser(req[r]) \in User /\ NewUser(req[r]) # NoUser
  BY <1>2, NewUserType
<1>4. /\ users' \in [Users -> User \cup {NoUser}]
      /\ users'[u] = NewUser(req[r])
      /\ \A v \in Users : v # u => users'[v] = users[v]
      /\ \A v \in Users : users[v] # NoUser => users'[v] = users[v]
  BY <1>1, <1>2, <1>3 DEF IInv, TypeOK
<1>5. req[r].invite # NoInvite => req[r].invite # u /\ req[r].invite \in Users
  BY <1>1, <1>2
<1>6. NewUser(req[r]).IsAdmin <=> NewUser(req[r]).TeamID = u
  BY <1>5 DEF NewUser
<1>7. AdminsOwnTeams'
  BY <1>1, <1>4, <1>6 DEF IInv, AdminsOwnTeams
<1>8. users'[NewUser(req[r]).TeamID] # NoUser
  BY <1>2, <1>3, <1>4, <1>5 DEF NewUser
<1>9. \A v \in Users : users[v] # NoUser => users[v].TeamID \in Users
  BY DEF IInv, TypeOK, User
<1>10. TeamsOfAdmins'
  <2>1. \A t \in invites' : users'[t] # NoUser
    BY <1>1, <1>4 DEF IInv, TypeOK, TeamsOfAdmins
  <2>2. ASSUME NEW v \in Users, users'[v] # NoUser
        PROVE  users'[users'[v].TeamID] # NoUser
    <3>1. CASE v = u
      BY <3>1, <1>4, <1>8
    <3>2. CASE v # u
      BY <2>2, <3>2, <1>4, <1>9 DEF IInv, TeamsOfAdmins
    <3> QED
      BY <3>1, <3>2
  <2> QED
    BY <2>1, <2>2 DEF TeamsOfAdmins
<1>11. ASSUME NEW q \in Requests, req[q] \in RegisterReqs,
              stored[q] \/ resp[q] \in {"ok", "registered"}
       PROVE  /\ users'[req[q].Username] = NewUser(req[q])
              /\ req[q].Username # u
  <2>1. users[req[q].Username] = NewUser(req[q])
    BY <1>11 DEF IInv, RegisteredIsStored
  <2>2. NewUser(req[q]) # NoUser /\ req[q].Username \in Users
    BY <1>11, NewUserType DEF RegisterReqs
  <2> QED
    BY <1>1, <1>4, <2>1, <2>2
<1>12. \A q \in Requests : q # r => stored'[q] = stored[q]
  BY <1>1 DEF IInv, TypeOK
<1>13. \A q \in Requests :
          req[q] \in RegisterReqs /\ req[q].invite # NoInvite
             /\ users[req[q].invite] # NoUser
             => users'[req[q].invite] # NoUser
  BY <1>4 DEF RegisterReqs
<1> QED
  BY <1>2, <1>4, <1>7, <1>10, <1>11, <1>12, <1>13

\* So among the requests that registered there is one more, for a name that
\* none of them had.
LEMMA RegisteredStep ==
    ASSUME IInv, NEW r \in Requests, InsertsUser(r),
           \A q \in Requests : q # r => resp'[q] = resp[q]
    PROVE  RegisteredIsStored'
<1>1. /\ req' = req
      /\ \A q \in Requests : q # r => stored'[q] = stored[q] /\ resp'[q] = resp[q]
      /\ users'[req[r].Username] = NewUser(req[r])
  BY InsertsUserStep DEF InsertsUser
<1>2. \A q \in Requests :
        /\ req[q] \in RegisterReqs
        /\ stored[q] \/ resp[q] \in {"ok", "registered"}
        => /\ users'[req[q].Username] = NewUser(req[q])
           /\ req[q].Username # req[r].Username
  BY InsertsUserStep
<1>3. \A q, s \in Requests :
        /\ req[q] \in RegisterReqs
        /\ stored[q] \/ resp[q] \in {"ok", "registered"}
        /\ req[s] \in RegisterReqs
        /\ stored[s] \/ resp[s] \in {"ok", "registered"}
        /\ req[q].Username = req[s].Username
        => q = s
  BY DEF IInv, RegisteredIsStored
<1>4. \A q \in Requests : NewUser(req[q])' = NewUser(req[q])
  BY <1>1 DEF NewUser
<1> QED
  BY <1>1, <1>2, <1>3, <1>4 DEF RegisteredIsStored

\* A user whose insertion was not answered is stored all the same.
LEMMA InsertUnansweredStep ==
    ASSUME IInv, NEW r \in Requests, InsertUnanswered(r)
    PROVE  IInv'
<1>1. /\ users' \in [Users -> User \cup {NoUser}]
      /\ \A u \in Users : users[u] # NoUser => users'[u] = users[u]
      /\ AdminsOwnTeams' /\ TeamsOfAdmins'
  BY InsertsUserStep DEF InsertUnanswered
<1>2. UNCHANGED << invites, req, pc, resp, auth >>
      /\ stored' = [stored EXCEPT ![r] = TRUE]
  BY DEF InsertUnanswered, InsertsUser
<1>3. TypeOK'
  BY <1>1, <1>2 DEF IInv, TypeOK
<1>4. CookiesMatchUsers'
  BY <1>1, <1>2 DEF IInv, TypeOK, CookiesMatchUsers, Auth
<1>5. RegisteredIsStored'
  BY <1>2, RegisteredStep DEF InsertUnanswered
<1>6. pc[r] = "insert" /\ \A q \in Requests : q # r => stored'[q] = stored[q]
  BY InsertsUserStep DEF InsertUnanswered, InsertsUser
<1>7. ASSUME NEW q \in Requests PROVE RequestOK(q)'
  <2>1. RequestOK(q) /\ (req[q] \in RegisterReqs =>
            req[q].invite = NoInvite \/ users'[req[q].invite] # NoUser)
    BY InsertsUserStep DEF InsertUnanswered, IInv, RequestOK
  <2> QED
    BY <1>2, <1>6, <2>1 DEF RequestOK
<1> QED
  BY <1>1, <1>3, <1>4, <1>5, <1>7 DEF IInv

\* A register request is answered as it stores its user, with a cookie that
\* has the claims of that user or with "registered"; nobody was registered
\* under the name before.
LEMMA InsertAnswersStep ==
    ASSUME IInv, NEW r \in Requests, InsertAnswers(r)
    PROVE  IInv'
<1> DEFINE u == req[r].Username
<1>1. /\ users' \in [Users -> User \cup {NoUser}]
      /\ users'[u] = NewUser(req[r])
      /\ \A v \in Users : users[v] # NoUser => users'[v] = users[v]
      /\ AdminsOwnTeams' /\ TeamsOfAdmins'
      /\ req[r] \in RegisterReqs
  BY InsertsUserStep DEF InsertAnswers
<1>2. /\ UNCHANGED << invites, req >> /\ pc[r] = "insert" /\ users[u] = NoUser
      /\ stored' = [stored EXCEPT ![r] = TRUE]
      /\ SignsIn(r, u, NewUser(req[r]), "registered")
  BY DEF InsertAnswers, InsertsUser, IsFree
<1>3. /\ pc' = [pc EXCEPT ![r] = "done"]
      /\ \/ /\ auth' = [auth EXCEPT ![r] =
                          [Username |-> u, IsAdmin |-> NewUser(req[r]).IsAdmin,
                           TeamID |-> NewUser(req[r]).TeamID]]
            /\ resp' = [resp EXCEPT ![r] = "ok"]
         \/ auth' = auth /\ resp' = [resp EXCEPT ![r] = "registered"]
  BY <1>2 DEF SignsIn, Answered
<1>4. /\ NewUser(req[r]) \in User /\ NewUser(req[r]) # NoUser
      /\ u \in Users /\ NewUser(req[r]).Password = req[r].Password
  BY <1>1, NewUserType DEF RegisterReqs, NewUser
<1>5. [Username |-> u, IsAdmin |-> NewUser(req[r]).IsAdmin,
       TeamID |-> NewUser(req[r]).TeamID] \in Auth
  BY <1>4 DEF Auth, User
<1>6. TypeOK'
  BY <1>1, <1>2, <1>3, <1>5 DEF IInv, TypeOK, Answers
<1>7. auth[r] = NoAuth
  BY <1>2 DEF IInv, RequestOK
<1>8. CookiesMatchUsers'
  <2> SUFFICES ASSUME NEW q \in Requests, auth'[q] # NoAuth
               PROVE  LET user == users'[auth'[q].Username] IN
                      /\ user # NoUser
                      /\ user.IsAdmin = auth'[q].IsAdmin
                      /\ user.TeamID = auth'[q].TeamID
                      /\ user.Password = req'[q].Password
    BY DEF CookiesMatchUsers
  <2>1. CASE q = r
    <3>1. auth'[r] = [Username |-> u, IsAdmin |-> NewUser(req[r]).IsAdmin,
                      TeamID |-> NewUser(req[r]).TeamID]
      BY <1>3, <1>7, <2>1 DEF IInv, TypeOK
    <3> QED
      BY <1>1, <1>2, <1>4, <2>1, <3>1
  <2>2. CASE q # r
    <3>1. auth'[q] = auth[q] /\ auth[q] \in Auth
      BY <1>3, <2>2 DEF IInv, TypeOK
    <3>2. auth[q].Username \in Users
      BY <3>1 DEF Auth
    <3> QED
      BY <1>1, <1>2, <3>1, <3>2 DEF IInv, CookiesMatchUsers
  <2> QED
    BY <2>1, <2>2
<1>9. RegisteredIsStored'
  <2>1. \A q \in Requests : q # r => resp'[q] = resp[q]
    BY <1>3 DEF IInv, TypeOK
  <2> QED
    BY <2>1, RegisteredStep DEF InsertAnswers
<1>10. \A q \in Requests : RequestOK(q)'
  <2>1. ASSUME NEW q \in Requests PROVE RequestOK(q)'
    <3>1. RequestOK(q) /\ (req[q] \in RegisterReqs =>
              req[q].invite = NoInvite \/ users'[req[q].invite] # NoUser)
      BY InsertsUserStep DEF InsertAnswers, IInv, RequestOK
    <3>2. CASE q = r
      BY <1>1, <1>2, <1>3, <3>1, <3>2 DEF IInv, TypeOK, RequestOK
    <3>3. CASE q # r
      BY <1>1, <1>2, <1>3, <3>1, <3>3 DEF IInv, TypeOK, RequestOK
    <3> QED
      BY <3>2, <3>3
  <2> QED
    BY <2>1
<1> QED
  BY <1>1, <1>6, <1>8, <1>9, <1>10 DEF IInv

\* A request that is answered without a cookie, and not told that it is
\* registered, changes nothing else.
LEMMA RefusedStep ==
    ASSUME IInv, NEW r \in Requests, NEW answer \in {"taken", "invalid", "error"},
           Answered(r, answer),
           UNCHANGED << store, req, auth >>
    PROVE  IInv'
<1>1. /\ UNCHANGED << users, invites, stored, req, auth >>
      /\ pc' = [pc EXCEPT ![r] = "done"] /\ resp' = [resp EXCEPT ![r] = answer]
  BY DEF Answered, store
<1>2. TypeOK'
  BY <1>1 DEF IInv, TypeOK, Answers
<1>3. CookiesMatchUsers' /\ AdminsOwnTeams' /\ TeamsOfAdmins'
  BY <1>1 DEF IInv, CookiesMatchUsers, AdminsOwnTeams, TeamsOfAdmins
<1>4. RegisteredIsStored'
  BY <1>1 DEF IInv, TypeOK, RegisteredIsStored
<1>5. \A q \in Requests : RequestOK(q)'
  BY <1>1 DEF IInv, TypeOK, RequestOK
<1> QED
  BY <1>2, <1>3, <1>4, <1>5 DEF IInv

\* A login that finds the user signs them in with the claims it read.
LEMMA LoginReadsStep ==
    ASSUME IInv, NEW r \in Requests, LoginReads(r)
    PROVE  IInv'
<1> DEFINE u == req[r].Username
<1>1. /\ pc[r] = "read" /\ UNCHANGED << users, invites, stored, req >>
  BY DEF LoginReads, store
<1>2. PICK user \in GetItem(u) :
         IF user # NoUser /\ user.Password = req[r].Password
         THEN SignsIn(r, u, user, "error")
         ELSE Answered(r, "invalid") /\ UNCHANGED auth
  BY DEF LoginReads
<1>3. /\ req[r] \in LoginReqs /\ u \in Users
      /\ auth[r] = NoAuth /\ resp[r] = "none"
  BY <1>1 DEF IInv, RequestOK, LoginReqs
<1>4. CASE /\ user # NoUser /\ user.Password = req[r].Password
           /\ auth' = [auth EXCEPT ![r] =
                          [Username |-> u, IsAdmin |-> user.IsAdmin,
                           TeamID |-> user.TeamID]]
           /\ Answered(r, "ok")
  <2> DEFINE claims == [Username |-> u, IsAdmin |-> user.IsAdmin,
                        TeamID |-> user.TeamID]
  <2>1. user = users[u] /\ user \in User
    BY <1>2, <1>3, <1>4 DEF GetItem, IInv, TypeOK
  <2>2. claims \in Auth
    BY <1>3, <2>1 DEF Auth, User
  <2>3. /\ auth'[r] = claims
        /\ \A q \in Requests \ {r} : auth'[q] = auth[q]
        /\ auth' \in [Requests -> Auth \cup {NoAuth}]
    BY <1>4, <2>2 DEF IInv, TypeOK
  <2>4. /\ pc' = [pc EXCEPT ![r] = "done"] /\ resp' = [resp EXCEPT ![r] = "ok"]
    BY <1>4 DEF Answered
  <2>5. TypeOK'
    BY <1>1, <2>3, <2>4 DEF IInv, TypeOK, Answers
  <2>6. AdminsOwnTeams' /\ TeamsOfAdmins'
    BY <1>1 DEF IInv, AdminsOwnTeams, TeamsOfAdmins
  <2> HIDE DEF claims
  <2>7. claims.Username = u /\ claims.IsAdmin = user.IsAdmin
        /\ claims.TeamID = user.TeamID
    BY DEF claims
  <2>8. CookiesMatchUsers'
    BY <1>1, <1>4, <2>1, <2>3, <2>7 DEF IInv, CookiesMatchUsers
  <2>9. RegisteredIsStored'
    BY <1>1, <1>3, <2>4, RequestKinds DEF IInv, TypeOK, RegisteredIsStored
  <2>10. \A q \in Requests : RequestOK(q)'
    BY <1>1, <2>3, <2>4 DEF IInv, TypeOK, RequestOK
  <2> QED
    BY <2>5, <2>6, <2>8, <2>9, <2>10 DEF IInv
<1>5. CASE /\ Answered(r, "error") \/ Answered(r, "invalid")
           /\ UNCHANGED auth
  BY <1>1, <1>5, RefusedStep DEF store
<1> QED
  BY <1>2, <1>4, <1>5 DEF SignsIn

\* An invite is for the team of its admin, who is registered.
LEMMA InvitesStep ==
    ASSUME IInv, NEW t \in Users, Invites(t)
    PROVE  IInv'
<1>1. /\ invites' = invites \cup {t}
      /\ UNCHANGED << users, req, pc, resp, auth, stored >>
  BY DEF Invites
<1>2. PICK r \in Requests : auth[r] # NoAuth /\ auth[r].IsAdmin /\ auth[r].TeamID = t
  BY DEF Invites
<1>3. auth[r].Username \in Users
  BY <1>2 DEF IInv, TypeOK, Auth
<1>4. users[t] # NoUser
  BY <1>2, <1>3 DEF IInv, CookiesMatchUsers, AdminsOwnTeams
<1>5. TypeOK' /\ TeamsOfAdmins'
  BY <1>1, <1>4 DEF IInv, TypeOK, TeamsOfAdmins
<1>6. CookiesMatchUsers' /\ AdminsOwnTeams' /\ RegisteredIsStored'
  BY <1>1 DEF IInv, CookiesMatchUsers, AdminsOwnTeams, RegisteredIsStored, NewUser
<1>7. \A q \in Requests : RequestOK(q)'
  BY <1>1 DEF IInv, RequestOK
<1> QED
  BY <1>5, <1>6, <1>7 DEF IInv

\* A step that changes nothing keeps the invariant.
LEMMA StutterStep == IInv /\ UNCHANGED vars => IInv'
BY DEF vars, store, IInv, TypeOK, CookiesMatchUsers, AdminsOwnTeams,
       RegisteredIsStored, TeamsOfAdmins, RequestOK, NewUser

\* Every step keeps the invariant.
LEMMA NextInv == IInv /\ [Next]_vars => IInv'
<1> SUFFICES ASSUME IInv, [Next]_vars PROVE IInv'
  OBVIOUS
<1>1. CASE UNCHANGED vars
  BY <1>1, StutterStep
<1>2. ASSUME NEW t \in Users, Invites(t) PROVE IInv'
  BY <1>2, InvitesStep
<1>3. ASSUME NEW r \in Requests, RegisterArrives(r) PROVE IInv'
  <2>1. CASE \E answer \in {"error", "invalid"} : Rejected(r, answer)
    BY <2>1, RejectedStep
  <2>2. ASSUME NEW request \in RegisterReqs,
               request.invite \in TokenTeams \cup {NoInvite},
               LetIn(r, request, "insert")
        PROVE  IInv'
    BY <2>2, LetInStep, RequestKinds
  <2> QED
    BY <1>3, <2>1, <2>2 DEF RegisterArrives
<1>4. ASSUME NEW r \in Requests, LoginArrives(r) PROVE IInv'
  <2>1. CASE \E answer \in {"error", "invalid"} : Rejected(r, answer)
    BY <2>1, RejectedStep
  <2>2. ASSUME NEW request \in LoginReqs, LetIn(r, request, "read")
        PROVE  IInv'
    BY <2>2, LetInStep, RequestKinds
  <2> QED
    BY <1>4, <2>1, <2>2 DEF LoginArrives
<1>5. ASSUME NEW r \in Requests, InsertAnswers(r) PROVE IInv'
  BY <1>5, InsertAnswersStep
<1>6. ASSUME NEW r \in Requests, InsertDuplicate(r) PROVE IInv'
  BY <1>6, RefusedStep DEF InsertDuplicate
<1>7. ASSUME NEW r \in Requests, CallFails(r) PROVE IInv'
  BY <1>7, RefusedStep DEF CallFails
<1>8. ASSUME NEW r \in Requests, LoginReads(r) PROVE IInv'
  BY <1>8, LoginReadsStep
<1>9. ASSUME NEW r \in Requests, InsertUnanswered(r) PROVE IInv'
  BY <1>9, InsertUnansweredStep
<1> QED
  BY <1>1, <1>2, <1>3, <1>4, <1>5, <1>6, <1>7, <1>8, <1>9
     DEF Next, Arrival, Serves

\* The inductive invariant holds throughout.
LEMMA Invariance == Spec => []IInv
BY InitInv, NextInv, PTL DEF Spec

\* Every variable keeps its type, for all users, requests and passwords.
THEOREM TypeCorrect == Spec => []TypeOK
<1>1. IInv => TypeOK
  BY DEF IInv
<1> QED
  BY <1>1, Invariance, PTL

\* Every cookie ever issued has the claims of the user in the table, however
\* many requests race for a name and however many answers are lost.
THEOREM CookiesAreTrue == Spec => []CookiesMatchUsers
<1>1. IInv => CookiesMatchUsers
  BY DEF IInv
<1> QED
  BY <1>1, Invariance, PTL

\* A user is an admin exactly if the team is named after them: an invite
\* never leads into a team of one's own name.
THEOREM AdminsOwnTheirTeams == Spec => []AdminsOwnTeams
<1>1. IInv => AdminsOwnTeams
  BY DEF IInv
<1> QED
  BY <1>1, Invariance, PTL

\* At most one request per name is told that it is registered, and the user
\* stored is the one it asked for.
THEOREM RegisteredOnce == Spec => []RegisteredIsStored
<1>1. IInv => RegisteredIsStored
  BY DEF IInv
<1> QED
  BY <1>1, Invariance, PTL

\* A user in the table is never overwritten, by any request at any time.
THEOREM UsersAreKept == Spec => UsersKept
<1>1. IInv /\ [Next]_vars =>
        [\A u \in Users : users[u] # NoUser => users'[u] = users[u]]_vars
  <2> SUFFICES ASSUME IInv, [Next]_vars, NEW u \in Users, users[u] # NoUser
               PROVE  users'[u] = users[u]
    OBVIOUS
  <2>1. ASSUME NEW r \in Requests, InsertsUser(r) PROVE users'[u] = users[u]
    BY <2>1, InsertsUserStep
  <2>2. CASE UNCHANGED users
    BY <2>2
  <2> QED
    BY <2>1, <2>2 DEF Next, Arrival, Serves, RegisterArrives, LoginArrives, Rejected,
       LetIn, InsertAnswers, InsertUnanswered, InsertDuplicate, LoginReads,
       CallFails, Invites, store, vars
<1> QED
  BY <1>1, Invariance, PTL DEF Spec, UsersKept

=============================================================================
