------------------------- MODULE TeamService_proofs -------------------------
(***************************************************************************)
(* Proofs about TeamService, for any number of requests, users, teams and  *)
(* boards, with eventually or strongly consistent reads.                   *)
(***************************************************************************)
EXTENDS TeamService, TeamData_proofs

\* Request q is left as it is.
Same(q) ==
    /\ pc'[q] = pc[q] /\ req'[q] = req[q] /\ staged'[q] = staged[q]
    /\ shown'[q] = shown[q] /\ tries'[q] = tries[q] /\ resp'[q] = resp[q]
    /\ wrote'[q] = wrote[q]

\* No version is forgotten.
Grows == \A t \in TeamIDs : Stored(t) \subseteq Stored(t)'

\* The claims of a request that was let in.
LEMMA Claim ==
    ASSUME NEW r \in Requests, req[r] # NoReq, req[r].auth \in Auths
    PROVE  TeamOf(r) \in TeamIDs /\ User(r) \in Users
BY DEF Auths, TeamOf, User

\* A request that is left as it is keeps its part of the invariant.
LEMMA FrameRequest ==
    ASSUME NEW q \in Requests, Same(q), Grows,
           RequestOK(q), AnswersAVersion(q), resp[q] \in 400 .. 499 => ~wrote[q]
    PROVE  /\ RequestOK(q)'
           /\ AnswersAVersion(q)'
           /\ (resp[q] \in 400 .. 499 => ~wrote[q])'
<1>1. TeamOf(q)' = TeamOf(q) /\ User(q)' = User(q)
  BY DEF Same, TeamOf, User
<1>2. req[q] # NoReq => Stored(TeamOf(q)) \subseteq Stored(TeamOf(q))'
  <2> SUFFICES ASSUME req[q] # NoReq
               PROVE  Stored(TeamOf(q)) \subseteq Stored(TeamOf(q))'
    OBVIOUS
  <2>1. TeamOf(q) \in TeamIDs
    BY Claim DEF RequestOK
  <2>2. QED
    BY <2>1, <1>1 DEF Grows, Stored
<1>3. RequestOK(q)'
  BY <1>1, <1>2 DEF Same, RequestOK
<1>4. AnswersAVersion(q)'
  BY <1>1, <1>2 DEF Same, AnswersAVersion
<1>5. QED
  BY <1>3, <1>4 DEF Same

\* What a step of request r has to establish for the whole invariant.
LEMMA StepOf ==
    ASSUME IInv, NEW r \in Requests, TypeOK', StoreInv', Grows,
           \A q \in Requests \ {r} : Same(q),
           RequestOK(r)', AnswersAVersion(r)',
           (resp[r] \in 400 .. 499 => ~wrote[r])'
    PROVE  IInv'
<1>1. ASSUME NEW q \in Requests
      PROVE  /\ RequestOK(q)'
             /\ AnswersAVersion(q)'
             /\ (resp[q] \in 400 .. 499 => ~wrote[q])'
  <2>1. CASE q = r
    BY <2>1
  <2>2. CASE q # r
    BY <2>2, FrameRequest DEF IInv, GetAnswersAVersion, RejectedWritesNothing
  <2>3. QED
    BY <2>1, <2>2
<1>2. QED
  BY <1>1 DEF IInv, GetAnswersAVersion, RejectedWritesNothing

\* A step that leaves the table alone.
LEMMA StoreSame ==
    ASSUME IInv, UNCHANGED store
    PROVE  /\ table' \in [TeamIDs -> Team \cup {NoItem}]
           /\ versions' \in [TeamIDs -> SUBSET (Team \cup {NoItem})]
           /\ wrote' \in [Requests -> BOOLEAN]
           /\ StoreInv'
           /\ Grows
           /\ \A t \in TeamIDs : Stored(t)' = Stored(t)
BY DEF IInv, TypeOK, StoreInv, Stored, Grows, store

\* The item a request is about to put is a legal team: a new one or one
\* edit of a version.
LEMMA StagedIsLegal ==
    ASSUME IInv, NEW r \in Requests, pc[r] \in Putting
    PROVE  /\ TeamOf(r) \in TeamIDs
           /\ User(r) \in Users
           /\ staged[r] \in Team
           /\ LegalTeam(TeamOf(r), staged[r])
<1> DEFINE t == TeamOf(r)
<1>1. RequestOK(r) /\ pc[r] \notin {"idle", "done"}
  BY DEF IInv, Putting
<1>2. t \in TeamIDs /\ User(r) \in Users
  BY <1>1, Claim DEF RequestOK
<1>3. \A v \in Stored(t) : v \in Team /\ LegalTeam(t, v)
  BY <1>2 DEF IInv, TypeOK, StoreInv, Stored
<1>4. CASE pc[r] = "insert"
  BY <1>1, <1>2, <1>4, NewTeamIsLegal DEF RequestOK
<1>5. CASE pc[r] = "update"
  BY <1>1, <1>2, <1>3, <1>5, MemberAddedIsLegal DEF RequestOK
<1>6. CASE pc[r] = "put"
  BY <1>1, <1>2, <1>3, <1>6, EditsAreLegal DEF RequestOK
<1>7. QED
  BY <1>2, <1>4, <1>5, <1>6 DEF Putting

\* A step that puts a staged item.
LEMMA StorePut ==
    ASSUME IInv, NEW r \in Requests, pc[r] \in Putting, Puts(r)
    PROVE  /\ table' \in [TeamIDs -> Team \cup {NoItem}]
           /\ versions' \in [TeamIDs -> SUBSET (Team \cup {NoItem})]
           /\ wrote' \in [Requests -> BOOLEAN]
           /\ \A q \in Requests \ {r} : wrote'[q] = wrote[q]
           /\ wrote'[r]
           /\ StoreInv'
           /\ Grows
           /\ staged[r] \in versions'[TeamOf(r)] \ {NoItem}
<1>0. PICK t \in TeamIDs : t = TeamOf(r)
  BY StagedIsLegal
<1>1. /\ t \in TeamIDs
      /\ staged[r] \in Team /\ staged[r] # NoItem
      /\ LegalTeam(t, staged[r])
  BY <1>0, StagedIsLegal, TeamDataAssumption
<1>2. /\ table' = [table EXCEPT ![t] = staged[r]]
      /\ versions' = [versions EXCEPT ![t] = @ \cup {staged[r]}]
      /\ wrote' = [wrote EXCEPT ![r] = TRUE]
  BY <1>0 DEF Puts
<1>3. /\ table \in [TeamIDs -> Team \cup {NoItem}]
      /\ versions \in [TeamIDs -> SUBSET (Team \cup {NoItem})]
      /\ wrote \in [Requests -> BOOLEAN]
      /\ StoreInv
  BY DEF IInv, TypeOK
<1>4. /\ table' \in [TeamIDs -> Team \cup {NoItem}]
      /\ versions' \in [TeamIDs -> SUBSET (Team \cup {NoItem})]
      /\ wrote' \in [Requests -> BOOLEAN]
      /\ \A q \in Requests \ {r} : wrote'[q] = wrote[q]
      /\ wrote'[r]
  BY <1>1, <1>2, <1>3
<1>5. \A u \in TeamIDs : /\ table'[u] = IF u = t THEN staged[r] ELSE table[u]
                         /\ versions'[u] = IF u = t
                                           THEN versions[t] \cup {staged[r]}
                                           ELSE versions[u]
  BY <1>2, <1>3
<1>6. /\ \A u \in TeamIDs \ {t} : Stored(u)' = Stored(u)
      /\ Stored(t)' = Stored(t) \cup {staged[r]}
  BY <1>1, <1>5 DEF Stored
<1>7. StoreInv'
  BY <1>1, <1>3, <1>5, <1>6 DEF StoreInv
<1>8. Grows
  BY <1>6 DEF Grows
<1>9. QED
  BY <1>0, <1>1, <1>4, <1>5, <1>7, <1>8

-----------------------------------------------------------------------------
(***************************************************************************)
(* One lemma per action.                                                   *)
(***************************************************************************)

LEMMA ArrivesStep ==
    ASSUME IInv, NEW r \in Requests, NEW request \in Reqs,
           NEW rejection \in {0, 400, 401, 403, 500},
           rejection = 0 => /\ request.auth \in Auths
                            /\ request.op # "GET" => request.auth.IsAdmin,
           Arrives(r, request, rejection)
    PROVE  IInv'
<1>1. pc[r] = "idle" /\ req[r] = NoReq /\ resp[r] = 0 /\ ~wrote[r]
  BY DEF Arrives, IInv, RequestOK
<1>2. /\ StoreInv' /\ Grows
      /\ table' \in [TeamIDs -> Team \cup {NoItem}]
      /\ versions' \in [TeamIDs -> SUBSET (Team \cup {NoItem})]
      /\ UNCHANGED << wrote, staged, shown, tries >>
  BY StoreSame DEF Arrives, store
<1>3. CASE rejection = 0
  <2>1. /\ req' = [req EXCEPT ![r] = request]
        /\ pc' = [pc EXCEPT ![r] = "read"]
        /\ resp' = resp
    BY <1>3 DEF Arrives, Goes
  <2>2. TypeOK'
    BY <1>2, <2>1 DEF IInv, TypeOK
  <2>3. \A q \in Requests \ {r} : Same(q)
    BY <1>2, <2>1 DEF IInv, TypeOK, Same
  <2>4. req'[r] = request /\ pc'[r] = "read"
    BY <2>1 DEF IInv, TypeOK
  <2>5. RequestOK(r)'
    BY <1>1, <1>2, <1>3, <2>1, <2>4, TeamServiceAssumption
    DEF IInv, RequestOK
  <2>6. AnswersAVersion(r)'
    BY <1>1, <2>1 DEF AnswersAVersion
  <2>7. QED
    BY <1>1, <1>2, <2>1, <2>2, <2>3, <2>5, <2>6, StepOf
<1>4. CASE rejection # 0
  <2>1. /\ req' = req
        /\ pc' = [pc EXCEPT ![r] = "done"]
        /\ resp' = [resp EXCEPT ![r] = rejection]
    BY <1>4 DEF Arrives, Goes, Answers
  <2>2. TypeOK'
    BY <1>2, <1>4, <2>1 DEF IInv, TypeOK, Statuses
  <2>3. \A q \in Requests \ {r} : Same(q)
    BY <1>2, <2>1 DEF IInv, TypeOK, Same
  <2>4. req'[r] = NoReq /\ pc'[r] = "done"
    BY <1>1, <2>1 DEF IInv, TypeOK
  <2>5. RequestOK(r)'
    BY <2>4 DEF RequestOK
  <2>6. AnswersAVersion(r)'
    BY <2>4 DEF AnswersAVersion
  <2>7. QED
    BY <1>1, <1>2, <2>2, <2>3, <2>5, <2>6, StepOf
<1>5. QED
  BY <1>3, <1>4

LEMMA ArrivalStep ==
    ASSUME IInv, NEW r \in Requests, Arrival(r)
    PROVE  IInv'
<1>1. \A c \in Claims, body \in Bodies :
         /\ BoardRejection(c, body) \in {0, 400, 401, 403, 500}
         /\ BoardRejection(c, body) = 0 => c \in Auths /\ c.IsAdmin
  BY DEF BoardRejection, Claims
<1>2. CASE GetArrives(r)
  BY <1>2, ArrivesStep DEF GetArrives, Reqs, GetReqs, Claims
<1>3. CASE PostArrives(r)
  BY <1>1, <1>3, ArrivesStep DEF PostArrives, Reqs, PostReqs
<1>4. CASE PatchArrives(r)
  BY <1>1, <1>4, ArrivesStep DEF PatchArrives, Reqs, PatchReqs
<1>5. CASE DeleteArrives(r)
  BY <1>1, <1>5, ArrivesStep DEF DeleteArrives, Reqs, DeleteReqs
<1>6. QED
  BY <1>2, <1>3, <1>4, <1>5 DEF Arrival

\* A step of r that answers with 500 and leaves the table alone.
LEMMA FailStep ==
    ASSUME IInv, NEW r \in Requests, pc[r] \notin {"idle", "done"},
           Answers(r, 500), UNCHANGED << store, req, staged, tries >>,
           shown' \in [Requests -> SUBSET Board],
           \A q \in Requests \ {r} : shown'[q] = shown[q]
    PROVE  IInv'
<1>1. /\ StoreInv' /\ Grows
      /\ table' \in [TeamIDs -> Team \cup {NoItem}]
      /\ versions' \in [TeamIDs -> SUBSET (Team \cup {NoItem})]
      /\ UNCHANGED << wrote, req, staged, tries >>
  BY StoreSame DEF store
<1>2. /\ pc' = [pc EXCEPT ![r] = "done"]
      /\ resp' = [resp EXCEPT ![r] = 500]
  BY DEF Answers, Goes
<1>3. TypeOK'
  BY <1>1, <1>2 DEF IInv, TypeOK, Statuses
<1>4. \A q \in Requests \ {r} : Same(q)
  BY <1>1, <1>2 DEF IInv, TypeOK, Same
<1>5. pc'[r] = "done" /\ resp'[r] = 500
  BY <1>2 DEF IInv, TypeOK
<1>6. RequestOK(r)'
  BY <1>1, <1>5 DEF IInv, RequestOK
<1>7. AnswersAVersion(r)'
  BY <1>5 DEF AnswersAVersion
<1>8. QED
  BY <1>1, <1>3, <1>4, <1>5, <1>6, <1>7, StepOf

LEMMA CallFailsStep ==
    ASSUME IInv, NEW r \in Requests, CallFails(r)
    PROVE  IInv'
BY FailStep DEF CallFails, Putting, IInv, TypeOK

\* A request whose handler runs has been let in, for a team and a user.
LEMMA Running ==
    ASSUME IInv, NEW r \in Requests, pc[r] \notin {"idle", "done"}
    PROVE  /\ req[r] # NoReq /\ req[r] \in Reqs /\ req[r].auth \in Auths
           /\ TeamOf(r) \in TeamIDs /\ User(r) \in Users
           /\ resp[r] = 0
<1>1. req[r] # NoReq /\ req[r].auth \in Auths /\ resp[r] = 0
  BY DEF IInv, RequestOK
<1>2. QED
  BY <1>1, Claim DEF IInv, TypeOK

\* What GetItem finds is a legal stored version.
LEMMA FoundIsLegal ==
    ASSUME IInv, NEW t \in TeamIDs, NEW team \in GetItem(t) \ {NoItem}
    PROVE  team \in Stored(t) /\ team \in Team /\ LegalTeam(t, team)
BY TeamServiceAssumption DEF IInv, TypeOK, StoreInv, Stored, GetItem

\* A step of r that answers.
LEMMA AnswerStep ==
    ASSUME IInv, NEW r \in Requests, NEW status \in Statuses,
           pc[r] \notin {"idle", "done"}, Answers(r, status), UNCHANGED req,
           table' \in [TeamIDs -> Team \cup {NoItem}],
           versions' \in [TeamIDs -> SUBSET (Team \cup {NoItem})],
           wrote' \in [Requests -> BOOLEAN],
           staged' \in [Requests -> Team \cup {NoItem}],
           shown' \in [Requests -> SUBSET Board],
           tries' \in [Requests -> 0 .. 3],
           StoreInv', Grows,
           \A q \in Requests \ {r} :
               /\ wrote'[q] = wrote[q] /\ staged'[q] = staged[q]
               /\ shown'[q] = shown[q] /\ tries'[q] = tries[q],
           status \in 400 .. 499 => ~wrote'[r],
           status = 200 => AnswersAVersion(r)'
    PROVE  IInv'
<1>1. /\ pc' = [pc EXCEPT ![r] = "done"]
      /\ resp' = [resp EXCEPT ![r] = status]
  BY DEF Answers, Goes
<1>2. TypeOK'
  BY <1>1 DEF IInv, TypeOK
<1>3. \A q \in Requests \ {r} : Same(q)
  BY <1>1 DEF IInv, TypeOK, Same
<1>4. pc'[r] = "done" /\ resp'[r] = status /\ req'[r] = req[r]
  BY <1>1 DEF IInv, TypeOK
<1>5. RequestOK(r)'
  BY <1>4 DEF IInv, RequestOK
<1>6. AnswersAVersion(r)'
  BY <1>4 DEF AnswersAVersion
<1>7. QED
  BY <1>2, <1>3, <1>4, <1>5, <1>6, StepOf

\* What GetAnswers does, for a team that may be shown with a 200 only if it
\* is a version with the user among its members.
LEMMA GetAnswersStep ==
    ASSUME IInv, NEW r \in Requests, NEW status \in {200, 201},
           NEW team \in Team,
           pc[r] \notin {"idle", "done"}, GetAnswers(r, status, team),
           UNCHANGED req,
           table' \in [TeamIDs -> Team \cup {NoItem}],
           versions' \in [TeamIDs -> SUBSET (Team \cup {NoItem})],
           wrote' \in [Requests -> BOOLEAN],
           staged' \in [Requests -> Team \cup {NoItem}],
           tries' \in [Requests -> 0 .. 3],
           StoreInv', Grows,
           \A q \in Requests \ {r} :
               /\ wrote'[q] = wrote[q] /\ staged'[q] = staged[q]
               /\ tries'[q] = tries[q],
           status = 200 => /\ team \in versions'[TeamOf(r)] \ {NoItem}
                           /\ User(r) \in Range(team.Members)
    PROVE  IInv'
<1> DEFINE boards == IF req[r].auth.IsAdmin THEN Range(team.Boards)
                                            ELSE VisibleBoards(team, User(r))
<1>1. PICK s \in {status, 500} : Answers(r, s)
  BY DEF GetAnswers
<1>2. shown' = [shown EXCEPT ![r] = boards]
  BY DEF GetAnswers
<1>3. Range(team.Boards) \subseteq Board
  BY RangeOfSeq DEF Team
<1>4. boards \in SUBSET Board
  BY <1>3 DEF VisibleBoards
<1> HIDE DEF boards
<1>5. /\ shown' \in [Requests -> SUBSET Board]
      /\ \A q \in Requests \ {r} : shown'[q] = shown[q]
      /\ shown'[r] = boards
  BY <1>2, <1>4 DEF IInv, TypeOK
<1>6. s = 200 => AnswersAVersion(r)'
  BY <1>5 DEF AnswersAVersion, Stored, TeamOf, User, boards
<1>7. s \in Statuses /\ s \notin 400 .. 499
  BY DEF Statuses
<1>8. QED
  BY <1>1, <1>5, <1>6, <1>7, AnswerStep

LEMMA GetFindsNoneStep ==
    ASSUME IInv, NEW r \in Requests, GetFindsNone(r)
    PROVE  IInv'
<1>1. pc[r] = "read" /\ req[r].op = "GET" /\ ~wrote[r] /\ tries[r] < 3
  BY DEF GetFindsNone, IInv, RequestOK
<1>2. PICK t \in TeamIDs : t = TeamOf(r)
  BY <1>1, Running
<1>3. /\ StoreInv' /\ Grows
      /\ table' \in [TeamIDs -> Team \cup {NoItem}]
      /\ versions' \in [TeamIDs -> SUBSET (Team \cup {NoItem})]
      /\ UNCHANGED << wrote, req, shown, tries >>
  BY StoreSame DEF GetFindsNone, store
<1>4. CASE req[r].auth.IsAdmin
  <2>1. PICK id \in BoardIDs : staged' = [staged EXCEPT ![r] = NewTeam(t, id)]
    BY <1>2, <1>4 DEF GetFindsNone, Stages
  <2>2. pc' = [pc EXCEPT ![r] = "insert"] /\ resp' = resp
    BY <1>4 DEF GetFindsNone, Goes
  <2>3. NewTeam(t, id) \in Team
    BY NewTeamIsLegal
  <2>4. TypeOK'
    BY <1>3, <2>1, <2>2, <2>3 DEF IInv, TypeOK, Putting
  <2>5. \A q \in Requests \ {r} : Same(q)
    BY <1>3, <2>1, <2>2 DEF IInv, TypeOK, Same
  <2>6. /\ pc'[r] = "insert" /\ staged'[r] = NewTeam(t, id)
        /\ TeamOf(r)' = t /\ req'[r] = req[r]
    BY <1>2, <1>3, <2>1, <2>2 DEF IInv, TypeOK, TeamOf
  <2>7. RequestOK(r)'
    BY <1>1, <1>3, <1>4, <2>2, <2>6, Running DEF RequestOK
  <2>8. resp'[r] = 0
    BY <1>1, <2>2, Running
  <2>9. QED
    BY <1>3, <2>4, <2>5, <2>7, <2>8, StepOf DEF AnswersAVersion
<1>5. CASE ~req[r].auth.IsAdmin
  <2>1. Answers(r, 401) /\ staged' = staged
    BY <1>5 DEF GetFindsNone
  <2>2. QED
    BY <1>1, <1>3, <2>1, AnswerStep DEF IInv, TypeOK, Statuses
<1>6. QED
  BY <1>4, <1>5

LEMMA GetFindsStep ==
    ASSUME IInv, NEW r \in Requests, GetFinds(r)
    PROVE  IInv'
<1>1. pc[r] = "read" /\ req[r].op = "GET" /\ ~wrote[r]
  BY DEF GetFinds, IsMember, IInv, RequestOK
<1>2. PICK t \in TeamIDs : t = TeamOf(r)
  BY <1>1, Running
<1>3. /\ StoreInv' /\ Grows
      /\ table' \in [TeamIDs -> Team \cup {NoItem}]
      /\ versions' \in [TeamIDs -> SUBSET (Team \cup {NoItem})]
      /\ versions' = versions
      /\ UNCHANGED << wrote, req, tries >>
      /\ Stored(t)' = Stored(t)
  BY StoreSame DEF GetFinds, store
<1>4. PICK team \in GetItem(t) \ {NoItem} :
         IF req[r].auth.IsAdmin \/ User(r) \in Range(team.Members)
         THEN GetAnswers(r, 200, team) /\ UNCHANGED staged
         ELSE /\ Goes(r, "update")
              /\ Stages(r, MemberAdded(team, User(r)))
              /\ UNCHANGED << shown, resp >>
  BY <1>2 DEF GetFinds, IsMember
<1>5. team \in Stored(t) /\ team \in Team /\ LegalTeam(t, team)
  BY FoundIsLegal
<1>6. CASE req[r].auth.IsAdmin \/ User(r) \in Range(team.Members)
  <2>1. GetAnswers(r, 200, team) /\ UNCHANGED staged
    BY <1>4, <1>6
  <2>2. req[r].auth.IsAdmin => User(r) = t
    <3>1. PICK u \in Users, k \in TeamIDs :
             req[r].auth = [Username |-> u, TeamID |-> k, IsAdmin |-> u = k]
      BY <1>1, Running DEF Auths
    <3>2. /\ req[r].auth.Username = u /\ req[r].auth.TeamID = k
          /\ req[r].auth.IsAdmin = (u = k)
      BY <3>1
    <3>3. QED
      BY <1>2, <3>2 DEF TeamOf, User
  <2>3. User(r) \in Range(team.Members)
    BY <1>5, <1>6, <2>2 DEF LegalTeam, AdminIsMember
  <2>4. team \in versions'[TeamOf(r)] \ {NoItem}
    BY <1>2, <1>3, <1>5 DEF Stored
  <2>5. QED
    BY <1>1, <1>3, <1>5, <2>1, <2>3, <2>4, GetAnswersStep DEF IInv, TypeOK
<1>7. CASE ~(req[r].auth.IsAdmin \/ User(r) \in Range(team.Members))
  <2> DEFINE new == MemberAdded(team, User(r))
  <2>1. /\ pc' = [pc EXCEPT ![r] = "update"]
        /\ staged' = [staged EXCEPT ![r] = new]
        /\ shown' = shown /\ resp' = resp
    BY <1>4, <1>7 DEF Goes, Stages
  <2>2. new \in Team
    BY <1>1, <1>5, <1>7, Running, MemberAddedIsLegal
  <2> HIDE DEF new
  <2>3. TypeOK'
    BY <1>3, <2>1, <2>2 DEF IInv, TypeOK, Putting
  <2>4. \A q \in Requests \ {r} : Same(q)
    BY <1>3, <2>1 DEF IInv, TypeOK, Same
  <2>5. /\ pc'[r] = "update" /\ staged'[r] = new /\ req'[r] = req[r]
        /\ TeamOf(r)' = t /\ User(r)' = User(r)
    BY <1>2, <1>3, <2>1 DEF IInv, TypeOK, TeamOf, User
  <2>6. resp'[r] = 0
    BY <1>1, <2>1, Running
  <2>7. team \in Stored(TeamOf(r))'
    BY <1>3, <1>5, <2>5 DEF Stored
  <2>8. RequestOK(r)'
    BY <1>1, <1>7, <2>5, <2>6, <2>7, Running DEF RequestOK, new
  <2>9. QED
    BY <1>3, <2>3, <2>4, <2>6, <2>8, StepOf DEF AnswersAVersion
<1>8. QED
  BY <1>6, <1>7

LEMMA GetInsertsStep ==
    ASSUME IInv, NEW r \in Requests, GetInserts(r)
    PROVE  IInv'
<1>1. pc[r] = "insert" /\ pc[r] \in Putting /\ Puts(r)
  BY DEF GetInserts, Putting
<1>2. UNCHANGED << req, staged, tries >> /\ GetAnswers(r, 201, staged[r])
  BY DEF GetInserts
<1>3. QED
  BY <1>1, <1>2, StorePut, StagedIsLegal, GetAnswersStep DEF IInv, TypeOK

LEMMA GetInsertsDuplicateStep ==
    ASSUME IInv, NEW r \in Requests, GetInsertsDuplicate(r)
    PROVE  IInv'
<1>1. /\ pc[r] = "insert" /\ req[r].op = "GET" /\ req[r].auth.IsAdmin
      /\ tries[r] < 3
  BY DEF GetInsertsDuplicate, IInv, RequestOK
<1>2. PICK t \in TeamIDs : t = TeamOf(r)
  BY <1>1, Running
<1>3. /\ StoreInv' /\ Grows
      /\ table' \in [TeamIDs -> Team \cup {NoItem}]
      /\ versions' \in [TeamIDs -> SUBSET (Team \cup {NoItem})]
      /\ UNCHANGED << wrote, req >>
      /\ tries' = [tries EXCEPT ![r] = @ + 1]
  BY StoreSame DEF GetInsertsDuplicate, CountsTry, store
<1>4. PICK id \in BoardIDs :
         /\ Stages(r, NewTeam(t, id))
         /\ IF tries[r] + 1 < 3
            THEN UNCHANGED << pc, shown, resp >>
            ELSE GetAnswers(r, 201, NewTeam(t, id))
  BY <1>2 DEF GetInsertsDuplicate, TriesLeft
<1> DEFINE new == NewTeam(t, id)
<1>5. new \in Team
  BY NewTeamIsLegal
<1>6. /\ tries' \in [Requests -> 0 .. 3] /\ tries'[r] = tries[r] + 1
      /\ \A q \in Requests \ {r} : tries'[q] = tries[q]
  BY <1>1, <1>3 DEF IInv, TypeOK
<1> HIDE DEF new
<1>7. /\ staged' \in [Requests -> Team \cup {NoItem}] /\ staged'[r] = new
      /\ \A q \in Requests \ {r} : staged'[q] = staged[q]
  BY <1>4, <1>5 DEF IInv, TypeOK, Stages, new
<1>8. CASE tries[r] + 1 < 3
  <2>1. UNCHANGED << pc, shown, resp >>
    BY <1>4, <1>8
  <2>2. TypeOK'
    BY <1>3, <1>6, <1>7, <2>1 DEF IInv, TypeOK
  <2>3. \A q \in Requests \ {r} : Same(q)
    BY <1>3, <1>6, <1>7, <2>1 DEF Same
  <2>4. TeamOf(r)' = t /\ req'[r] = req[r] /\ resp'[r] = 0 /\ pc'[r] = "insert"
    BY <1>1, <1>2, <1>3, <2>1, Running DEF TeamOf
  <2>5. RequestOK(r)'
    BY <1>1, <1>6, <1>7, <1>8, <2>4, Running DEF RequestOK, new
  <2>6. QED
    BY <1>3, <2>2, <2>3, <2>4, <2>5, StepOf DEF AnswersAVersion
<1>9. CASE ~(tries[r] + 1 < 3)
  <2>1. GetAnswers(r, 201, new)
    BY <1>4, <1>9 DEF new
  <2>2. QED
    BY <1>1, <1>3, <1>5, <1>6, <1>7, <2>1, GetAnswersStep DEF IInv, TypeOK
<1>10. QED
  BY <1>8, <1>9

LEMMA GetUpdatesStep ==
    ASSUME IInv, NEW r \in Requests, GetUpdates(r)
    PROVE  IInv'
<1>1. pc[r] = "update" /\ pc[r] \in Putting
  BY DEF GetUpdates, Putting
<1>2. UNCHANGED << req, staged, tries >>
  BY DEF GetUpdates
<1>3. CASE ConditionHolds(r)
  <2>1. Puts(r) /\ GetAnswers(r, 200, staged[r])
    BY <1>3 DEF GetUpdates
  <2>2. PICK v \in Stored(TeamOf(r)) : staged[r] = MemberAdded(v, User(r))
    BY <1>1 DEF IInv, RequestOK
  <2>3. v \in Team
    BY <1>1, <2>2, Running DEF IInv, TypeOK, Stored
  <2>4. User(r) \in Range(Append(v.Members, User(r)))
    BY <1>1, <2>3, Running, AppendProperties DEF Team, Range
  <2>5. staged[r].Members = Append(v.Members, User(r))
    BY <2>2, <2>3 DEF MemberAdded, Team
  <2>6. /\ staged[r] \in versions'[TeamOf(r)] \ {NoItem}
        /\ User(r) \in Range(staged[r].Members)
    BY <1>1, <2>1, <2>4, <2>5, StorePut
  <2>7. /\ table' \in [TeamIDs -> Team \cup {NoItem}]
        /\ versions' \in [TeamIDs -> SUBSET (Team \cup {NoItem})]
        /\ wrote' \in [Requests -> BOOLEAN]
        /\ \A q \in Requests \ {r} : wrote'[q] = wrote[q]
        /\ StoreInv' /\ Grows
    BY <1>1, <2>1, StorePut
  <2>8. staged[r] \in Team
    BY <1>1, StagedIsLegal
  <2>9. QED
    BY <1>1, <1>2, <2>1, <2>6, <2>7, <2>8, GetAnswersStep DEF IInv, TypeOK
<1>4. CASE ~ConditionHolds(r)
  BY <1>1, <1>2, <1>4, FailStep DEF GetUpdates, IInv, TypeOK
<1>5. QED
  BY <1>3, <1>4

\* A board operation that goes on to put an edit of what it read.
LEMMA WillPutStep ==
    ASSUME IInv, NEW r \in Requests, NEW t \in TeamIDs, t = TeamOf(r),
           pc[r] = "read", req[r].op # "GET",
           NEW team \in GetItem(t) \ {NoItem}, NEW item \in Edits(team),
           item.Members = team.Members,
           WillPut(r, item), UNCHANGED << store, req, shown >>
    PROVE  IInv'
<1>1. /\ StoreInv' /\ Grows
      /\ table' \in [TeamIDs -> Team \cup {NoItem}]
      /\ versions' \in [TeamIDs -> SUBSET (Team \cup {NoItem})]
      /\ UNCHANGED << wrote, req, shown, tries, resp >>
      /\ Stored(t)' = Stored(t)
  BY StoreSame DEF WillPut, store
<1>2. /\ pc' = [pc EXCEPT ![r] = "put"]
      /\ staged' = [staged EXCEPT ![r] = item]
  BY DEF WillPut, Goes, Stages
<1>3. team \in Stored(t) /\ item \in Team
  BY FoundIsLegal, EditsAreLegal
<1>4. TypeOK'
  BY <1>1, <1>2, <1>3 DEF IInv, TypeOK, Putting
<1>5. \A q \in Requests \ {r} : Same(q)
  BY <1>1, <1>2 DEF IInv, TypeOK, Same
<1>6. /\ pc'[r] = "put" /\ staged'[r] = item /\ req'[r] = req[r]
      /\ TeamOf(r)' = t /\ resp'[r] = 0
  BY <1>1, <1>2, Running DEF IInv, TypeOK, TeamOf
<1>7. team \in Stored(TeamOf(r))'
  BY <1>1, <1>3, <1>6 DEF Stored
<1>8. RequestOK(r)'
  BY <1>6, <1>7, Running DEF IInv, RequestOK
<1>9. QED
  BY <1>1, <1>4, <1>5, <1>6, <1>8, StepOf DEF AnswersAVersion

\* A board operation that answers without having put anything.
LEMMA RepliesStep ==
    ASSUME IInv, NEW r \in Requests, NEW status \in {400, 404, 500},
           pc[r] = "read", Replies(r, status), UNCHANGED << store, req, shown >>
    PROVE  IInv'
<1>1. ~wrote[r] /\ pc[r] \notin {"idle", "done"}
  BY DEF IInv, RequestOK
<1>2. /\ StoreInv' /\ Grows
      /\ table' \in [TeamIDs -> Team \cup {NoItem}]
      /\ versions' \in [TeamIDs -> SUBSET (Team \cup {NoItem})]
      /\ UNCHANGED << wrote, req, shown, staged, tries >>
      /\ Answers(r, status)
  BY StoreSame DEF Replies, store
<1>3. QED
  BY <1>1, <1>2, AnswerStep DEF IInv, TypeOK, Statuses

LEMMA PostReadsStep ==
    ASSUME IInv, NEW r \in Requests, PostReads(r)
    PROVE  IInv'
<1>1. /\ pc[r] = "read" /\ req[r].op = "POST" /\ tries[r] < 3
      /\ UNCHANGED << store, req, shown >>
  BY DEF PostReads, IInv, RequestOK
<1>2. PICK t \in TeamIDs : t = TeamOf(r)
  BY <1>1, Running
<1>3. PICK team \in GetItem(t), id \in BoardIDs :
         CASE team = NoItem -> Replies(r, 500)
           [] team # NoItem /\ id \in IDsOf(team) ->
                /\ tries' = [tries EXCEPT ![r] = @ + 1]
                /\ IF tries[r] + 1 < 3 THEN UNCHANGED << pc, resp >>
                                       ELSE Answers(r, 500)
                /\ UNCHANGED staged
           [] OTHER ->
                IF Len(team.Boards) >= MaxBoards
                THEN Replies(r, 400)
                ELSE WillPut(r, BoardAdded(team, NewBoard(id, req[r].name)))
  BY <1>2 DEF PostReads, TriesLeft, CountsTry, LimitReached, IDTaken
<1>4. CASE team = NoItem
  BY <1>1, <1>3, <1>4, RepliesStep
<1>5. CASE team # NoItem /\ id \in IDsOf(team)
  <2>1. /\ tries' = [tries EXCEPT ![r] = @ + 1]
        /\ IF tries[r] + 1 < 3 THEN UNCHANGED << pc, resp >>
                               ELSE Answers(r, 500)
        /\ UNCHANGED staged
    BY <1>3, <1>5
  <2>2. /\ tries' \in [Requests -> 0 .. 3] /\ tries'[r] = tries[r] + 1
        /\ \A q \in Requests \ {r} : tries'[q] = tries[q]
    BY <1>1, <2>1 DEF IInv, TypeOK
  <2>3. /\ StoreInv' /\ Grows
        /\ table' \in [TeamIDs -> Team \cup {NoItem}]
        /\ versions' \in [TeamIDs -> SUBSET (Team \cup {NoItem})]
        /\ UNCHANGED << wrote, req, shown >>
    BY <1>1, StoreSame DEF store
  <2>4. CASE tries[r] + 1 < 3
    <3>1. UNCHANGED << pc, resp, staged >>
      BY <2>1, <2>4
    <3>2. TypeOK'
      BY <2>2, <2>3, <3>1 DEF IInv, TypeOK
    <3>3. \A q \in Requests \ {r} : Same(q)
      BY <2>2, <2>3, <3>1 DEF Same
    <3>4. RequestOK(r)'
      BY <1>1, <2>2, <2>3, <2>4, <3>1 DEF IInv, RequestOK
    <3>5. resp'[r] = 0
      BY <1>1, <3>1, Running
    <3>6. QED
      BY <2>3, <3>2, <3>3, <3>4, <3>5, StepOf DEF AnswersAVersion
  <2>5. CASE ~(tries[r] + 1 < 3)
    BY <1>1, <2>1, <2>2, <2>3, <2>5, AnswerStep DEF IInv, TypeOK, Statuses
  <2>6. QED
    BY <2>4, <2>5
<1>6. CASE team # NoItem /\ id \notin IDsOf(team)
  <2>1. CASE Len(team.Boards) >= MaxBoards
    BY <1>1, <1>3, <1>6, <2>1, RepliesStep
  <2>2. CASE ~(Len(team.Boards) >= MaxBoards)
    <3> DEFINE b == NewBoard(id, req[r].name)
    <3>1. req[r].name \in Names
      BY <1>1, Running DEF Reqs, GetReqs, PostReqs, PatchReqs, DeleteReqs
    <3>2. b \in Board /\ b.ID = id
      BY <3>1, TeamDataAssumption DEF NewBoard, Board
    <3>3. Len(team.Boards) < MaxBoards
      <4>1. team.Boards \in Seq(Board)
        BY <1>6, FoundIsLegal DEF Team
      <4>2. QED
        BY <2>2, <4>1, TeamDataAssumption
    <3>4. BoardAdded(team, b) \in Edits(team)
      BY <1>6, <3>2, <3>3 DEF Edits
    <3>5. WillPut(r, BoardAdded(team, b))
      BY <1>3, <1>6, <2>2
    <3>6. BoardAdded(team, b).Members = team.Members
      BY <1>6, FoundIsLegal DEF BoardAdded, Team
    <3>7. QED
      BY <1>1, <1>2, <1>6, <3>4, <3>5, <3>6, WillPutStep
  <2>3. QED
    BY <2>1, <2>2
<1>7. QED
  BY <1>4, <1>5, <1>6

LEMMA PatchReadsStep ==
    ASSUME IInv, NEW r \in Requests, PatchReads(r)
    PROVE  IInv'
<1>1. /\ pc[r] = "read" /\ req[r].op = "PATCH"
      /\ UNCHANGED << store, req, shown >>
  BY DEF PatchReads
<1>2. PICK t \in TeamIDs : t = TeamOf(r)
  BY <1>1, Running
<1>3. PICK team \in GetItem(t) :
         IF team # NoItem /\ req[r].board.ID \in IDsOf(team)
         THEN WillPut(r, BoardReplaced(team, req[r].board))
         ELSE Replies(r, 404)
  BY <1>2 DEF PatchReads
<1>4. req[r].board \in Board
  BY <1>1, Running DEF Reqs, GetReqs, PostReqs, PatchReqs, DeleteReqs
<1>5. CASE team # NoItem /\ req[r].board.ID \in IDsOf(team)
  <2>1. BoardReplaced(team, req[r].board) \in Edits(team)
    BY <1>4, <1>5 DEF Edits
  <2>2. BoardReplaced(team, req[r].board).Members = team.Members
    BY <1>5, FoundIsLegal DEF BoardReplaced, Team
  <2>3. QED
    BY <1>1, <1>2, <1>3, <1>5, <2>1, <2>2, WillPutStep
<1>6. CASE ~(team # NoItem /\ req[r].board.ID \in IDsOf(team))
  BY <1>1, <1>3, <1>6, RepliesStep
<1>7. QED
  BY <1>5, <1>6

LEMMA DeleteReadsStep ==
    ASSUME IInv, NEW r \in Requests, DeleteReads(r)
    PROVE  IInv'
<1>1. /\ pc[r] = "read" /\ req[r].op = "DELETE" /\ ~wrote[r]
      /\ UNCHANGED << store, req, shown >>
  BY DEF DeleteReads, IInv, RequestOK
<1>2. PICK t \in TeamIDs : t = TeamOf(r)
  BY <1>1, Running
<1>3. \E team \in GetItem(t) :
         \/ /\ team # NoItem /\ Len(team.Boards) = 1
            /\ WillPut(r, BoardRemoved(team, 1))
         \/ Goes(r, "spin") /\ UNCHANGED << staged, tries, resp >>
         \/ Replies(r, 404)
  BY <1>2 DEF DeleteReads
<1>4. CASE \E team \in GetItem(t) \ {NoItem} :
              /\ Len(team.Boards) = 1
              /\ WillPut(r, BoardRemoved(team, 1))
  <2>1. PICK team \in GetItem(t) \ {NoItem} :
           Len(team.Boards) = 1 /\ WillPut(r, BoardRemoved(team, 1))
    BY <1>4
  <2>2. 1 \in DOMAIN team.Boards
    BY <2>1, FoundIsLegal, LenProperties DEF Team
  <2>3. BoardRemoved(team, 1) \in Edits(team)
    BY <2>2 DEF Edits
  <2>4. BoardRemoved(team, 1).Members = team.Members
    BY FoundIsLegal DEF BoardRemoved, Team
  <2>5. QED
    BY <1>1, <1>2, <2>1, <2>3, <2>4, WillPutStep
<1>5. CASE Goes(r, "spin") /\ UNCHANGED << staged, tries, resp >>
  <2>1. /\ StoreInv' /\ Grows
        /\ table' \in [TeamIDs -> Team \cup {NoItem}]
        /\ versions' \in [TeamIDs -> SUBSET (Team \cup {NoItem})]
        /\ UNCHANGED << wrote, req, shown, staged, tries, resp >>
    BY <1>1, <1>5, StoreSame DEF store
  <2>2. pc' = [pc EXCEPT ![r] = "spin"]
    BY <1>5 DEF Goes
  <2>3. TypeOK'
    BY <2>1, <2>2 DEF IInv, TypeOK
  <2>4. \A q \in Requests \ {r} : Same(q)
    BY <2>1, <2>2 DEF IInv, TypeOK, Same
  <2>5. pc'[r] = "spin" /\ resp'[r] = 0 /\ req'[r] = req[r]
    BY <1>1, <2>1, <2>2, Running DEF IInv, TypeOK
  <2>6. RequestOK(r)'
    BY <1>1, <2>1, <2>5 DEF IInv, RequestOK
  <2>7. QED
    BY <2>1, <2>3, <2>4, <2>5, <2>6, StepOf DEF AnswersAVersion
<1>6. CASE Replies(r, 404)
  BY <1>1, <1>6, RepliesStep
<1>7. QED
  BY <1>3, <1>4, <1>5, <1>6

LEMMA BoardPutsStep ==
    ASSUME IInv, NEW r \in Requests, BoardPuts(r)
    PROVE  IInv'
<1>1. pc[r] = "put" /\ pc[r] \in Putting /\ req[r].op # "GET" /\ Puts(r)
  BY DEF BoardPuts, Putting, IInv, RequestOK
<1>2. Answers(r, 200) /\ UNCHANGED << req, staged, shown, tries >>
  BY DEF BoardPuts
<1>3. AnswersAVersion(r)'
  BY <1>1, <1>2 DEF AnswersAVersion
<1>4. QED
  BY <1>1, <1>2, <1>3, StorePut, AnswerStep DEF IInv, TypeOK, Statuses

LEMMA PutUnansweredStep ==
    ASSUME IInv, NEW r \in Requests, PutUnanswered(r)
    PROVE  IInv'
<1>1. pc[r] \in Putting /\ Puts(r)
      /\ UNCHANGED << req, pc, staged, shown, tries, resp >>
  BY DEF PutUnanswered
<1>2. pc[r] \notin {"idle", "read", "spin", "done"}
  BY <1>1 DEF Putting
<1>3. TypeOK'
  BY <1>1, StorePut DEF IInv, TypeOK
<1>4. \A q \in Requests \ {r} : Same(q)
  BY <1>1, StorePut DEF Same
<1>5. resp'[r] = 0 /\ TeamOf(r)' = TeamOf(r) /\ User(r)' = User(r)
  BY <1>1, <1>2, Running DEF TeamOf, User
<1>6. Stored(TeamOf(r)) \subseteq Stored(TeamOf(r))'
  BY <1>1, <1>2, <1>5, StorePut, Running DEF Grows, Stored
<1>7. RequestOK(r)'
  BY <1>1, <1>2, <1>5, <1>6 DEF IInv, RequestOK
<1>8. QED
  BY <1>1, <1>3, <1>4, <1>5, <1>7, StorePut, StepOf DEF AnswersAVersion

-----------------------------------------------------------------------------
\* The service starts in a state that satisfies the invariant.
LEMMA InitInv == Init => IInv
<1> SUFFICES ASSUME Init PROVE IInv
  OBVIOUS
<1>1. TypeOK
  BY DEF Init, TypeOK
<1>2. StoreInv
  BY DEF Init, StoreInv, Stored
<1>3. \A r \in Requests : RequestOK(r)
  BY DEF Init, RequestOK
<1>4. GetAnswersAVersion /\ RejectedWritesNothing
  BY DEF Init, GetAnswersAVersion, AnswersAVersion, RejectedWritesNothing
<1>5. QED
  BY <1>1, <1>2, <1>3, <1>4 DEF IInv

\* Every step keeps the invariant.
LEMMA NextInv == IInv /\ [Next]_vars => IInv'
<1> SUFFICES ASSUME IInv, [Next]_vars PROVE IInv'
  OBVIOUS
<1>1. CASE UNCHANGED vars
  <2>1. \A r \in Requests : Same(r)
    BY <1>1 DEF vars, Same
  <2>2. StoreInv' /\ Grows /\ TypeOK'
    BY <1>1, StoreSame DEF vars, store, IInv, TypeOK
  <2>3. QED
    BY <2>1, <2>2, FrameRequest
    DEF IInv, GetAnswersAVersion, RejectedWritesNothing
<1>2. ASSUME NEW r \in Requests, Arrival(r) \/ Serves(r) \/ PutUnanswered(r)
      PROVE  IInv'
  BY <1>2, ArrivalStep, CallFailsStep, GetFindsNoneStep, GetFindsStep,
     GetInsertsStep, GetInsertsDuplicateStep, GetUpdatesStep, PostReadsStep,
     PatchReadsStep, DeleteReadsStep, BoardPutsStep, PutUnansweredStep
  DEF Serves
<1>3. QED
  BY <1>1, <1>2 DEF Next

\* The inductive invariant holds throughout.
LEMMA Invariance == Spec => []IInv
BY InitInv, NextInv, PTL DEF Spec

\* Every variable keeps its type.
THEOREM TypeCorrect == Spec => []TypeOK
BY Invariance, PTL DEF IInv

\* The invariant holds every property of the stored teams.
LEMMA StoredAreLegal ==
    IInv => BoardLimitKept /\ BoardIDsUnique /\ MembersUnique /\ AdminKept
BY DEF IInv, StoreInv, BoardLimitKept, BoardIDsUnique, MembersUnique,
       AdminKept, LegalTeam

\* The limit on the boards of a team holds however the reads and the puts of
\* the requests interleave and however old the items are that they read.
THEOREM BoardLimit == Spec => []BoardLimitKept
BY Invariance, StoredAreLegal, PTL

\* So does the uniqueness of the IDs of its boards, whatever UUIDs are drawn.
THEOREM BoardIDsAreUnique == Spec => []BoardIDsUnique
BY Invariance, StoredAreLegal, PTL

\* No member is listed twice.
THEOREM MembersAreUnique == Spec => []MembersUnique
BY Invariance, StoredAreLegal, PTL

\* The admin is never dropped.
THEOREM AdminIsKept == Spec => []AdminKept
BY Invariance, StoredAreLegal, PTL

\* A 200 of GET /team shows one version, with the user among its members.
THEOREM AnswersAreVersions == Spec => []GetAnswersAVersion
BY Invariance, PTL DEF IInv

\* A request answered with 4xx has not written.
THEOREM RejectionsAreClean == Spec => []RejectedWritesNothing
BY Invariance, PTL DEF IInv

\* Only a request that puts its item has written.
LEMMA OnlyPutsWrite ==
    ASSUME IInv, [Next]_vars, NEW r \in Requests, ~wrote[r], wrote'[r]
    PROVE  pc[r] \in Putting /\ Puts(r)
<1>1. CASE UNCHANGED << table, versions, wrote >>
  BY <1>1
<1>2. ASSUME NEW q \in Requests, pc[q] \in Putting, Puts(q)
      PROVE  q = r
  BY <1>2 DEF Puts, IInv, TypeOK
<1>3. ASSUME NEW q \in Requests, Arrival(q)
      PROVE  UNCHANGED << table, versions, wrote >>
  BY <1>3 DEF Arrival, GetArrives, PostArrives, PatchArrives,
     DeleteArrives, Arrives, store
<1>4. ASSUME NEW q \in Requests, Serves(q)
      PROVE  \/ UNCHANGED << table, versions, wrote >>
             \/ pc[q] \in Putting /\ Puts(q)
  <2>1. CASE GetInserts(q) \/ GetUpdates(q) \/ BoardPuts(q)
    BY <2>1 DEF GetInserts, GetUpdates, BoardPuts, Putting, store
  <2>2. CASE \/ GetFindsNone(q) \/ GetFinds(q) \/ GetInsertsDuplicate(q)
             \/ PostReads(q) \/ PatchReads(q) \/ DeleteReads(q)
             \/ CallFails(q)
    BY <2>2 DEF GetFindsNone, GetFinds, GetInsertsDuplicate, PostReads,
       PatchReads, DeleteReads, CallFails, store
  <2>3. QED
    BY <1>4, <2>1, <2>2 DEF Serves
<1>5. ASSUME NEW q \in Requests, PutUnanswered(q)
      PROVE  pc[q] \in Putting /\ Puts(q)
  BY <1>5 DEF PutUnanswered
<1>6. CASE UNCHANGED vars
  BY <1>1, <1>6 DEF vars
<1>7. QED
  BY <1>1, <1>2, <1>3, <1>4, <1>5, <1>6 DEF Next

\* What a member's request puts is a version with its user added at most.
LEMMA MemberPuts ==
    ASSUME IInv, NEW r \in Requests, NEW t \in TeamIDs, pc[r] \in Putting,
           Puts(r), table'[t] # table[t]
    PROVE  /\ TeamOf(r) = t
           /\ ~req[r].auth.IsAdmin =>
                \E v \in Stored(t) :
                   /\ table'[t].Boards = v.Boards
                   /\ table'[t].Members \in
                        {v.Members, Append(v.Members, User(r))}
<1>1. TeamOf(r) = t /\ table'[t] = staged[r]
  BY StagedIsLegal DEF Puts, IInv, TypeOK
<1>2. RequestOK(r)
  BY DEF IInv
<1>3. ASSUME ~req[r].auth.IsAdmin
      PROVE  \E v \in Stored(t) : staged[r] = MemberAdded(v, User(r))
  BY <1>1, <1>2, <1>3 DEF RequestOK, Putting
<1>4. ASSUME NEW v \in Stored(t), staged[r] = MemberAdded(v, User(r))
      PROVE  /\ staged[r].Boards = v.Boards
             /\ staged[r].Members = Append(v.Members, User(r))
  <2>1. v \in Team
    BY DEF IInv, TypeOK, Stored
  <2>2. QED
    BY <1>4, <2>1 DEF MemberAdded, Team
<1>5. QED
  BY <1>1, <1>3, <1>4

\* A request changes its own team only, and a member's leaves the boards of
\* the version it read as they are.
THEOREM MembersLeaveBoards == Spec => MembersKeepBoards
<1>1. IInv /\ [Next]_vars =>
         [\A r \in Requests, t \in TeamIDs :
            /\ table'[t] # table[t]
            /\ pc[r] \in Putting
            /\ ~wrote[r] /\ wrote'[r]
            => /\ TeamOf(r) = t
               /\ ~req[r].auth.IsAdmin =>
                    \E v \in Stored(t) :
                       /\ table'[t].Boards = v.Boards
                       /\ table'[t].Members \in
                            {v.Members, Append(v.Members, User(r))}]_vars
  BY OnlyPutsWrite, MemberPuts
<1>2. QED
  BY <1>1, Invariance, PTL DEF Spec, MembersKeepBoards

\* The abstract store makes the same teams and the same edits.
LEMMA SameEdits ==
    /\ \A t \in TeamIDs, id \in BoardIDs : Store!NewTeam(t, id) = NewTeam(t, id)
    /\ \A team : Store!Edits(team) = Edits(team)
BY DEF Store!NewTeam, NewTeam, Store!NewBoard, NewBoard, Store!Edits, Edits,
       Store!MemberAdded, MemberAdded, Store!BoardAdded, BoardAdded,
       Store!BoardReplaced, BoardReplaced, Store!BoardRemoved, BoardRemoved,
       Store!Board, Board, Store!IDsOf, IDsOf, Store!RemoveAt, RemoveAt,
       Store!Range, Range

\* A put is a step of the abstract store.
LEMMA PutRefines ==
    ASSUME IInv, NEW r \in Requests, pc[r] \in Putting, ConditionHolds(r),
           Puts(r)
    PROVE  Store!Next
<1>1. PICK t \in TeamIDs : t = TeamOf(r)
  BY StagedIsLegal
<1>2. Store!Write(t, staged[r])
  BY <1>1 DEF Puts, Store!Write
<1>3. RequestOK(r)
  BY DEF IInv
<1>4. CASE pc[r] = "insert"
  BY <1>1, <1>2, <1>3, <1>4, SameEdits
  DEF RequestOK, ConditionHolds, Store!Create, Store!Next
<1>5. CASE pc[r] = "update"
  <2>1. PICK v \in Stored(t) : /\ User(r) \notin Range(v.Members)
                               /\ staged[r] = MemberAdded(v, User(r))
    BY <1>1, <1>3, <1>5 DEF RequestOK
  <2>2. staged[r] \in Edits(v)
    BY <2>1, StagedIsLegal DEF Edits
  <2>3. QED
    BY <1>2, <2>1, <2>2, SameEdits DEF Store!Revise, Store!Next, Stored
<1>6. CASE pc[r] = "put"
  BY <1>1, <1>2, <1>3, <1>6, SameEdits
  DEF RequestOK, Store!Revise, Store!Next, Stored
<1>7. QED
  BY <1>4, <1>5, <1>6 DEF Putting

\* The team service implements the abstract store: whatever the requests do,
\* each change of a team is its creation or one edit of a version it had.
THEOREM Refinement == Spec => StoreRefined
<1>1. Init => Store!Init
  BY DEF Init, Store!Init
<1>2. IInv /\ [Next]_vars => [Store!Next]_(Store!storeVars)
  <2> SUFFICES ASSUME IInv, [Next]_vars
               PROVE  Store!Next \/ UNCHANGED << table, versions >>
    BY DEF Store!storeVars
  <2>1. CASE UNCHANGED vars
    BY <2>1 DEF vars
  <2>2. ASSUME NEW r \in Requests, Arrival(r)
        PROVE  UNCHANGED << table, versions >>
    BY <2>2 DEF Arrival, GetArrives, PostArrives, PatchArrives,
       DeleteArrives, Arrives, store
  <2>3. ASSUME NEW r \in Requests, PutUnanswered(r)
        PROVE  Store!Next
    BY <2>3, PutRefines DEF PutUnanswered
  <2>4. ASSUME NEW r \in Requests, Serves(r)
        PROVE  Store!Next \/ UNCHANGED << table, versions >>
    <3>1. CASE GetInserts(r)
      BY <3>1, PutRefines DEF GetInserts, Putting
    <3>2. CASE GetUpdates(r)
      BY <3>2, PutRefines DEF GetUpdates, Putting, store
    <3>3. CASE BoardPuts(r)
      BY <3>3, PutRefines DEF BoardPuts, Putting, ConditionHolds
    <3>4. CASE \/ GetFindsNone(r) \/ GetFinds(r) \/ GetInsertsDuplicate(r)
               \/ PostReads(r) \/ PatchReads(r) \/ DeleteReads(r)
               \/ CallFails(r)
      BY <3>4 DEF GetFindsNone, GetFinds, GetInsertsDuplicate, PostReads,
         PatchReads, DeleteReads, CallFails, store
    <3>5. QED
      BY <2>4, <3>1, <3>2, <3>3, <3>4 DEF Serves
  <2>5. QED
    BY <2>1, <2>2, <2>3, <2>4 DEF Next
<1>3. QED
  BY <1>1, <1>2, Invariance, PTL DEF Spec, StoreRefined, Store!Spec

(***************************************************************************)
(* Members have claimed their team: whoever is listed in a stored team has *)
(* sent a request with a cookie of it.  GoTeam_proofs relies on this.      *)
(***************************************************************************)
Claimed(t, u) ==
    \E r \in Requests : req[r] # NoReq /\ TeamOf(r) = t /\ User(r) = u
AllClaimed(t, team) == \A i \in DOMAIN team.Members : Claimed(t, team.Members[i])
MembersClaimed ==
    \A t \in TeamIDs : \A team \in Stored(t) : AllClaimed(t, team)

\* A claim, once made, stands.
LEMMA ClaimsStand ==
    ASSUME IInv, [Next]_vars
    PROVE  /\ \A r \in Requests : req[r] # NoReq => req'[r] = req[r]
           /\ \A t, u : Claimed(t, u) => Claimed(t, u)'
           /\ \A t, team : AllClaimed(t, team) => AllClaimed(t, team)'
<1>1. \A r \in Requests : req[r] # NoReq => req'[r] = req[r]
  <2>1. ASSUME NEW q \in Requests, NEW request, NEW rejection,
               Arrives(q, request, rejection)
        PROVE  \A r \in Requests : req[r] # NoReq => req'[r] = req[r]
    <3>1. req[q] = NoReq /\ req \in [Requests -> Reqs \cup {NoReq}]
      BY <2>1 DEF Arrives, IInv, TypeOK, RequestOK
    <3>2. req' = req \/ req' = [req EXCEPT ![q] = request]
      BY <2>1 DEF Arrives
    <3>3. QED
      BY <3>1, <3>2
  <2>2. ASSUME NEW q \in Requests, Arrival(q)
        PROVE  \A r \in Requests : req[r] # NoReq => req'[r] = req[r]
    BY <2>1, <2>2 DEF Arrival, GetArrives, PostArrives, PatchArrives, DeleteArrives
  <2>3. ASSUME NEW q \in Requests, Serves(q) \/ PutUnanswered(q)
        PROVE  req' = req
    BY <2>3 DEF Serves, PutUnanswered, GetFindsNone, GetFinds, GetInserts,
       GetInsertsDuplicate, GetUpdates, PostReads, PatchReads, DeleteReads,
       BoardPuts, CallFails
  <2>4. CASE UNCHANGED vars
    BY <2>4 DEF vars
  <2>5. QED
    BY <2>2, <2>3, <2>4 DEF Next
<1>2. \A t, u : Claimed(t, u) => Claimed(t, u)'
  BY <1>1 DEF Claimed, TeamOf, User
<1>3. \A t, team : AllClaimed(t, team) => AllClaimed(t, team)'
  BY <1>2 DEF AllClaimed
<1>4. QED
  BY <1>1, <1>2, <1>3

\* The copy a request is about to put lists claimants only.
LEMMA StagedClaimed ==
    ASSUME IInv, MembersClaimed, NEW r \in Requests, pc[r] \in Putting
    PROVE  AllClaimed(TeamOf(r), staged[r])
<1>1. /\ TeamOf(r) \in TeamIDs /\ RequestOK(r) /\ req[r] # NoReq
      /\ req[r].auth \in Auths
  BY StagedIsLegal, Running DEF IInv, Putting
<1>2. Claimed(TeamOf(r), User(r))
  BY <1>1 DEF Claimed
<1>3. CASE pc[r] = "insert"
  <2>1. PICK id \in BoardIDs :
           req[r].auth.IsAdmin /\ staged[r] = NewTeam(TeamOf(r), id)
    BY <1>1, <1>3 DEF RequestOK
  <2>2. User(r) = TeamOf(r)
    BY <1>1, <2>1 DEF Auths, User, TeamOf
  <2>3. staged[r].Members = << TeamOf(r) >>
    BY <2>1 DEF NewTeam
  <2>4. QED
    BY <1>2, <2>2, <2>3 DEF AllClaimed
<1>4. CASE pc[r] = "update"
  <2>1. PICK v \in Stored(TeamOf(r)) : staged[r] = MemberAdded(v, User(r))
    BY <1>1, <1>4 DEF RequestOK
  <2>2. v \in Team /\ AllClaimed(TeamOf(r), v)
    BY <1>1, <2>1 DEF MembersClaimed, IInv, TypeOK, Stored
  <2>3. staged[r].Members = Append(v.Members, User(r)) /\ v.Members \in Seq(Users)
    BY <2>1, <2>2 DEF MemberAdded, Team
  <2>4. \A i \in DOMAIN staged[r].Members :
           \/ i \in DOMAIN v.Members /\ staged[r].Members[i] = v.Members[i]
           \/ staged[r].Members[i] = User(r)
    BY <2>3
  <2>5. QED
    BY <1>2, <2>2, <2>4 DEF AllClaimed
<1>5. CASE pc[r] = "put"
  BY <1>1, <1>5 DEF MembersClaimed, RequestOK, AllClaimed
<1>6. QED
  BY <1>3, <1>4, <1>5 DEF Putting

\* A step writes what is staged, and adds it to the versions, or nothing.
LEMMA WritesAreStaged ==
    ASSUME [Next]_vars
    PROVE  \/ UNCHANGED << table, versions >>
           \/ \E r \in Requests : pc[r] \in Putting /\ Puts(r)
<1>1. ASSUME NEW r \in Requests, Arrival(r)
      PROVE  UNCHANGED << table, versions >>
  BY <1>1 DEF Arrival, GetArrives, PostArrives, PatchArrives, DeleteArrives,
     Arrives, store
<1>2. ASSUME NEW r \in Requests, Serves(r) \/ PutUnanswered(r)
      PROVE  \/ UNCHANGED << table, versions >>
             \/ pc[r] \in Putting /\ Puts(r)
  <2>1. CASE GetInserts(r) \/ GetUpdates(r) \/ BoardPuts(r) \/ PutUnanswered(r)
    BY <2>1 DEF GetInserts, GetUpdates, BoardPuts, PutUnanswered, Putting, store
  <2>2. CASE \/ GetFindsNone(r) \/ GetFinds(r) \/ GetInsertsDuplicate(r)
             \/ PostReads(r) \/ PatchReads(r) \/ DeleteReads(r) \/ CallFails(r)
    BY <2>2 DEF GetFindsNone, GetFinds, GetInsertsDuplicate, PostReads,
       PatchReads, DeleteReads, CallFails, store
  <2>3. QED
    BY <1>2, <2>1, <2>2 DEF Serves
<1>3. CASE UNCHANGED vars
  BY <1>3 DEF vars
<1>4. QED
  BY <1>1, <1>2, <1>3 DEF Next

\* The members of every team ever stored have claimed it.
LEMMA MembersHaveClaimed == Spec => []MembersClaimed
<1>1. Init => MembersClaimed
  BY DEF Init, MembersClaimed, Stored
<1>2. IInv /\ MembersClaimed /\ [Next]_vars => MembersClaimed'
  <2> SUFFICES ASSUME IInv, MembersClaimed, [Next]_vars,
                      NEW t \in TeamIDs, NEW team \in Stored(t)'
               PROVE  AllClaimed(t, team)'
    BY DEF MembersClaimed
  <2>1. CASE UNCHANGED << table, versions >>
    BY <2>1, ClaimsStand DEF MembersClaimed, Stored
  <2>2. ASSUME NEW r \in Requests, pc[r] \in Putting, Puts(r)
        PROVE  AllClaimed(t, team)'
    <3>1. \/ team \in Stored(t)
          \/ t = TeamOf(r) /\ team = staged[r]
      BY <2>2 DEF Puts, Stored, IInv, TypeOK
    <3>2. QED
      BY <2>2, <3>1, StagedClaimed, ClaimsStand DEF MembersClaimed
  <2>3. QED
    BY <2>1, <2>2, WritesAreStaged
<1>3. QED
  BY <1>1, <1>2, Invariance, PTL DEF Spec

(***************************************************************************)
(* A team, once stored, stays: a GET /team that answers 200 or 201 leaves  *)
(* the team in the table.  GoTeam_proofs relies on this, too.              *)
(***************************************************************************)
TeamsStay == \A t \in TeamIDs : Stored(t) # {} => table[t] # NoItem

\* No step removes a team.
LEMMA TeamStays ==
    ASSUME IInv, [Next]_vars, NEW t \in TeamIDs, table[t] # NoItem
    PROVE  table'[t] # NoItem
<1>1. ASSUME NEW r \in Requests, pc[r] \in Putting, Puts(r)
      PROVE  table'[t] # NoItem
  BY <1>1, StagedIsLegal, TeamDataAssumption DEF Puts, IInv, TypeOK
<1>2. QED
  BY <1>1, WritesAreStaged

\* Every team that was ever stored is there.
LEMMA TeamsHaveStayed == Spec => []TeamsStay
<1>1. Init => TeamsStay
  BY DEF Init, TeamsStay, Stored
<1>2. IInv /\ TeamsStay /\ [Next]_vars => TeamsStay'
  <2> SUFFICES ASSUME IInv, TeamsStay, [Next]_vars,
                      NEW t \in TeamIDs, Stored(t)' # {}, table[t] = NoItem
               PROVE  table'[t] # NoItem
    BY TeamStays DEF TeamsStay
  <2>1. versions'[t] # versions[t]
    BY DEF TeamsStay, Stored
  <2>2. PICK r \in Requests : pc[r] \in Putting /\ Puts(r)
    BY <2>1, WritesAreStaged
  <2>3. t = TeamOf(r)
    BY <2>1, <2>2 DEF Puts, IInv, TypeOK
  <2>4. QED
    BY <2>2, <2>3, StagedIsLegal, TeamDataAssumption DEF Puts, IInv, TypeOK
<1>3. QED
  BY <1>1, <1>2, Invariance, PTL DEF Spec

\* GET /team answers 200 or 201 only if there is a team.
LEMMA AnswersFindTeam ==
    ASSUME IInv, TeamsStay, NEW r \in Requests, Serves(r) \/ PutUnanswered(r),
           req[r].op = "GET", resp'[r] \in {200, 201}
    PROVE  TeamOf(r) \in TeamIDs /\ table'[TeamOf(r)] # NoItem
<1>1. /\ pc[r] \notin {"idle", "done"} /\ RequestOK(r)
      /\ resp \in [Requests -> Statuses \cup {0}]
  BY DEF IInv, TypeOK, Serves, PutUnanswered, Putting, GetFindsNone, GetFinds,
     GetInserts, GetInsertsDuplicate, GetUpdates, PostReads, PatchReads,
     DeleteReads, BoardPuts, CallFails
<1>2. TeamOf(r) \in TeamIDs /\ resp[r] = 0
  BY <1>1, Running
<1>3. [Next]_vars
  BY DEF Next
<1>4. CASE table[TeamOf(r)] # NoItem
  BY <1>2, <1>3, <1>4, TeamStays
<1>5. CASE pc[r] \in Putting /\ Puts(r)
  BY <1>2, <1>5, StagedIsLegal, TeamDataAssumption DEF Puts, IInv, TypeOK
<1>6. CASE GetFinds(r)
  <2>1. PICK team \in GetItem(TeamOf(r)) : team # NoItem
    BY <1>6 DEF GetFinds
  <2>2. team \in Stored(TeamOf(r))
    BY <1>2, <2>1, FoundIsLegal
  <2>3. QED
    BY <1>2, <1>4, <2>2 DEF TeamsStay
<1>7. CASE GetInsertsDuplicate(r)
  BY <1>4, <1>7 DEF GetInsertsDuplicate, ConditionHolds
<1>8. CASE GetFindsNone(r) \/ CallFails(r)
  BY <1>1, <1>2, <1>8 DEF GetFindsNone, CallFails, Answers
<1>9. CASE GetInserts(r) \/ PutUnanswered(r)
  BY <1>5, <1>9 DEF GetInserts, PutUnanswered, Putting
<1>10. CASE GetUpdates(r)
  BY <1>1, <1>2, <1>5, <1>10 DEF GetUpdates, Putting, Answers
<1>11. CASE PostReads(r) \/ PatchReads(r) \/ DeleteReads(r) \/ BoardPuts(r)
  BY <1>1, <1>11 DEF PostReads, PatchReads, DeleteReads, BoardPuts, RequestOK
<1>12. QED
  BY <1>6, <1>7, <1>8, <1>9, <1>10, <1>11 DEF Serves

=============================================================================
