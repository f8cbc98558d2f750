--------------------------- MODULE GoTeam_proofs ----------------------------
(***************************************************************************)
(* Proofs about the two services together.  Each is proved correct in a    *)
(* module of its own, under the assumption that the other keeps to what it *)
(* is modelled to do: the user service, that an invite is issued to a      *)
(* registered admin; the team service, that a cookie has the claims of a   *)
(* member or of an admin.  Here both assumptions are discharged, and what  *)
(* relates the two tables follows.                                         *)
(***************************************************************************)
EXTENDS GoTeam, TLAPS

UP == INSTANCE UserService_proofs WITH
        Requests <- UserRequests, NoUser <- NoItem, NoAuth <- NoCookie,
        req <- ureq, pc <- upc, resp <- uresp, auth <- cookie
TP == INSTANCE TeamService_proofs WITH
        Requests <- TeamRequests, TeamIDs <- Users,
        req <- treq, pc <- tpc, resp <- tresp

\* The service the proofs are about is the one composed here.
LEMMA SameUserInvariant ==
    /\ UP!IInv <=> U!IInv
    /\ UP!IInv' <=> U!IInv'
BY DEF UP!IInv, U!IInv, UP!TypeOK, U!TypeOK,
       UP!CookiesMatchUsers, U!CookiesMatchUsers,
       UP!AdminsOwnTeams, U!AdminsOwnTeams,
       UP!RegisteredIsStored, U!RegisteredIsStored,
       UP!TeamsOfAdmins, U!TeamsOfAdmins, UP!RequestOK, U!RequestOK,
       UP!User, U!User, UP!Auth, U!Auth, UP!NewUser, U!NewUser,
       UP!RegisterReqs, U!RegisterReqs, UP!LoginReqs, U!LoginReqs,
       UP!Reqs, U!Reqs, UP!Answers, U!Answers

\* Its initial states and steps are those composed here, too.
LEMMA SameUserService ==
    /\ UP!Init <=> U!Init
    /\ UP!Next <=> U!Next
    /\ UP!vars = U!vars
    /\ UP!vars' = U!vars'
BY DEF UP!Init, U!Init, UP!vars, U!vars, UP!store, U!store, UP!Next, U!Next,
       UP!Arrival, U!Arrival, UP!Serves, U!Serves,
       UP!InsertUnanswered, U!InsertUnanswered, UP!Invites, U!Invites,
       UP!TokenTeams, U!TokenTeams,
       UP!RegisterArrives, U!RegisterArrives, UP!LoginArrives, U!LoginArrives,
       UP!Rejected, U!Rejected, UP!LetIn, U!LetIn, UP!Answered, U!Answered,
       UP!InsertAnswers, U!InsertAnswers, UP!InsertDuplicate, U!InsertDuplicate,
       UP!LoginReads, U!LoginReads, UP!CallFails, U!CallFails,
       UP!InsertsUser, U!InsertsUser, UP!IsFree, U!IsFree,
       UP!SignsIn, U!SignsIn, UP!GetItem, U!GetItem, UP!NewUser, U!NewUser,
       UP!RegisterReqs, U!RegisterReqs, UP!LoginReqs, U!LoginReqs

\* The composition assumes what the user service does.
LEMMA SameUserAssumption == UP!UserServiceAssumption
BY GoTeamAssumption
   DEF UP!UserServiceAssumption, U!UserServiceAssumption,
       UP!User, U!User, UP!Auth, U!Auth, UP!Reqs, U!Reqs,
       UP!RegisterReqs, U!RegisterReqs, UP!LoginReqs, U!LoginReqs

\* So what is proved of it holds here.
LEMMA UserInit == U!Init => U!IInv
BY UP!InitInv, SameUserInvariant, SameUserService, SameUserAssumption

\* Every step of the user service keeps its invariant.
LEMMA UserNext == U!IInv /\ [U!Next]_(U!vars) => U!IInv'
BY UP!NextInv, SameUserInvariant, SameUserService, SameUserAssumption

\* The team service the proofs are about is the one composed here.
LEMMA SameTeamService ==
    /\ TP!Init <=> T!Init
    /\ TP!Next <=> T!Next
    /\ TP!vars = T!vars
    /\ \A r \in TeamRequests : /\ TP!Serves(r) <=> T!Serves(r)
                               /\ TP!PutUnanswered(r) <=> T!PutUnanswered(r)
BY DEF TP!Init, T!Init, TP!vars, T!vars, TP!store, T!store, TP!Next, T!Next,
       TP!Arrival, T!Arrival, TP!Serves, T!Serves,
       TP!PutUnanswered, T!PutUnanswered, TP!GetArrives, T!GetArrives,
       TP!PostArrives, T!PostArrives, TP!PatchArrives, T!PatchArrives,
       TP!DeleteArrives, T!DeleteArrives, TP!Arrives, T!Arrives,
       TP!BoardRejection, T!BoardRejection, TP!Bodies, T!Bodies,
       TP!GetReqs, T!GetReqs, TP!PostReqs, T!PostReqs, TP!PatchReqs, T!PatchReqs,
       TP!DeleteReqs, T!DeleteReqs, TP!Claims, T!Claims, TP!Auths, T!Auths,
       TP!NoAuth, T!NoAuth, TP!Board, T!Board, TP!TeamOf, T!TeamOf, TP!User, T!User,
       TP!Goes, T!Goes, TP!Stages, T!Stages, TP!Answers, T!Answers,
       TP!GetItem, T!GetItem, TP!Puts, T!Puts, TP!ConditionHolds, T!ConditionHolds,
       TP!Putting, T!Putting, TP!TriesLeft, T!TriesLeft, TP!CountsTry, T!CountsTry,
       TP!CallFails, T!CallFails, TP!GetAnswers, T!GetAnswers,
       TP!VisibleBoards, T!VisibleBoards, TP!Range, T!Range,
       TP!GetFindsNone, T!GetFindsNone, TP!NewTeam, T!NewTeam, TP!NewBoard, T!NewBoard,
       TP!IsMember, T!IsMember, TP!GetFinds, T!GetFinds, TP!MemberAdded, T!MemberAdded,
       TP!GetInserts, T!GetInserts, TP!GetInsertsDuplicate, T!GetInsertsDuplicate,
       TP!GetUpdates, T!GetUpdates, TP!Replies, T!Replies, TP!WillPut, T!WillPut,
       TP!LimitReached, T!LimitReached, TP!IDTaken, T!IDTaken, TP!IDsOf, T!IDsOf,
       TP!PostReads, T!PostReads, TP!BoardAdded, T!BoardAdded,
       TP!PatchReads, T!PatchReads, TP!BoardReplaced, T!BoardReplaced,
       TP!DeleteReads, T!DeleteReads, TP!BoardRemoved, T!BoardRemoved,
       TP!RemoveAt, T!RemoveAt, TP!BoardPuts, T!BoardPuts

\* The composition assumes what the team service does.
LEMMA SameTeamAssumption == TP!TeamDataAssumption /\ TP!TeamServiceAssumption
BY GoTeamAssumption
   DEF TP!TeamDataAssumption, T!TeamDataAssumption, TP!TeamServiceAssumption,
       T!TeamServiceAssumption, TP!Team, T!Team, TP!Board, T!Board,
       TP!Reqs, T!Reqs, TP!GetReqs, T!GetReqs, TP!PostReqs, T!PostReqs,
       TP!PatchReqs, T!PatchReqs, TP!DeleteReqs, T!DeleteReqs, TP!Claims, T!Claims,
       TP!Auths, T!Auths, TP!NoAuth, T!NoAuth

\* What is proved of the team service and used here.
TeamKeeps == TP!IInv /\ TP!MembersClaimed /\ TP!TeamsStay

\* Any behaviour of the team service keeps it.
LEMMA TeamSpec == T!Spec => []TeamKeeps
<1>1. [T!Next]_(T!vars) <=> [TP!Next]_(TP!vars)
  BY SameTeamService DEF T!vars, TP!vars
<1>2. T!Init <=> TP!Init
  BY SameTeamService
<1>3. T!Spec => TP!Spec
  BY <1>1, <1>2, PTL DEF T!Spec, TP!Spec
<1>4. TP!Spec => []TP!IInv
  BY TP!Invariance, SameTeamAssumption
<1>5. TP!Spec => []TP!MembersClaimed
  BY TP!MembersHaveClaimed, SameTeamAssumption
<1>6. TP!Spec => []TP!TeamsStay
  BY TP!TeamsHaveStayed, SameTeamAssumption
<1> QED
  BY <1>3, <1>4, <1>5, <1>6, PTL DEF TeamKeeps

-----------------------------------------------------------------------------
(***************************************************************************)
(* The two services keep what each assumes of the other.                   *)
(***************************************************************************)

\* The requests the team service has let in carry cookies that were issued.
ClaimsIssued ==
    treq \in [TeamRequests -> {q \in T!Reqs : q.auth \in Cookies} \cup {NoReq}]

\* A cookie, once issued, stands.
LEMMA CookiesStand ==
    ASSUME U!IInv, [U!Next]_(U!vars)
    PROVE  Cookies \subseteq Cookies'
<1>1. \A q \in UserRequests : cookie[q] # NoCookie => cookie'[q] = cookie[q]
  <2>1. ASSUME NEW r \in UserRequests, NEW u, NEW user, NEW otherwise,
               upc[r] # "done", U!SignsIn(r, u, user, otherwise)
        PROVE  \A q \in UserRequests : cookie[q] # NoCookie => cookie'[q] = cookie[q]
    <3>1. cookie[r] = NoCookie
      BY <2>1 DEF U!IInv, U!RequestOK
    <3>2. QED
      BY <2>1, <3>1 DEF U!SignsIn, U!IInv, U!TypeOK
  <2>2. ASSUME NEW r \in UserRequests,
               U!Arrival(r) \/ U!Serves(r) \/ U!InsertUnanswered(r)
        PROVE  \A q \in UserRequests : cookie[q] # NoCookie => cookie'[q] = cookie[q]
    <3>1. CASE \/ U!Arrival(r) \/ U!InsertDuplicate(r) \/ U!CallFails(r)
               \/ U!InsertUnanswered(r)
      BY <3>1 DEF U!Arrival, U!RegisterArrives, U!LoginArrives, U!Rejected,
         U!LetIn, U!InsertDuplicate, U!CallFails, U!InsertUnanswered
    <3>2. CASE U!InsertAnswers(r)
      BY <2>1, <3>2 DEF U!InsertAnswers, U!InsertsUser
    <3>3. CASE U!LoginReads(r)
      BY <2>1, <3>3 DEF U!LoginReads
    <3>4. QED
      BY <2>2, <3>1, <3>2, <3>3 DEF U!Serves
  <2>3. CASE UNCHANGED U!vars \/ \E t \in Users : U!Invites(t)
    BY <2>3 DEF U!vars, U!Invites
  <2>4. QED
    BY <2>2, <2>3 DEF U!Next
<1>2. QED
  BY <1>1 DEF Cookies

\* A cookie of a team that is named after its user makes them its admin.
LEMMA CookiesAreAuths ==
    ASSUME U!IInv, NEW c \in Cookies
    PROVE  /\ c \in U!Auth
           /\ c.IsAdmin <=> c.Username = c.TeamID
           /\ users[c.Username] # NoItem /\ users[c.Username].TeamID = c.TeamID
<1>1. PICK q \in UserRequests : c = cookie[q] /\ cookie[q] # NoCookie
  BY DEF Cookies
<1>2. c \in U!Auth
  BY <1>1 DEF U!IInv, U!TypeOK
<1>3. c.Username \in Users
  BY <1>2 DEF U!Auth
<1>4. /\ users[c.Username] # NoItem
      /\ users[c.Username].IsAdmin = c.IsAdmin
      /\ users[c.Username].TeamID = c.TeamID
  BY <1>1 DEF U!IInv, U!CookiesMatchUsers
<1>5. users[c.Username].IsAdmin <=> users[c.Username].TeamID = c.Username
  BY <1>3, <1>4 DEF U!IInv, U!AdminsOwnTeams
<1>6. QED
  BY <1>2, <1>4, <1>5

\* A request that the team service answers was let in, and stays as it is.
LEMMA ServedIsLetIn ==
    ASSUME TP!IInv, NEW r \in TeamRequests, T!Serves(r) \/ T!PutUnanswered(r)
    PROVE  treq[r] # NoReq /\ treq' = treq
<1>1. tpc[r] \notin {"idle", "done"}
  BY DEF T!Serves, T!PutUnanswered, T!Putting, T!GetFindsNone, T!GetFinds,
     T!GetInserts, T!GetInsertsDuplicate, T!GetUpdates, T!PostReads, T!PatchReads,
     T!DeleteReads, T!BoardPuts, T!CallFails
<1>2. treq[r] # NoReq
  BY <1>1 DEF TP!IInv, TP!RequestOK
<1>3. treq' = treq
  BY DEF T!Serves, T!PutUnanswered, T!GetFindsNone, T!GetFinds,
     T!GetInserts, T!GetInsertsDuplicate, T!GetUpdates, T!PostReads, T!PatchReads,
     T!DeleteReads, T!BoardPuts, T!CallFails
<1>4. QED
  BY <1>2, <1>3

\* An invite is handed out to an admin who is signed in.
LEMMA InviteStep ==
    ASSUME U!IInv, ClaimsIssued, TP!IInv, NEW r \in TeamRequests, TeamServes(r)
    PROVE  [U!Next]_(U!vars)
<1>1. treq[r] # NoReq
  BY ServedIsLetIn DEF TeamServes
<1>2. treq[r].auth \in Cookies
  BY <1>1 DEF ClaimsIssued
<1>3. CASE treq[r].op = "GET" /\ HandsOutInvite(r)
  <2> DEFINE c == treq[r].auth
  <2>1. c.Username = c.TeamID
    BY <1>3 DEF HandsOutInvite, T!User, T!TeamOf
  <2>2. c \in U!Auth /\ c.IsAdmin
    BY <1>2, <2>1, CookiesAreAuths
  <2>3. c.TeamID \in Users
    BY <2>2 DEF U!Auth
  <2>4. PICK q \in UserRequests : c = cookie[q] /\ cookie[q] # NoCookie
    BY <1>2 DEF Cookies
  <2>5. /\ invites' = invites \cup {c.TeamID}
        /\ UNCHANGED << users, ureq, upc, uresp, cookie, stored >>
    BY <1>3 DEF TeamServes, T!TeamOf
  <2>6. U!Invites(c.TeamID)
    BY <2>2, <2>4, <2>5 DEF U!Invites
  <2>7. QED
    BY <2>3, <2>6 DEF U!Next
<1>4. CASE ~(treq[r].op = "GET" /\ HandsOutInvite(r))
  BY <1>4 DEF TeamServes, U!vars
<1>5. QED
  BY <1>3, <1>4

\* Every step of the two services is one of the user service, or none.
LEMMA UserServiceStep ==
    ASSUME U!IInv, ClaimsIssued, TP!IInv, [Next]_vars
    PROVE  [U!Next]_(U!vars)
<1>1. ASSUME NEW r \in UserRequests, UserStep(r)
      PROVE  U!Next
  BY <1>1 DEF UserStep, U!Next
<1>2. ASSUME NEW r \in TeamRequests, TeamArrival(r)
      PROVE  UNCHANGED U!vars
  BY <1>2 DEF TeamArrival, userVars, U!vars
<1>3. CASE UNCHANGED vars
  BY <1>3 DEF vars, userVars, U!vars
<1>4. QED
  BY <1>1, <1>2, <1>3, InviteStep DEF Next

\* Requests go on to carry cookies that were issued.
LEMMA ClaimsStep ==
    ASSUME U!IInv, ClaimsIssued, TP!IInv, [Next]_vars
    PROVE  ClaimsIssued'
<1>1. Cookies \subseteq Cookies'
  BY UserServiceStep, CookiesStand
<1>2. CASE treq' = treq
  BY <1>1, <1>2 DEF ClaimsIssued
<1>3. ASSUME NEW r \in TeamRequests, TeamArrival(r)
      PROVE  ClaimsIssued'
  <2>1. ASSUME NEW request \in T!Reqs, NEW rejection, T!Arrives(r, request, rejection)
        PROVE  ClaimsIssued'
    <3>1. treq' = treq \/ treq' = [treq EXCEPT ![r] = request]
      BY <2>1 DEF T!Arrives
    <3>2. request # NoReq
      BY GoTeamAssumption DEF T!TeamServiceAssumption
    <3>3. treq' = [treq EXCEPT ![r] = request] => request.auth \in Cookies
      BY <1>3, <3>2 DEF TeamArrival, ClaimsIssued
    <3>4. QED
      BY <1>1, <3>1, <3>3 DEF ClaimsIssued
  <2>2. T!Arrival(r)
    BY <1>3 DEF TeamArrival
  <2>3. QED
    BY <2>1, <2>2 DEF T!Arrival, T!GetArrives, T!PostArrives, T!PatchArrives,
       T!DeleteArrives, T!Reqs
<1>4. ASSUME NEW r \in TeamRequests, TeamServes(r)
      PROVE  treq' = treq
  BY <1>4, ServedIsLetIn DEF TeamServes
<1>5. CASE UNCHANGED vars \/ \E r \in UserRequests : UserStep(r)
  BY <1>2, <1>5 DEF vars, teamVars, UserStep
<1>6. QED
  BY <1>2, <1>3, <1>4, <1>5 DEF Next

\* Every step of the two services is one of the team service, or none, and
\* so what is proved of the team service holds.
LEMMA TeamServiceKept == Spec => []TeamKeeps
<1>1. Init => T!Init
  BY DEF Init
<1>2. [Next]_vars => [T!Next]_(T!vars)
  BY DEF Next, vars, teamVars, T!vars, UserStep, TeamArrival, TeamServes, T!Next
<1>3. QED
  BY <1>1, <1>2, TeamSpec, PTL DEF Spec, T!Spec

\* The user service's invariant holds, and the team service is sent cookies
\* of the user service.
LEMMA Invariance == Spec => [](U!IInv /\ ClaimsIssued)
<1>1. Init => U!IInv /\ ClaimsIssued
  BY UserInit DEF Init, T!Init, ClaimsIssued
<1>2. U!IInv /\ ClaimsIssued /\ TP!IInv /\ [Next]_vars => (U!IInv /\ ClaimsIssued)'
  BY UserServiceStep, UserNext, ClaimsStep
<1>3. QED
  BY <1>1, <1>2, TeamServiceKept, PTL DEF TeamKeeps, Spec

\* The team service keeps what the user service assumes of it: it issues an
\* invite for the team of a registered admin only.
THEOREM InvitesAreKept == Spec => UserServiceKept
<1>1. Init => U!Init
  BY DEF Init
<1>2. U!IInv /\ ClaimsIssued /\ TP!IInv /\ [Next]_vars => [U!Next]_(U!vars)
  BY UserServiceStep
<1>3. QED
  BY <1>1, <1>2, Invariance, TeamServiceKept, PTL DEF TeamKeeps, Spec, UserServiceKept, U!Spec

\* The user service keeps what the team service assumes of it: the claims
\* of a cookie are those of a member or of an admin.
THEOREM CookiesAreGenuine == Spec => []CookiesAreClaims
<1>1. U!IInv => CookiesAreClaims
  BY CookiesAreAuths DEF CookiesAreClaims, T!Auths, U!Auth
<1>2. QED
  BY <1>1, Invariance, PTL

\* Whoever any version of a team lists is a user, and of that team.
THEOREM MembersAreRegistered == Spec => []MembersAreUsers
<1>1. U!IInv /\ ClaimsIssued /\ TP!MembersClaimed => MembersAreUsers
  <2> SUFFICES ASSUME U!IInv, ClaimsIssued, TP!MembersClaimed,
                      NEW t \in Users, NEW team \in T!Stored(t),
                      NEW i \in DOMAIN team.Members
               PROVE  /\ users[team.Members[i]] # NoItem
                      /\ users[team.Members[i]].TeamID = t
    BY DEF MembersAreUsers
  <2>1. TP!Claimed(t, team.Members[i])
    BY DEF TP!MembersClaimed, TP!AllClaimed, TP!Stored, T!Stored
  <2>2. PICK r \in TeamRequests : /\ treq[r] # NoReq
                                  /\ treq[r].auth.TeamID = t
                                  /\ treq[r].auth.Username = team.Members[i]
    BY <2>1 DEF TP!Claimed, TP!TeamOf, TP!User
  <2>3. treq[r].auth \in Cookies
    BY <2>2 DEF ClaimsIssued
  <2>4. QED
    BY <2>2, <2>3, CookiesAreAuths
<1>2. QED
  BY <1>1, Invariance, TeamServiceKept, PTL DEF TeamKeeps

\* An invite is for a team that is there.
InvitesStored == \A t \in invites : table[t] # NoItem

\* It was handed out once the team was stored, by this GET or another, and a
\* team that is stored stays.
LEMMA InvitesToTeams ==
    ASSUME U!IInv, TeamKeeps, InvitesStored, NEW r \in TeamRequests, TeamServes(r)
    PROVE  InvitesStored'
<1>1. TP!Serves(r) \/ TP!PutUnanswered(r)
  BY SameTeamService DEF TeamServes
<1>2. [TP!Next]_(TP!vars)
  BY <1>1 DEF TP!Next
<1>3. \A t \in invites : table'[t] # NoItem
  BY <1>2, TP!TeamStays, SameTeamAssumption
  DEF TeamKeeps, InvitesStored, U!IInv, U!TypeOK
<1>4. CASE treq[r].op = "GET" /\ HandsOutInvite(r)
  <2>1. invites' = invites \cup {T!TeamOf(r)}
    BY <1>4 DEF TeamServes
  <2>2. table'[TP!TeamOf(r)] # NoItem
    BY <1>1, <1>4, TP!AnswersFindTeam, SameTeamAssumption
    DEF TeamKeeps, HandsOutInvite
  <2>3. T!TeamOf(r) = TP!TeamOf(r)
    BY DEF T!TeamOf, TP!TeamOf
  <2>4. QED
    BY <1>3, <2>1, <2>2, <2>3 DEF InvitesStored
<1>5. CASE ~(treq[r].op = "GET" /\ HandsOutInvite(r))
  BY <1>3, <1>5 DEF TeamServes, InvitesStored
<1>6. QED
  BY <1>4, <1>5

\* An invite leads to a stored team of a registered admin, however late it
\* is used and whichever of racing GETs stored the team.
THEOREM InvitesFindTeams == Spec => []InvitesLeadToTeams
<1>1. Init => InvitesStored
  BY DEF Init, U!Init, InvitesStored
<1>2. U!IInv /\ TeamKeeps /\ InvitesStored /\ [Next]_vars => InvitesStored'
  <2>1. ASSUME NEW r \in TeamRequests, TeamArrival(r)
        PROVE  UNCHANGED << invites, table >>
    BY <2>1 DEF TeamArrival, userVars, T!Arrival, T!GetArrives, T!PostArrives,
       T!PatchArrives, T!DeleteArrives, T!Arrives, T!store
  <2>2. ASSUME NEW r \in UserRequests, UserStep(r)
        PROVE  UNCHANGED << invites, table >>
    BY <2>2 DEF UserStep, teamVars, U!Arrival, U!RegisterArrives, U!LoginArrives,
       U!Rejected, U!LetIn, U!Serves, U!InsertAnswers, U!InsertUnanswered,
       U!InsertsUser, U!InsertDuplicate, U!LoginReads, U!CallFails, U!store
  <2>3. CASE UNCHANGED << invites, table >>
    BY <2>3 DEF InvitesStored
  <2>4. QED
    BY <2>1, <2>2, <2>3, InvitesToTeams DEF Next, vars, userVars, teamVars
<1>3. U!IInv /\ InvitesStored => InvitesLeadToTeams
  BY DEF U!IInv, U!TeamsOfAdmins, InvitesStored, InvitesLeadToTeams
<1>4. QED
  BY <1>1, <1>2, <1>3, Invariance, TeamServiceKept, PTL DEF Spec

=============================================================================
