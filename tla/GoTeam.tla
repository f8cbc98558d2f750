------------------------------- MODULE GoTeam -------------------------------
(***************************************************************************)
(* The user service and the team service together.  They share no state    *)
(* and do not call each other: what the team service knows of a user is    *)
(* the auth cookie that the user service issued and the client sends       *)
(* along, and what the user service knows of a team is the token a client  *)
(* registers with: the invite that GET /team gave to its admin, or the     *)
(* auth cookie of anybody in the team, though it was never stored.         *)
(***************************************************************************)
CONSTANTS Users, Passwords, BoardIDs, Names, NewName, MemberLists, MaxBoards,
          UserRequests, TeamRequests, EventualReads,
          NoItem, NoReq, NoInvite, NoCookie

VARIABLES users, invites, ureq, upc, uresp, cookie, stored, \* user service
          table, versions, treq, tpc, staged, shown, tries, tresp, wrote
userVars == << users, invites, ureq, upc, uresp, cookie, stored >>
teamVars == << table, versions, treq, tpc, staged, shown, tries, tresp, wrote >>
vars == << userVars, teamVars >>

U == INSTANCE UserService WITH
        Requests <- UserRequests, NoUser <- NoItem, NoAuth <- NoCookie,
        req <- ureq, pc <- upc, resp <- uresp, auth <- cookie
T == INSTANCE TeamService WITH
        Requests <- TeamRequests, TeamIDs <- Users,
        req <- treq, pc <- tpc, resp <- tresp

\* The constants suit both services.
ASSUME GoTeamAssumption ==
    /\ U!UserServiceAssumption
    /\ T!TeamDataAssumption /\ T!TeamServiceAssumption

Init == U!Init /\ T!Init

UserStep(r) ==
    /\ U!Arrival(r) \/ U!Serves(r) \/ U!InsertUnanswered(r)
    /\ UNCHANGED teamVars

\* A client sends the cookie it was answered with, or none.
Cookies == {cookie[r] : r \in UserRequests} \ {NoCookie}

TeamArrival(r) ==
    /\ T!Arrival(r)
    /\ treq'[r] # NoReq => treq'[r].auth \in Cookies
    /\ UNCHANGED userVars

\* Mutant: a member is given an invite, too, and one by their own name.
TeamServesAnyInvite(r) ==
    /\ T!Serves(r) \/ T!PutUnanswered(r)
    /\ IF treq[r].op = "GET" /\ tresp'[r] \in {200, 201}
       THEN invites' = invites \cup {T!User(r)}
       ELSE UNCHANGED invites
    /\ UNCHANGED << users, ureq, upc, uresp, cookie, stored >>

\* Mutant: the invite goes out though the team could not be stored.
HandsOutAtOnce(r) == T!User(r) = T!TeamOf(r) /\ tpc'[r] = "done"

\* The answer of GET /team to an admin carries an invite token, and the
\* users it is handed to may use it from then on.
HandsOutInvite(r) == T!User(r) = T!TeamOf(r) /\ tresp'[r] \in {200, 201}

TeamServes(r) ==
    /\ T!Serves(r) \/ T!PutUnanswered(r)
    /\ IF treq[r].op = "GET" /\ HandsOutInvite(r)
       THEN invites' = invites \cup {T!TeamOf(r)}
       ELSE UNCHANGED invites
    /\ UNCHANGED << users, ureq, upc, uresp, cookie, stored >>

Next ==
    \/ \E r \in UserRequests : UserStep(r)
    \/ \E r \in TeamRequests : TeamArrival(r) \/ TeamServes(r)

Spec == Init /\ [][Next]_vars

-----------------------------------------------------------------------------
(***************************************************************************)
(* Properties.                                                             *)
(***************************************************************************)

\* What UserService assumes of the team service holds: an invite token is
\* only issued for the team of a user who is registered as its admin.
UserServiceKept == U!Spec

\* What TeamService assumes of the user service holds: a cookie makes its
\* user the admin of the team named after them or a member of another.
CookiesAreClaims == Cookies \subseteq T!Auths

\* Every member a team ever had is a user of that team: the team service
\* adds the user a cookie names without asking the user table.
MembersAreUsers ==
    \A t \in Users : \A team \in T!Stored(t) :
        \A i \in DOMAIN team.Members :
            LET user == users[team.Members[i]]
            IN  user # NoItem /\ user.TeamID = t

\* An invite leads somewhere, whenever it is used: to a team that is in the
\* table, though the 201 that carried it may have stored none (another GET
\* had), and whose admin is registered.
InvitesLeadToTeams ==
    \A t \in invites : table[t] # NoItem /\ users[t] # NoItem

=============================================================================
