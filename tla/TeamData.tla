------------------------------ MODULE TeamData ------------------------------
(***************************************************************************)
(* The items of the team table (pkg/db/teamtbl) and the edits the team     *)
(* service makes to them.  A team is one DynamoDB item: its ID is the      *)
(* username of its admin, its members are usernames and its boards are     *)
(* embedded in it, so every edit rewrites the whole item.                  *)
(***************************************************************************)
EXTENDS Naturals, SequencesExt

CONSTANTS Users,       \* usernames
          TeamIDs,     \* usernames of admins
          BoardIDs,    \* the UUIDs uuid.NewString can return
          Names,       \* board names that pass boardapi.NameValidator
          NewName,     \* "New Board"
          MemberLists, \* the member lists a PATCH /board body can carry
          MaxBoards,   \* boards a team may have, 3 in the code
          NoItem       \* what GetItem returns for a key with no item

Board == [ID : BoardIDs, Name : Names, Members : MemberLists]
Team  == [ID : TeamIDs, Members : Seq(Users), Boards : Seq(Board)]

ASSUME TeamDataAssumption ==
    /\ TeamIDs \subseteq Users
    /\ NewName \in Names
    /\ MemberLists \subseteq Seq(Users)
    /\ << >> \in MemberLists
    /\ MaxBoards \in Nat \ {0}
    /\ NoItem \notin Team

NewBoard(id, name) == [ID |-> id, Name |-> name, Members |-> << >>]

\* Mutant: the admin is not made a member.
NewTeamWithoutAdmin(t, id) ==
    [ID |-> t, Members |-> << >>, Boards |-> << NewBoard(id, NewName) >>]

\* The team GET /team creates for an admin who has none yet.
NewTeam(t, id) ==
    [ID |-> t, Members |-> << t >>, Boards |-> << NewBoard(id, NewName) >>]

IDsOf(team) == {team.Boards[i].ID : i \in DOMAIN team.Boards}

(***************************************************************************)
(* The edits.                                                              *)
(***************************************************************************)

\* Mutant: the boards are filtered for the answer before the team is put.
MemberAddedFiltered(team, u) ==
    [team EXCEPT !.Members = Append(@, u),
                 !.Boards = SelectSeq(@, LAMBDA b : u \in Range(b.Members))]
MemberAdded(team, u) == [team EXCEPT !.Members = Append(@, u)]
BoardAdded(team, b) == [team EXCEPT !.Boards = Append(@, b)]
BoardReplaced(team, b) ==
    [team EXCEPT !.Boards =
        [i \in DOMAIN @ |-> IF /\ @[i].ID = b.ID
                              /\ \A j \in 1 .. (i - 1) : @[j].ID # b.ID
                           THEN b ELSE @[i]]]
BoardRemoved(team, i) == [team EXCEPT !.Boards = RemoveAt(@, i)]

\* The items one edit of the API makes of a team.
Edits(team) ==
    {MemberAdded(team, u) : u \in Users \ Range(team.Members)}
    \cup (IF Len(team.Boards) < MaxBoards
          THEN {BoardAdded(team, b) :
                  b \in {c \in Board : c.ID \notin IDsOf(team)}}
          ELSE {})
    \cup {BoardReplaced(team, b) : b \in {c \in Board : c.ID \in IDsOf(team)}}
    \cup {BoardRemoved(team, i) : i \in DOMAIN team.Boards}

\* The boards GET /team shows to a user who is not the team's admin.
VisibleBoards(team, u) == {b \in Range(team.Boards) : u \in Range(b.Members)}

(***************************************************************************)
(* What every stored team satisfies.                                       *)
(***************************************************************************)
BoardsWithinLimit(team) == Len(team.Boards) <= MaxBoards
BoardIDsDistinct(team) ==
    \A i, j \in DOMAIN team.Boards :
        team.Boards[i].ID = team.Boards[j].ID => i = j
MembersDistinct(team) == IsInjective(team.Members)
AdminIsMember(t, team) == team.ID = t /\ t \in Range(team.Members)

LegalTeam(t, team) ==
    /\ BoardsWithinLimit(team)
    /\ BoardIDsDistinct(team)
    /\ MembersDistinct(team)
    /\ AdminIsMember(t, team)

=============================================================================
