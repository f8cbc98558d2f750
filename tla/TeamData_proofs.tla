-------------------------- MODULE TeamData_proofs ---------------------------
(***************************************************************************)
(* The edits of the API keep a legal team legal.                           *)
(***************************************************************************)
EXTENDS TeamData, SequenceTheorems, TLAPS

\* A team just created is legal: one board, one member, its admin.
LEMMA NewTeamIsLegal ==
    ASSUME NEW t \in TeamIDs, NEW id \in BoardIDs
    PROVE  NewTeam(t, id) \in Team /\ LegalTeam(t, NewTeam(t, id))
<1> DEFINE b == NewBoard(id, NewName)
<1>1. b \in Board
  BY TeamDataAssumption DEF NewBoard, Board
<1>2. NewTeam(t, id) = [ID |-> t, Members |-> << t >>, Boards |-> << b >>]
  BY DEF NewTeam
<1>3. t \in Users
  BY TeamDataAssumption
<1>4. NewTeam(t, id) \in Team
  BY <1>1, <1>2, <1>3 DEF Team
<1>5. LegalTeam(t, NewTeam(t, id))
  BY <1>2, <1>3, TeamDataAssumption
  DEF LegalTeam, BoardsWithinLimit, BoardIDsDistinct, MembersDistinct,
      AdminIsMember, IsInjective, Range
<1>6. QED
  BY <1>4, <1>5

\* Adding a user who is not a member yet.
LEMMA MemberAddedIsLegal ==
    ASSUME NEW t \in TeamIDs, NEW team \in Team, LegalTeam(t, team),
           NEW u \in Users \ Range(team.Members)
    PROVE  /\ MemberAdded(team, u) \in Team
           /\ LegalTeam(t, MemberAdded(team, u))
<1> DEFINE new == MemberAdded(team, u)
<1>1. /\ new.ID = team.ID
      /\ new.Members = Append(team.Members, u)
      /\ new.Boards = team.Boards
  BY DEF MemberAdded, Team
<1>a. team.Members \in Seq(Users) /\ Append(team.Members, u) \in Seq(Users)
  BY AppendProperties DEF Team
<1>b. new \in Team
  BY <1>a DEF MemberAdded, Team
<1>2. MembersDistinct(new) /\ AdminIsMember(t, new)
  BY <1>1, <1>a, AppendProperties
  DEF LegalTeam, MembersDistinct, AdminIsMember, IsInjective, Range
<1>3. BoardsWithinLimit(new) /\ BoardIDsDistinct(new)
  BY <1>1 DEF LegalTeam, BoardsWithinLimit, BoardIDsDistinct
<1>4. QED
  BY <1>2, <1>3, <1>b DEF LegalTeam

\* Adding a board of a fresh ID to a team that has room for it.
LEMMA BoardAddedIsLegal ==
    ASSUME NEW t \in TeamIDs, NEW team \in Team, LegalTeam(t, team),
           NEW b \in Board, b.ID \notin IDsOf(team),
           Len(team.Boards) < MaxBoards
    PROVE  BoardAdded(team, b) \in Team /\ LegalTeam(t, BoardAdded(team, b))
<1> DEFINE new == BoardAdded(team, b)
<1>1. /\ new.ID = team.ID
      /\ new.Members = team.Members
      /\ new.Boards = Append(team.Boards, b)
  BY DEF BoardAdded, Team
<1>a. team.Boards \in Seq(Board) /\ Append(team.Boards, b) \in Seq(Board)
  BY AppendProperties DEF Team
<1>b. new \in Team
  BY <1>a DEF BoardAdded, Team
<1>2. BoardsWithinLimit(new)
  BY <1>1, <1>a, AppendProperties, TeamDataAssumption DEF BoardsWithinLimit
<1>3. BoardIDsDistinct(new)
  BY <1>1, <1>a, AppendProperties DEF LegalTeam, BoardIDsDistinct, IDsOf
<1>4. MembersDistinct(new) /\ AdminIsMember(t, new)
  BY <1>1 DEF LegalTeam, MembersDistinct, AdminIsMember
<1>5. QED
  BY <1>2, <1>3, <1>4, <1>b DEF LegalTeam

\* Replacing a board keeps the IDs of the boards where they are.
LEMMA BoardReplacedIsLegal ==
    ASSUME NEW t \in TeamIDs, NEW team \in Team, LegalTeam(t, team),
           NEW b \in Board
    PROVE  /\ BoardReplaced(team, b) \in Team
           /\ LegalTeam(t, BoardReplaced(team, b))
<1> DEFINE new == BoardReplaced(team, b)
<1> DEFINE first(i) == /\ team.Boards[i].ID = b.ID
                       /\ \A j \in 1 .. (i - 1) : team.Boards[j].ID # b.ID
<1>1. /\ new.ID = team.ID
      /\ new.Members = team.Members
      /\ new.Boards = [i \in DOMAIN team.Boards |->
                          IF first(i) THEN b ELSE team.Boards[i]]
  BY DEF BoardReplaced, Team
<1> HIDE DEF first, new
<1>2. team.Boards \in Seq(Board)
  BY DEF Team
<1>3. new.Boards \in Seq(Board) /\ Len(new.Boards) = Len(team.Boards)
  BY <1>1, <1>2
<1>4. new \in Team
  BY <1>1, <1>3 DEF Team, new, BoardReplaced
<1>5. \A i \in DOMAIN team.Boards : new.Boards[i].ID = team.Boards[i].ID
  BY <1>1 DEF first
<1>6. DOMAIN new.Boards = DOMAIN team.Boards
  BY <1>1
<1>7. BoardIDsDistinct(new)
  BY <1>5, <1>6 DEF LegalTeam, BoardIDsDistinct
<1>8. BoardsWithinLimit(new)
  BY <1>3 DEF LegalTeam, BoardsWithinLimit
<1>9. MembersDistinct(new) /\ AdminIsMember(t, new)
  BY <1>1 DEF LegalTeam, MembersDistinct, AdminIsMember
<1>10. QED
  BY <1>4, <1>7, <1>8, <1>9 DEF LegalTeam, new

\* What is left of a sequence without its i-th element.
LEMMA RemoveAtProperties ==
    ASSUME NEW S, NEW s \in Seq(S), NEW i \in 1 .. Len(s)
    PROVE  /\ RemoveAt(s, i) \in Seq(S)
           /\ Len(RemoveAt(s, i)) = Len(s) - 1
           /\ \A j \in 1 .. (Len(s) - 1) :
                 RemoveAt(s, i)[j] = IF j < i THEN s[j] ELSE s[j + 1]
<1> DEFINE n == Len(s)
           left == SubSeq(s, 1, i - 1)
           right == SubSeq(s, i + 1, n)
<1>1. n \in Nat /\ \A j \in 1 .. n : s[j] \in S
  BY ElementOfSeq, LenProperties
<1>2. /\ left \in Seq(S)
      /\ Len(left) = i - 1
      /\ \A j \in 1 .. (i - 1) : left[j] = s[j]
  <2> HIDE DEF n
  <2>1. \A j \in 1 .. (i - 1) : s[j] \in S
    BY <1>1 DEF n
  <2>2. /\ left \in Seq(S)
        /\ Len(left) = IF 1 <= i - 1 THEN (i - 1) - 1 + 1 ELSE 0
        /\ \A j \in 1 .. (i - 1) - 1 + 1 : left[j] = s[1 + j - 1]
    BY <2>1, SubSeqProperties
  <2>3. QED
    BY <2>2, <1>1
<1>3. /\ right \in Seq(S)
      /\ Len(right) = n - i
      /\ \A j \in 1 .. (n - i) : right[j] = s[i + j]
  <2> HIDE DEF n
  <2>1. n \in Int /\ i \in 1 .. n /\ \A j \in (i + 1) .. n : s[j] \in S
    BY <1>1 DEF n
  <2>2. /\ right \in Seq(S)
        /\ Len(right) = IF i + 1 <= n THEN n - (i + 1) + 1 ELSE 0
        /\ \A j \in 1 .. n - (i + 1) + 1 : right[j] = s[(i + 1) + j - 1]
    BY <2>1, SubSeqProperties
  <2> HIDE DEF right
  <2>3. n - (i + 1) + 1 = n - i
    BY <2>1
  <2>4. Len(right) = n - i
    BY <2>1, <2>2
  <2>5. \A j \in 1 .. (n - i) : (i + 1) + j - 1 = i + j
    BY <2>1
  <2>6. QED
    BY <2>2, <2>3, <2>4, <2>5
<1> HIDE DEF left, right
<1>4. /\ left \o right \in Seq(S)
      /\ Len(left \o right) = Len(left) + Len(right)
      /\ \A j \in 1 .. Len(left) + Len(right) :
            (left \o right)[j] = IF j <= Len(left) THEN left[j]
                                                   ELSE right[j - Len(left)]
  BY <1>2, <1>3, ConcatProperties
<1>5. RemoveAt(s, i) = left \o right
  BY DEF RemoveAt, left, right
<1> HIDE DEF n
<1>6. i \in 1 .. n
  BY DEF n
<1>7. RemoveAt(s, i) \in Seq(S) /\ Len(RemoveAt(s, i)) = n - 1
  BY <1>1, <1>2, <1>3, <1>4, <1>5, <1>6
<1>8. ASSUME NEW j \in 1 .. (n - 1)
      PROVE  RemoveAt(s, i)[j] = IF j < i THEN s[j] ELSE s[j + 1]
  <2>1. CASE j < i
    BY <2>1, <1>1, <1>2, <1>3, <1>4, <1>5, <1>6
  <2>2. CASE ~(j < i)
    <3>1. j - (i - 1) \in 1 .. (n - i) /\ i + (j - (i - 1)) = j + 1
      BY <2>2, <1>1, <1>6
    <3>2. j \in 1 .. Len(left) + Len(right) /\ ~(j <= Len(left))
      BY <2>2, <1>1, <1>2, <1>3, <1>6
    <3>3. (left \o right)[j] = right[j - (i - 1)]
      BY <3>2, <1>2, <1>4
    <3>4. QED
      BY <2>2, <3>1, <3>3, <1>3, <1>5
  <2>3. QED
    BY <2>1, <2>2
<1>9. QED
  BY <1>7, <1>8 DEF n

\* Removing a board.
LEMMA BoardRemovedIsLegal ==
    ASSUME NEW t \in TeamIDs, NEW team \in Team, LegalTeam(t, team),
           NEW i \in DOMAIN team.Boards
    PROVE  /\ BoardRemoved(team, i) \in Team
           /\ LegalTeam(t, BoardRemoved(team, i))
<1> DEFINE new == BoardRemoved(team, i)
           n == Len(team.Boards)
<1>1. team.Boards \in Seq(Board) /\ n \in Nat /\ i \in 1 .. n
  BY LenProperties DEF Team
<1>2. /\ new.ID = team.ID
      /\ new.Members = team.Members
      /\ new.Boards = RemoveAt(team.Boards, i)
  BY DEF BoardRemoved, Team
<1>3. /\ new.Boards \in Seq(Board)
      /\ Len(new.Boards) = n - 1
      /\ \A j \in 1 .. (n - 1) :
            new.Boards[j] = IF j < i THEN team.Boards[j] ELSE team.Boards[j + 1]
  BY <1>1, <1>2, RemoveAtProperties
<1>4. new \in Team
  BY <1>2, <1>3 DEF Team, BoardRemoved
<1>5. BoardsWithinLimit(new)
  BY <1>1, <1>3, TeamDataAssumption DEF LegalTeam, BoardsWithinLimit
<1>6. BoardIDsDistinct(new)
  <2> DEFINE at(j) == IF j < i THEN j ELSE j + 1
  <2> HIDE DEF new, n
  <2>0. DOMAIN new.Boards = 1 .. (n - 1)
    BY <1>3, LenProperties
  <2> SUFFICES ASSUME NEW j \in 1 .. (n - 1), NEW k \in 1 .. (n - 1),
                      new.Boards[j].ID = new.Boards[k].ID
               PROVE  j = k
    BY <2>0, Zenon DEF BoardIDsDistinct
  <2>1. /\ new.Boards[j] = team.Boards[at(j)]
        /\ new.Boards[k] = team.Boards[at(k)]
    BY <1>3
  <2>2. at(j) \in 1 .. n /\ at(k) \in 1 .. n
    BY <1>1
  <2>3. at(j) = at(k)
    BY <1>1, <2>1, <2>2, LenProperties DEF LegalTeam, BoardIDsDistinct, n
  <2>4. QED
    BY <1>1, <2>3
<1>7. MembersDistinct(new) /\ AdminIsMember(t, new)
  BY <1>2 DEF LegalTeam, MembersDistinct, AdminIsMember
<1>8. QED
  BY <1>4, <1>5, <1>6, <1>7 DEF LegalTeam

\* Every edit of a legal team yields a legal team.
THEOREM EditsAreLegal ==
    ASSUME NEW t \in TeamIDs, NEW team \in Team, LegalTeam(t, team),
           NEW item \in Edits(team)
    PROVE  item \in Team /\ LegalTeam(t, item)
<1>1. CASE \E u \in Users \ Range(team.Members) : item = MemberAdded(team, u)
  BY <1>1, MemberAddedIsLegal
<1>2. CASE /\ Len(team.Boards) < MaxBoards
           /\ \E b \in Board : /\ b.ID \notin IDsOf(team)
                               /\ item = BoardAdded(team, b)
  BY <1>2, BoardAddedIsLegal
<1>3. CASE \E b \in Board : item = BoardReplaced(team, b)
  BY <1>3, BoardReplacedIsLegal
<1>4. CASE \E i \in DOMAIN team.Boards : item = BoardRemoved(team, i)
  BY <1>4, BoardRemovedIsLegal
<1>5. QED
  BY <1>1, <1>2, <1>3, <1>4 DEF Edits

=============================================================================
