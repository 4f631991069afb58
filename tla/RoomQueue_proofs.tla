-------------------------- MODULE RoomQueue_proofs --------------------------
(***************************************************************************)
(* Proofs about RoomQueue, for any room: any listeners and videos, any     *)
(* number of requests in flight, any caps.                                 *)
(***************************************************************************)
EXTENDS RoomQueue, Scheduling_proofs

Adding(r) == Phase(r) = "adding"
Holds(r) == Phase(r) \in {"adding", "promoting", "removing"}

\* The room's row lock: one request has it, and the row it works on stays.
Locking ==
  /\ \A r, q \in Requests : Holds(r) /\ Holds(q) => r = q
  /\ \A r \in Requests : Phase(r) \in {"promoting", "removing"} => Exists(requests[r].track)

-----------------------------------------------------------------------------
\* A room starts with every variable of its type, and unlocked.
LEMMA TypeInit == Init => TypeOK /\ Locking
  BY BoundsAssumption, ListenersAssumption
     DEF Init, TypeOK, NoVotes, TrackIds, Locking, Holds, Phase

\* What is in a request, by its phase.
LEMMA RequestTypes ==
  ASSUME TypeOK, NEW r \in Requests
  PROVE  /\ Phase(r) \in {"checked", "known", "unknown"} => requests[r] \in Visit
         /\ Phase(r) = "adding" => requests[r] \in AddRequest
         /\ Phase(r) = "promoting" => requests[r] \in PromoteRequest
         /\ Phase(r) = "removing" => requests[r] \in RemoveRequest
         /\ Phase(r) # "idle" => requests[r] # None
  BY NoneAssumption
     DEF TypeOK, Phase, Request, Visit, AddRequest, PromoteRequest, RemoveRequest

\* What an insert does to the table.
LEMMA AddInserts ==
  ASSUME TypeOK, NEW r \in Requests, CommitAdd(r)
  PROVE  /\ inserted' = inserted + 1 /\ inserted' \in TrackIds
         /\ requests[r] \in AddRequest
         /\ rows' \in [TrackIds -> Row \cup {None}]
         /\ rows'[inserted'] # None /\ rows'[inserted'].state = "queued"
         /\ rows'[inserted'].added_by = requests[r].by
         /\ rows'[inserted'].youtube_id = requests[r].youtube_id
         /\ rows'[inserted'].checked_at = requests[r].checked_at
         /\ \A t \in TrackIds \ {inserted'} : rows'[t] = rows[t]
<1> USE BoundsAssumption, ListenersAssumption, NoneAssumption DEF TypeOK
<1> DEFINE row == [added_by |-> requests[r].by, youtube_id |-> requests[r].youtube_id,
                   state |-> "queued",
                   shadow |-> requests[r].muted /\ requests[r].by \in muted, priority |-> 0,
                   started_at |-> 0, checked_at |-> requests[r].checked_at]
<1>1. requests[r] \in AddRequest
  BY RequestTypes DEF CommitAdd
<1>2. row \in Row
  BY <1>1 DEF AddRequest, Row, Submitters
<1>3. /\ inserted + 1 \in TrackIds /\ inserted' = inserted + 1
      /\ rows' = [rows EXCEPT ![inserted + 1] = row]
  BY DEF CommitAdd, Insert
<1>4. rows' \in [TrackIds -> Row \cup {None}]
  BY <1>2, <1>3
<1>5. rows'[inserted'] = row /\ \A t \in TrackIds \ {inserted'} : rows'[t] = rows[t]
  BY <1>3
<1> QED
  BY <1>1, <1>2, <1>3, <1>4, <1>5

\* The same for the radio's.
LEMMA PickInserts ==
  TypeOK /\ CommitPick =>
    /\ inserted' = inserted + 1 /\ inserted' \in TrackIds
    /\ rows' \in [TrackIds -> Row \cup {None}]
    /\ rows'[inserted'] # None /\ rows'[inserted'].state = "queued"
    /\ rows'[inserted'].added_by = Radio
    /\ rows'[inserted'].youtube_id = radio.youtube_id
    /\ rows'[inserted'].checked_at = radio.checked_at
    /\ \A t \in TrackIds \ {inserted'} : rows'[t] = rows[t]
<1> HAVE TypeOK /\ CommitPick
<1> USE BoundsAssumption, ListenersAssumption, NoneAssumption DEF TypeOK
<1> DEFINE row == [added_by |-> Radio, youtube_id |-> radio.youtube_id, state |-> "queued",
                   shadow |-> FALSE, priority |-> -1, started_at |-> 0,
                   checked_at |-> radio.checked_at]
<1>1. row \in Row
  BY DEF CommitPick, Pick, Row, Submitters
<1>2. /\ inserted + 1 \in TrackIds /\ inserted' = inserted + 1
      /\ rows' = [rows EXCEPT ![inserted + 1] = row]
  BY DEF CommitPick, Insert
<1>3. rows' \in [TrackIds -> Row \cup {None}]
  BY <1>1, <1>2
<1>4. rows'[inserted'] = row /\ \A t \in TrackIds \ {inserted'} : rows'[t] = rows[t]
  BY <1>2
<1> QED
  BY <1>1, <1>2, <1>3, <1>4

\* Every step writes rows, votes and requests of their type.
LEMMA TypeStep == TypeOK /\ Locking /\ [Next]_vars => TypeOK'
<1> SUFFICES ASSUME TypeOK, Locking, [Next]_vars PROVE TypeOK'
  OBVIOUS
<1> USE BoundsAssumption, ListenersAssumption, NoneAssumption DEF TypeOK
<1>1. ASSUME NEW r \in Requests, NEW l \in Listeners, Enter(r, l) PROVE TypeOK'
  <2>1. [phase |-> "checked", by |-> l, muted |-> FALSE] \in Request
    BY DEF Request, Visit
  <2> QED
    BY <1>1, <2>1 DEF Enter, people
<1>2. ASSUME NEW r \in Requests, LookUp(r) PROVE TypeOK'
  <2> DEFINE l == requests[r].by
             found == [phase |-> IF l \in members THEN "known" ELSE "unknown", by |-> l,
                       muted |-> l \in muted]
  <2>1. requests[r] \in Visit
    BY <1>2, RequestTypes DEF LookUp
  <2>2. (l \in muted) \in BOOLEAN
    OBVIOUS
  <2>3. found \in Request
    BY <2>1, <2>2 DEF Request, Visit
  <2>4. requests' = [requests EXCEPT ![r] = found]
    BY <1>2 DEF LookUp
  <2>5. requests' \in [Requests -> Request \cup {None}]
    BY <2>3, <2>4
  <2> QED
    BY <1>2, <2>5 DEF LookUp, people
<1>3. ASSUME NEW r \in Requests, NEW l \in Listeners, View(r, l) PROVE TypeOK'
  BY <1>3 DEF View, Join, End
<1>4. ASSUME NEW r \in Requests, Abandon(r) PROVE TypeOK'
  BY <1>4 DEF Abandon, End, people
<1>5. ASSUME NEW r \in Requests, NEW l \in Listeners, Mute(r, l) PROVE TypeOK'
  BY <1>5 DEF Mute, End
<1>6. ASSUME NEW l \in Listeners, MuteExpires(l) PROVE TypeOK'
  BY <1>6 DEF MuteExpires
<1>7. ASSUME NEW r \in Requests, NEW l \in Listeners, NEW v \in Videos, BeginAdd(r, l, v)
      PROVE  TypeOK'
  <2>1. requests[r] \in Visit
    BY <1>7, RequestTypes DEF BeginAdd, Handles
  <2>2. [phase |-> "adding", by |-> l, youtube_id |-> v,
         muted |-> requests[r].muted, checked_at |-> inserted] \in Request
    BY <2>1 DEF Request, AddRequest, Visit
  <2> QED
    BY <1>7, <2>2 DEF BeginAdd, people
<1>8. ASSUME NEW r \in Requests, CommitAdd(r) PROVE TypeOK'
  <2>1. inserted' \in 0 .. MaxTracks
    BY <1>8, AddInserts DEF TrackIds
  <2> QED
    BY <1>8, <2>1, AddInserts DEF CommitAdd, Join, End, AddRequest
<1>9. ASSUME NEW r \in Requests, NEW l \in Listeners, NEW t \in TrackIds, BeginRemove(r, l, t)
      PROVE  TypeOK'
  BY <1>9 DEF BeginRemove, people, Request, RemoveRequest
<1>10. ASSUME NEW r \in Requests, CommitRemove(r) PROVE TypeOK'
  BY <1>10, RequestTypes DEF CommitRemove, NoVotes, End, people, RemoveRequest
<1>11. ASSUME NEW r \in Requests, NEW l \in Voters, NEW t \in TrackIds, NEW value \in VoteValues,
              Vote(r, l, t, value)
       PROVE  TypeOK'
  BY <1>11 DEF Vote, SetVote, Join, End
<1>12. ASSUME NEW r \in Requests, NEW t \in TrackIds, BeginPromote(r, t) PROVE TypeOK'
  BY <1>12 DEF BeginPromote, people, Request, PromoteRequest
<1>13. ASSUME NEW r \in Requests, CommitPromote(r) PROVE TypeOK'
  <2>1. requests[r] \in PromoteRequest /\ Exists(requests[r].track)
    BY <1>13, RequestTypes DEF CommitPromote, Locking
  <2>2. rows' \in [TrackIds -> Row \cup {None}]
    BY <1>13, <2>1 DEF CommitPromote, PromoteRequest, Exists, Row, OnTop
  <2> QED
    BY <1>13, <2>2 DEF CommitPromote, End, people
<1>14. ASSUME NEW r \in Requests, NEW l \in Listeners, Ban(r, l) PROVE TypeOK'
  <2>1. rows' \in [TrackIds -> Row \cup {None}]
    BY <1>14 DEF Ban
  <2>2. votes' \in [TrackIds -> [Voters -> -1 .. 1]]
    BY <1>14 DEF Ban, NoVotes
  <2>3. requests' \in [Requests -> Request \cup {None}]
    BY <1>14 DEF Ban
  <2> QED
    BY <1>14, <2>1, <2>2, <2>3 DEF Ban
<1>15. ASSUME NEW r \in Requests, NEW l \in Listeners, Unban(r, l) PROVE TypeOK'
  BY <1>15 DEF Unban, End
<1>16. ASSUME NEW r \in Requests, NEW t \in TrackIds, Skip(r, t) PROVE TypeOK'
  BY <1>16 DEF Skip, Current, InState, Exists, SetState, Row, End, people
<1>17. ASSUME NEW v \in Videos, BeginPick(v) PROVE TypeOK'
  BY <1>17 DEF BeginPick, Pick, people
<1>18. CASE CommitPick
  <2>1. inserted' \in 0 .. MaxTracks
    BY <1>18, PickInserts DEF TrackIds
  <2> QED
    BY <1>18, <2>1, PickInserts DEF CommitPick, people
<1>19. CASE AbandonPick
  BY <1>19 DEF AbandonPick, people
<1>20. ASSUME NEW t \in TrackIds, ClaimNextTrack(t) PROVE TypeOK'
  <2>1. rows[t] \in Row /\ inserted \in Nat
    BY <1>20 DEF ClaimNextTrack, Queued, InState, Exists
  <2>2. [rows[t] EXCEPT !.state = "playing", !.started_at = inserted] \in Row
    BY <2>1 DEF Row
  <2>3. rows' = [rows EXCEPT ![t] = [rows[t] EXCEPT !.state = "playing", !.started_at = inserted]]
    BY <1>20 DEF ClaimNextTrack
  <2> QED
    BY <1>20, <2>2, <2>3 DEF ClaimNextTrack, people
<1>21. ASSUME NEW t \in TrackIds, Requeue(t) PROVE TypeOK'
  <2>1. rows[t] \in Row
    BY <1>21 DEF Requeue, InState, Exists
  <2>2. [rows[t] EXCEPT !.state = "queued", !.started_at = 0] \in Row
    BY <2>1 DEF Row
  <2>3. rows' = [rows EXCEPT ![t] = [rows[t] EXCEPT !.state = "queued", !.started_at = 0]]
    BY <1>21 DEF Requeue
  <2> QED
    BY <1>21, <2>2, <2>3 DEF Requeue, people
<1>22. ASSUME NEW t \in TrackIds, NEW state \in {"played", "failed"}, Finish(t, state)
       PROVE  TypeOK'
  BY <1>22 DEF Finish, InState, Exists, SetState, Row, people
<1>23. CASE UNCHANGED vars
  BY <1>23 DEF vars, people
<1> QED
  BY <1>1, <1>2, <1>3, <1>4, <1>5, <1>6, <1>7, <1>8, <1>9, <1>10, <1>11, <1>12, <1>13, <1>14,
     <1>15, <1>16, <1>17, <1>18, <1>19, <1>20, <1>21, <1>22, <1>23
     DEF Next, RequestStep, WorkerStep
\* Of two handlers only one is at work, and no other takes its row away.
LEMMA LockStep == TypeOK /\ Locking /\ [Next]_vars => Locking'
<1> SUFFICES ASSUME TypeOK, Locking, [Next]_vars PROVE Locking'
  OBVIOUS
<1> USE NoneAssumption DEF TypeOK, Locking, Holds, Phase, Exists
\* A request ends, or goes on to something that holds nothing.
<1>1. ASSUME NEW r \in Requests, rows' = rows,
             \A q \in Requests : requests'[q] # None /\ q # r => requests'[q] = requests[q],
             requests'[r] # None => requests'[r].phase \notin {"adding", "promoting", "removing"}
      PROVE  Locking'
  BY <1>1
\* A handler begins.
<1>2. ASSUME NEW r \in Requests, NEW l, Handles(r, l), rows' = rows,
             \A q \in Requests : q # r => requests'[q] = requests[q],
             requests'[r] # None,
             requests'[r].phase \in {"promoting", "removing"} => Exists(requests'[r].track)
      PROVE  Locking'
  BY <1>2 DEF Handles, Unlocked
\* A handler commits.
<1>3. ASSUME NEW r \in Requests, Holds(r) \/ Unlocked,
             \A q \in Requests : requests'[q] # None => q # r /\ requests'[q] = requests[q]
      PROVE  Locking'
  <2>1. \A q \in Requests : ~Holds(q)'
    BY <1>3 DEF Unlocked
  <2> QED
    BY <2>1
\* The worker or the radio writes.
<1>4. ASSUME requests' = requests, \A t \in TrackIds : Exists(t) => Exists(t)'
      PROVE  Locking'
  <2>1. \A r \in Requests : Phase(r) \in {"promoting", "removing"} => requests[r].track \in TrackIds
    BY RequestTypes DEF PromoteRequest, RemoveRequest
  <2> QED
    BY <1>4, <2>1
<1>5. ASSUME NEW r \in Requests, RequestStep(r) PROVE Locking'
  <2>1. ASSUME NEW l \in Listeners, Enter(r, l) PROVE Locking'
    BY <1>1, <2>1 DEF Enter
  <2>2. CASE LookUp(r)
    BY <1>1, <2>2 DEF LookUp
  <2>3. ASSUME NEW l \in Listeners, View(r, l) \/ Mute(r, l) PROVE Locking'
    BY <1>1, <2>3 DEF View, Mute, End
  <2>4. CASE Abandon(r)
    BY <1>1, <2>4 DEF Abandon, End
  <2>5. ASSUME NEW l \in Listeners, NEW v \in Videos, BeginAdd(r, l, v) PROVE Locking'
    BY <1>2, <2>5 DEF BeginAdd
  <2>6. CASE CommitAdd(r)
    BY <1>3, <2>6 DEF CommitAdd, End
  <2>7. ASSUME NEW l \in Listeners, NEW t \in TrackIds, BeginRemove(r, l, t) PROVE Locking'
    BY <1>2, <2>7 DEF BeginRemove
  <2>8. CASE CommitRemove(r)
    BY <1>3, <2>8 DEF CommitRemove, End
  <2>9. ASSUME NEW l \in Voters, NEW t \in TrackIds, NEW value \in VoteValues, Vote(r, l, t, value)
        PROVE  Locking'
    BY <1>1, <2>9 DEF Vote, SetVote, End
  <2>10. ASSUME NEW t \in TrackIds, BeginPromote(r, t) PROVE Locking'
    BY <1>2, <2>10 DEF BeginPromote, Queued, InState
  <2>11. CASE CommitPromote(r)
    BY <1>3, <2>11 DEF CommitPromote, End
  <2>12. ASSUME NEW l \in Listeners, Ban(r, l) PROVE Locking'
    BY <1>3, <2>12 DEF Ban, Handles
  <2>13. ASSUME NEW l \in Listeners, Unban(r, l) PROVE Locking'
    BY <1>1, <2>13 DEF Unban, End
  <2>14. ASSUME NEW t \in TrackIds, Skip(r, t) PROVE Locking'
    BY <1>3, <2>14 DEF Skip, Handles, End
  <2> QED
    BY <1>5, <2>1, <2>2, <2>3, <2>4, <2>5, <2>6, <2>7, <2>8, <2>9, <2>10, <2>11, <2>12, <2>13,
       <2>14 DEF RequestStep
<1>6. CASE WorkerStep
  <2>1. requests' = requests
    BY <1>6 DEF WorkerStep, BeginPick, CommitPick, AbandonPick, ClaimNextTrack, Requeue, Finish
  <2>2. \A t \in TrackIds : Exists(t) => Exists(t)'
    <3>1. CASE CommitPick
      BY <3>1, PickInserts
    <3>2. ASSUME NEW u \in TrackIds, ClaimNextTrack(u)
          PROVE  \A t \in TrackIds : Exists(t) => Exists(t)'
      BY <3>2 DEF ClaimNextTrack, Queued, InState, Row
    <3>3. ASSUME NEW u \in TrackIds, Requeue(u)
          PROVE  \A t \in TrackIds : Exists(t) => Exists(t)'
      BY <3>3 DEF Requeue, InState, Row
    <3>4. ASSUME NEW u \in TrackIds, NEW state \in {"played", "failed"}, Finish(u, state)
          PROVE  \A t \in TrackIds : Exists(t) => Exists(t)'
      BY <3>4 DEF Finish, InState, SetState, Row
    <3> QED
      BY <1>6, <3>1, <3>2, <3>3, <3>4 DEF WorkerStep, BeginPick, AbandonPick
  <2> QED
    BY <1>4, <2>1, <2>2
<1>7. ASSUME NEW l \in Listeners, MuteExpires(l) PROVE Locking'
  BY <1>4, <1>7 DEF MuteExpires
<1>8. CASE UNCHANGED vars
  BY <1>4, <1>8 DEF vars
<1> QED
  BY <1>5, <1>6, <1>7, <1>8 DEF Next

\* Every variable keeps its type, in a room of any size.
THEOREM TypeCorrect == Spec => []TypeOK
<1>1. TypeOK /\ Locking /\ [Next]_vars => TypeOK' /\ Locking'
  BY TypeStep, LockStep
<1> QED
  BY TypeInit, <1>1, PTL DEF Spec

-----------------------------------------------------------------------------
(***************************************************************************)
(* Rule 1, on every queue that is ever shown or played from.               *)
(***************************************************************************)

\* What queued_tracks returns is something order_queue can sort.
LEMMA QueuedTracksAreAQueue ==
  ASSUME TypeOK, NEW l PROVE IsQueue(queued_tracks(l), Submitters)
<1> DEFINE shown == {i \in TrackIds : Queued(i) /\ (~rows[i].shadow \/ rows[i].added_by = l)}
           f == [i \in shown |-> Candidate(i)]
<1>1. IsFiniteSet(shown)
  <2>1. IsFiniteSet(TrackIds)
    BY BoundsAssumption, FS_Interval DEF TrackIds
  <2> QED
    BY <2>1, FS_Subset
<1>2. f \in Surjection(shown, queued_tracks(l))
  BY DEF Surjection, queued_tracks
<1>3. IsFiniteSet(queued_tracks(l))
  BY <1>1, <1>2, FS_Surjection
<1>4. \A t \in TrackIds : Score(t) \in Int
  <2> TAKE t \in TrackIds
  <2>1. IsFiniteSet(Voters)
    BY ListenersAssumption, FS_Subset
  <2>2. /\ IsFiniteSet({v \in Voters : votes[t][v] = 1})
        /\ IsFiniteSet({v \in Voters : votes[t][v] = -1})
    BY <2>1, FS_Subset
  <2> QED
    BY <2>2, FS_CardinalityType DEF Score
<1>5. \A t \in shown : Candidate(t) \in CandidateOf(Submitters)
  BY <1>4 DEF TypeOK, Candidate, CandidateOf, Row, Queued, InState, Exists, TrackIds
<1> QED
  BY <1>3, <1>5 DEF IsQueue, queued_tracks

\* Rule 1 of app/scheduling.py, for a room and a queue of any size.
THEOREM FirstBeforeSecondAlways == Spec => []FirstBeforeSecond
<1>1. TypeOK => FirstBeforeSecond
  BY QueuedTracksAreAQueue, FirstsBeforeSeconds DEF FirstBeforeSecond
<1> QED
  BY <1>1, TypeCorrect, PTL
-----------------------------------------------------------------------------
(***************************************************************************)
(* What the checks of add_track and of the radio still promise when they   *)
(* are acted on.  Only four steps matter to that: the two that check and   *)
(* the two that insert.  Every other is quiet.                             *)
(***************************************************************************)
Live(t) == InState(t, {"queued", "playing"})
LiveOf(l) == {t \in TrackIds : Live(t) /\ rows[t].added_by = l}

Quiet ==
  /\ inserted' = inserted
  /\ \A t \in TrackIds : Exists(t)' => /\ Exists(t)
                                       /\ rows'[t].added_by = rows[t].added_by
                                       /\ rows'[t].youtube_id = rows[t].youtube_id
                                       /\ rows'[t].checked_at = rows[t].checked_at
  /\ \A t \in TrackIds : Live(t)' => Live(t)
  /\ \A r \in Requests : Adding(r)' => requests'[r] = requests[r]
  /\ radio' \in {radio, None}

\* Nothing but a check or an insert does more than end what it touches.
LEMMA MostStepsAreQuiet ==
  ASSUME TypeOK, Locking, [Next]_vars
  PROVE  \/ \E r \in Requests, l \in Listeners, v \in Videos : BeginAdd(r, l, v)
         \/ \E r \in Requests : CommitAdd(r)
         \/ \E v \in Videos : BeginPick(v)
         \/ CommitPick
         \/ Quiet
<1> USE NoneAssumption DEF TypeOK
\* The tracks table is left alone.
<1>1. ASSUME rows' = rows, inserted' = inserted, radio' = radio,
             \A r \in Requests : requests'[r] = requests[r] \/ ~Adding(r)'
      PROVE  Quiet
  BY <1>1 DEF Quiet, Live, InState, Exists
\* Some rows are deleted.
<1>2. ASSUME inserted' = inserted, radio' = radio,
             \A r \in Requests : requests'[r] = requests[r] \/ ~Adding(r)',
             \A t \in TrackIds : rows'[t] \in {rows[t], None}
      PROVE  Quiet
  BY <1>2 DEF Quiet, Live, InState, Exists
\* One row is updated in place.
<1>3. ASSUME inserted' = inserted, radio' = radio,
             \A r \in Requests : requests'[r] = requests[r] \/ ~Adding(r)',
             NEW t \in TrackIds, rows[t] \in Row,
             NEW row \in Row, rows' = [rows EXCEPT ![t] = row],
             row.added_by = rows[t].added_by, row.youtube_id = rows[t].youtube_id,
             row.checked_at = rows[t].checked_at,
             row.state \in {"queued", "playing"} => Live(t)
      PROVE  Quiet
  <2>1. \A u \in TrackIds : u # t => rows'[u] = rows[u]
    BY <1>3
  <2>2. rows'[t] = row /\ rows[t] # None
    BY <1>3
  <2>3. \A u \in TrackIds : Live(u)' => Live(u)
    BY <1>3, <2>1, <2>2 DEF Live, InState, Exists
  <2> QED
    BY <1>3, <2>1, <2>2, <2>3 DEF Quiet, Exists
<1>4. ASSUME NEW r \in Requests, RequestStep(r),
             ~CommitAdd(r), \A l \in Listeners, v \in Videos : ~BeginAdd(r, l, v)
      PROVE  Quiet
  <2> USE DEF Adding, Phase
  <2>1. ASSUME NEW l \in Listeners, Enter(r, l) PROVE Quiet
    BY <1>1, <2>1 DEF Enter
  <2>2. CASE LookUp(r)
    BY <1>1, <2>2 DEF LookUp
  <2>3. ASSUME NEW l \in Listeners, View(r, l) \/ Mute(r, l) \/ Unban(r, l) PROVE Quiet
    BY <1>1, <2>3 DEF View, Mute, Unban, End
  <2>4. CASE Abandon(r)
    BY <1>1, <2>4 DEF Abandon, End
  <2>5. ASSUME NEW l \in Listeners, NEW t \in TrackIds, BeginRemove(r, l, t) PROVE Quiet
    BY <1>1, <2>5 DEF BeginRemove
  <2>6. CASE CommitRemove(r)
    BY <1>2, <2>6 DEF CommitRemove, End
  <2>7. ASSUME NEW l \in Voters, NEW t \in TrackIds, NEW value \in VoteValues, Vote(r, l, t, value)
        PROVE  Quiet
    BY <1>1, <2>7 DEF Vote, SetVote, End
  <2>8. ASSUME NEW t \in TrackIds, BeginPromote(r, t) PROVE Quiet
    BY <1>1, <2>8 DEF BeginPromote
  <2>9. CASE CommitPromote(r)
    <3> DEFINE t == requests[r].track
               row == [rows[t] EXCEPT !.priority = OnTop(requests[r].highest)]
    <3>1. t \in TrackIds /\ rows[t] \in Row /\ OnTop(requests[r].highest) \in Int
      BY <2>9, RequestTypes DEF CommitPromote, Locking, PromoteRequest, Exists, OnTop
    <3>2. rows' = [rows EXCEPT ![t] = row]
      BY <2>9 DEF CommitPromote
    <3>3. /\ row \in Row /\ row.added_by = rows[t].added_by
          /\ row.youtube_id = rows[t].youtube_id
          /\ row.checked_at = rows[t].checked_at
          /\ row.state = rows[t].state
      BY <3>1 DEF Row
    <3>4. rows[t].state \in {"queued", "playing"} => Live(t)
      BY <3>1 DEF Live, InState, Exists
    <3>5. /\ inserted' = inserted /\ radio' = radio
          /\ \A q \in Requests : requests'[q] = requests[q] \/ ~Adding(q)'
      BY <2>9 DEF CommitPromote, End
    <3> HIDE DEF t, row, Adding
    <3> QED
      BY <1>3, <3>1, <3>2, <3>3, <3>4, <3>5
  <2>10. ASSUME NEW l \in Listeners, Ban(r, l) PROVE Quiet
    BY <1>2, <2>10 DEF Ban
  <2>11. ASSUME NEW t \in TrackIds, Skip(r, t) PROVE Quiet
    <3> DEFINE row == [rows[t] EXCEPT !.state = "skipped"]
    <3>1. rows[t] \in Row
      BY <2>11 DEF Skip, Current, InState, Exists
    <3>2. rows' = [rows EXCEPT ![t] = row]
      BY <2>11 DEF Skip, SetState
    <3>3. /\ row \in Row /\ row.added_by = rows[t].added_by
          /\ row.youtube_id = rows[t].youtube_id
          /\ row.checked_at = rows[t].checked_at
          /\ row.state = "skipped"
      BY <3>1 DEF Row
    <3>4. /\ inserted' = inserted /\ radio' = radio
          /\ \A q \in Requests : requests'[q] = requests[q] \/ ~Adding(q)'
      BY <2>11 DEF Skip, End, people
    <3> HIDE DEF row, Adding
    <3> QED
      BY <1>3, <3>1, <3>2, <3>3, <3>4
  <2> QED
    BY <1>4, <2>1, <2>2, <2>3, <2>4, <2>5, <2>6, <2>7, <2>8, <2>9, <2>10, <2>11 DEF RequestStep
<1>5. ASSUME NEW t \in TrackIds, ClaimNextTrack(t) PROVE Quiet
  <2> DEFINE row == [rows[t] EXCEPT !.state = "playing", !.started_at = inserted]
  <2>1. rows[t] \in Row /\ Live(t) /\ inserted \in Nat
    BY <1>5 DEF ClaimNextTrack, Queued, Live, InState, Exists
  <2>2. rows' = [rows EXCEPT ![t] = row]
    BY <1>5 DEF ClaimNextTrack
  <2>3. /\ row \in Row /\ row.added_by = rows[t].added_by
        /\ row.youtube_id = rows[t].youtube_id
        /\ row.checked_at = rows[t].checked_at
        /\ row.state = "playing"
    BY <2>1 DEF Row
  <2>4. inserted' = inserted /\ radio' = radio /\ requests' = requests
    BY <1>5 DEF ClaimNextTrack
  <2> HIDE DEF row
  <2> QED
    BY <1>3, <2>1, <2>2, <2>3, <2>4
<1>6. ASSUME NEW t \in TrackIds, Requeue(t) PROVE Quiet
  <2> DEFINE row == [rows[t] EXCEPT !.state = "queued", !.started_at = 0]
  <2>1. rows[t] \in Row /\ Live(t)
    BY <1>6 DEF Requeue, Live, InState, Exists
  <2>2. rows' = [rows EXCEPT ![t] = row]
    BY <1>6 DEF Requeue
  <2>3. /\ row \in Row /\ row.added_by = rows[t].added_by
        /\ row.youtube_id = rows[t].youtube_id
        /\ row.checked_at = rows[t].checked_at
        /\ row.state = "queued"
    BY <2>1 DEF Row
  <2>4. inserted' = inserted /\ radio' = radio /\ requests' = requests
    BY <1>6 DEF Requeue
  <2> HIDE DEF row
  <2> QED
    BY <1>3, <2>1, <2>2, <2>3, <2>4
<1>7. ASSUME NEW t \in TrackIds, NEW state \in {"played", "failed"}, Finish(t, state)
      PROVE  Quiet
  <2> DEFINE row == [rows[t] EXCEPT !.state = state]
  <2>1. rows[t] \in Row
    BY <1>7 DEF Finish, InState, Exists
  <2>2. rows' = [rows EXCEPT ![t] = row]
    BY <1>7 DEF Finish, SetState
  <2>3. /\ row \in Row /\ row.added_by = rows[t].added_by
        /\ row.youtube_id = rows[t].youtube_id
        /\ row.checked_at = rows[t].checked_at
        /\ row.state = state
    BY <2>1 DEF Row
  <2>4. inserted' = inserted /\ radio' = radio /\ requests' = requests
    BY <1>7 DEF Finish
  <2> HIDE DEF row
  <2> QED
    BY <1>3, <2>1, <2>2, <2>3, <2>4
<1>8. CASE AbandonPick
  BY <1>8 DEF AbandonPick, Quiet, Live, InState, Exists, Adding, Phase
<1>9. ASSUME NEW l \in Listeners, MuteExpires(l) PROVE Quiet
  BY <1>1, <1>9 DEF MuteExpires
<1>10. CASE UNCHANGED vars
  BY <1>1, <1>10 DEF vars
<1> QED
  BY <1>4, <1>5, <1>6, <1>7, <1>8, <1>9, <1>10 DEF Next, WorkerStep
\* The ids handed out are the ones up to inserted.
IdsCount == \A t \in TrackIds : Exists(t) => t <= inserted

\* Nothing was checked before the rows it could see were there.
CheckedBefore ==
  /\ \A r \in Requests : Adding(r) => requests[r].checked_at < inserted + 1
  /\ radio # None => radio.checked_at < inserted + 1

\* When a handler or the radio ran its duplicate check, no row of its video was
\* live.  One that is live by now was inserted since, and a handler has only the
\* radio to blame: no other handler can have run.
CheckedThen ==
  /\ \A r \in Requests, t \in TrackIds :
       Adding(r) /\ Live(t) /\ rows[t].youtube_id = requests[r].youtube_id
       => requests[r].checked_at < t /\ rows[t].added_by = Radio
  /\ \A t \in TrackIds :
       radio # None /\ Live(t) /\ rows[t].youtube_id = radio.youtube_id => radio.checked_at < t

Checks == IdsCount /\ CheckedBefore /\ CheckedThen /\ DuplicatesAreTheRadios

\* An empty room satisfies it.
LEMMA ChecksInit == Init => Checks
  BY DEF Init, Checks, IdsCount, CheckedBefore, CheckedThen, DuplicatesAreTheRadios,
         Adding, Phase, Live, InState, Exists

\* Every step preserves it.
LEMMA ChecksStep == TypeOK /\ Locking /\ Checks /\ [Next]_vars => Checks'
<1> SUFFICES ASSUME TypeOK, Locking, Checks, [Next]_vars PROVE Checks'
  OBVIOUS
<1>1. /\ inserted \in Nat /\ TrackIds \subseteq Nat
      /\ \A t \in TrackIds : Exists(t) => t < inserted + 1
  BY BoundsAssumption DEF TypeOK, TrackIds, Checks, IdsCount
<1> USE BoundsAssumption, ListenersAssumption, NoneAssumption
    DEF Checks, IdsCount, CheckedBefore, CheckedThen, DuplicatesAreTheRadios,
        Live, InState, Exists
<1>2. ASSUME NEW r \in Requests, NEW l \in Listeners, NEW v \in Videos, BeginAdd(r, l, v)
      PROVE  Checks'
  <2>1. requests'[r] = [phase |-> "adding", by |-> l, youtube_id |-> v,
                        muted |-> requests[r].muted, checked_at |-> inserted]
    BY <1>2 DEF BeginAdd, TypeOK
  <2>2. \A q \in Requests : Adding(q)' => q = r
    BY <1>2 DEF BeginAdd, Handles, Unlocked, Adding, Phase, TypeOK
  <2>3. rows' = rows /\ inserted' = inserted /\ radio' = radio
    BY <1>2 DEF BeginAdd
  <2>4. \A t \in TrackIds : Live(t) => rows[t].youtube_id # v
    BY <1>2 DEF BeginAdd, is_duplicate
  <2> QED
    BY <1>1, <2>1, <2>2, <2>3, <2>4
<1>3. ASSUME NEW r \in Requests, CommitAdd(r) PROVE Checks'
  <2> DEFINE u == inserted'
  <2>1. /\ u = inserted + 1 /\ u \in TrackIds /\ rows'[u] # None
        /\ rows'[u].added_by = requests[r].by
        /\ rows'[u].youtube_id = requests[r].youtube_id
        /\ rows'[u].checked_at = requests[r].checked_at
        /\ \A t \in TrackIds \ {u} : rows'[t] = rows[t]
        /\ requests[r] \in AddRequest
    BY <1>3, AddInserts
  <2>2. Adding(r) /\ radio' = radio /\ requests[r].by # Radio
    BY <1>3, <2>1 DEF CommitAdd, Adding, AddRequest
  <2>3. \A q \in Requests : ~Adding(q)'
    BY <1>3, <2>2 DEF CommitAdd, Locking, Holds, Adding, Phase, End, TypeOK
  <2>4. \A t \in TrackIds : Exists(t) => t < u
    BY <1>1, <2>1
  <2>5. IdsCount'
    BY <1>1, <2>1, <2>4
  <2>6. CheckedBefore' /\ CheckedThen'
    <3>1. radio # None => radio.checked_at < u /\ radio.checked_at \in Nat
      BY <2>1 DEF TypeOK, Pick
    <3> QED
      BY <1>1, <2>1, <2>2, <2>3, <3>1
  <2>7. DuplicatesAreTheRadios'
    <3> SUFFICES ASSUME NEW t \in TrackIds, NEW w \in TrackIds, t < w, Live(t)', Live(w)',
                        rows'[t].youtube_id = rows'[w].youtube_id
                 PROVE  rows'[w].checked_at < t /\ Radio \in {rows'[t].added_by, rows'[w].added_by}
      OBVIOUS
    <3>1. t # u
      BY <1>1, <2>1, <2>4
    <3>2. CASE w = u
      BY <2>1, <2>2, <3>1, <3>2
    <3>3. CASE w # u
      BY <2>1, <3>1, <3>3
    <3> QED
      BY <3>2, <3>3
  <2> HIDE DEF IdsCount, CheckedBefore, CheckedThen, DuplicatesAreTheRadios
  <2> QED
    BY <2>5, <2>6, <2>7
<1>4. ASSUME NEW v \in Videos, BeginPick(v) PROVE Checks'
  <2>1. /\ radio' = [youtube_id |-> v, checked_at |-> inserted]
        /\ rows' = rows /\ inserted' = inserted /\ requests' = requests
        /\ \A t \in TrackIds : Live(t) => rows[t].youtube_id # v
    BY <1>4 DEF BeginPick, is_duplicate
  <2>2. IdsCount' /\ DuplicatesAreTheRadios'
    BY <2>1
  <2>3. CheckedBefore'
    BY <1>1, <2>1 DEF Adding, Phase
  <2>4. CheckedThen'
    BY <2>1 DEF Adding, Phase
  <2> HIDE DEF IdsCount, CheckedBefore, CheckedThen, DuplicatesAreTheRadios
  <2> QED
    BY <2>2, <2>3, <2>4
<1>5. CASE CommitPick
  <2> DEFINE u == inserted'
  <2>1. /\ u = inserted + 1 /\ u \in TrackIds /\ rows'[u] # None
        /\ rows'[u].added_by = Radio
        /\ rows'[u].youtube_id = radio.youtube_id
        /\ rows'[u].checked_at = radio.checked_at
        /\ \A t \in TrackIds \ {u} : rows'[t] = rows[t]
    BY <1>5, PickInserts
  <2>2. radio # None /\ radio' = None /\ requests' = requests
    BY <1>5 DEF CommitPick
  <2>3. \A t \in TrackIds : Exists(t) => t < u
    BY <1>1, <2>1
  <2>4. IdsCount'
    BY <1>1, <2>1, <2>3
  <2>5. \A r \in Requests :
          Adding(r) => requests[r].checked_at < u /\ requests[r].checked_at \in Nat
    BY <2>1, RequestTypes DEF AddRequest, Adding
  <2>6. CheckedBefore'
    BY <1>1, <2>1, <2>2, <2>5 DEF Adding, Phase
  <2>7. CheckedThen'
    BY <2>1, <2>2, <2>5 DEF Adding, Phase
  <2>8. DuplicatesAreTheRadios'
    <3> SUFFICES ASSUME NEW t \in TrackIds, NEW w \in TrackIds, t < w, Live(t)', Live(w)',
                        rows'[t].youtube_id = rows'[w].youtube_id
                 PROVE  rows'[w].checked_at < t /\ Radio \in {rows'[t].added_by, rows'[w].added_by}
      OBVIOUS
    <3>1. t # u
      BY <1>1, <2>1, <2>3
    <3>2. CASE w = u
      BY <2>1, <2>2, <3>1, <3>2
    <3>3. CASE w # u
      BY <2>1, <3>1, <3>3
    <3> QED
      BY <3>2, <3>3
  <2> HIDE DEF IdsCount, CheckedBefore, CheckedThen, DuplicatesAreTheRadios
  <2> QED
    BY <2>4, <2>6, <2>7, <2>8
<1>6. CASE Quiet
  <2> USE <1>6 DEF Quiet
  <2>1. IdsCount'
    OBVIOUS
  <2>2. CheckedBefore'
    BY DEF Adding, Phase
  <2>3. CheckedThen'
    BY DEF Adding, Phase
  <2>4. DuplicatesAreTheRadios'
    OBVIOUS
  <2> HIDE DEF IdsCount, CheckedBefore, CheckedThen, DuplicatesAreTheRadios
  <2> QED
    BY <2>1, <2>2, <2>3, <2>4
<1> HIDE DEF Checks
<1> QED
  BY MostStepsAreQuiet, <1>2, <1>3, <1>4, <1>5, <1>6

\* Two live rows of one video are the radio's doing, however many requests are
\* in flight.
THEOREM DuplicatesAreTheRadiosAlways == Spec => []DuplicatesAreTheRadios
<1>1. Init => TypeOK /\ Locking /\ Checks
  BY TypeInit, ChecksInit
<1>2. TypeOK /\ Locking /\ Checks /\ [Next]_vars => TypeOK' /\ Locking' /\ Checks'
  BY TypeStep, LockStep, ChecksStep
<1>3. Checks => DuplicatesAreTheRadios
  BY DEF Checks
<1> QED
  BY <1>1, <1>2, <1>3, PTL DEF Spec
-----------------------------------------------------------------------------
(***************************************************************************)
(* The cap on what a listener has pending.                                 *)
(***************************************************************************)
OnAir(t) == InState(t, {"playing"})
OneOnAir == \A t, u \in TrackIds : OnAir(t) /\ OnAir(u) => t = u

\* What a listener has in the queue or on air, and that there is room for one more
\* when a request of theirs is about to add it.
Capped ==
  \A l \in Listeners \ {Host} :
    /\ Cardinality(LiveOf(l)) <= MaxPending + 1
    /\ \A r \in Requests : Adding(r) /\ requests[r].by = l => Cardinality(LiveOf(l)) <= MaxPending

\* Sets of tracks are finite, and smaller the fewer tracks there are in them.
LEMMA TrackSets ==
  ASSUME NEW S \in SUBSET TrackIds
  PROVE  /\ IsFiniteSet(S) /\ Cardinality(S) \in Nat
         /\ \A T \in SUBSET S : IsFiniteSet(T) /\ Cardinality(T) <= Cardinality(S)
<1>1. IsFiniteSet(TrackIds)
  BY BoundsAssumption, FS_Interval DEF TrackIds
<1>2. IsFiniteSet(S)
  BY <1>1, FS_Subset
<1> QED
  BY <1>2, FS_Subset, FS_CardinalityType

\* Only the claim puts a track on air.
LEMMA OnlyTheClaimPutsOnAir ==
  TypeOK /\ Locking /\ [Next]_vars =>
    \/ \A t \in TrackIds : OnAir(t)' => OnAir(t)
    \/ rows' # rows /\ \E u \in TrackIds : ClaimNextTrack(u)
<1> DEFINE Kept == \A t \in TrackIds : OnAir(t)' => OnAir(t)
<1> SUFFICES ASSUME TypeOK, Locking, [Next]_vars,
                    \A u \in TrackIds : ~ClaimNextTrack(u) \/ rows' = rows
             PROVE  Kept
  OBVIOUS
<1> USE NoneAssumption DEF TypeOK, OnAir, InState, Exists
<1>1. CASE rows' = rows
  BY <1>1
<1>2. ASSUME NEW r \in Requests, RequestStep(r) PROVE Kept
  <2>1. CASE CommitAdd(r)
    BY <2>1, AddInserts
  <2>2. CASE CommitRemove(r)
    BY <2>2 DEF CommitRemove
  <2>3. CASE CommitPromote(r)
    <3>1. requests[r].track \in TrackIds /\ Exists(requests[r].track)
      BY <2>3, RequestTypes DEF CommitPromote, Locking, PromoteRequest
    <3> QED
      BY <2>3, <3>1 DEF CommitPromote, Row
  <2>4. ASSUME NEW l \in Listeners, Ban(r, l) PROVE Kept
    BY <2>4 DEF Ban
  <2>5. ASSUME NEW u \in TrackIds, Skip(r, u) PROVE Kept
    BY <2>5 DEF Skip, Current, SetState, Row
  <2> QED
    BY <1>1, <1>2, <2>1, <2>2, <2>3, <2>4, <2>5
       DEF RequestStep, LookUp, Abandon, Enter, View, Mute, Unban, BeginAdd, BeginRemove, Vote,
           SetVote, BeginPromote
<1>3. CASE WorkerStep
  <2>1. CASE CommitPick
    BY <2>1, PickInserts
  <2>2. ASSUME NEW u \in TrackIds, Requeue(u) PROVE Kept
    BY <2>2 DEF Requeue, Row
  <2>3. ASSUME NEW u \in TrackIds, NEW state \in {"played", "failed"}, Finish(u, state) PROVE Kept
    BY <2>3 DEF Finish, SetState, Row
  <2> QED
    BY <1>1, <1>3, <2>1, <2>2, <2>3 DEF WorkerStep, BeginPick, AbandonPick
<1> QED
  BY <1>1, <1>2, <1>3 DEF Next, MuteExpires, vars

\* And only when there is none.
LEMMA OneOnAirStep == TypeOK /\ Locking /\ OneOnAir /\ [Next]_vars => OneOnAir'
<1>1. ASSUME TypeOK, NEW u \in TrackIds, ClaimNextTrack(u) PROVE OneOnAir'
  BY <1>1 DEF ClaimNextTrack, TypeOK, OneOnAir, OnAir, InState, Exists
<1> QED
  BY <1>1, OnlyTheClaimPutsOnAir DEF OneOnAir

\* A check leaves room, an insert takes it, and nothing else does.
LEMMA CappedStep == TypeOK /\ Locking /\ OneOnAir /\ Capped /\ [Next]_vars => Capped'
<1> SUFFICES ASSUME TypeOK, Locking, OneOnAir, Capped, [Next]_vars,
                    NEW l \in Listeners \ {Host}
             PROVE  /\ Cardinality(LiveOf(l)') <= MaxPending + 1
                    /\ \A r \in Requests : Adding(r)' /\ requests'[r].by = l
                                           => Cardinality(LiveOf(l)') <= MaxPending
  BY DEF Capped, LiveOf
<1> USE BoundsAssumption, ListenersAssumption, NoneAssumption
<1>1. LiveOf(l) \in SUBSET TrackIds /\ LiveOf(l)' \in SUBSET TrackIds
  BY DEF LiveOf, TrackIds
<1>2. /\ Cardinality(LiveOf(l)) \in Nat /\ IsFiniteSet(LiveOf(l))
      /\ Cardinality(LiveOf(l)) <= MaxPending + 1
      /\ \A r \in Requests : Adding(r) /\ requests[r].by = l => Cardinality(LiveOf(l)) <= MaxPending
  BY <1>1, TrackSets DEF Capped
<1>3. ASSUME LiveOf(l)' \subseteq LiveOf(l),
             \A r \in Requests : Adding(r)' => requests'[r] = requests[r]
      PROVE  /\ Cardinality(LiveOf(l)') <= MaxPending + 1
             /\ \A r \in Requests : Adding(r)' /\ requests'[r].by = l
                                    => Cardinality(LiveOf(l)') <= MaxPending
  <2>1. Cardinality(LiveOf(l)') <= Cardinality(LiveOf(l)) /\ Cardinality(LiveOf(l)') \in Nat
    BY <1>1, <1>3, TrackSets
  <2> QED
    BY <1>2, <1>3, <2>1 DEF Adding, Phase
<1>4. ASSUME NEW r \in Requests, NEW m \in Listeners, NEW v \in Videos, BeginAdd(r, m, v)
      PROVE  /\ Cardinality(LiveOf(l)') <= MaxPending + 1
             /\ \A q \in Requests : Adding(q)' /\ requests'[q].by = l
                                    => Cardinality(LiveOf(l)') <= MaxPending
  <2>1. LiveOf(l)' = LiveOf(l)
    BY <1>4 DEF BeginAdd, LiveOf, Live, InState, Exists
  <2>2. \A q \in Requests : Adding(q)' /\ requests'[q].by = l => m = l
    BY <1>4 DEF BeginAdd, Handles, Unlocked, Adding, Phase, TypeOK
  <2>3. ASSUME m = l PROVE Cardinality(LiveOf(l)) <= MaxPending
    <3> DEFINE waiting == {t \in TrackIds : Queued(t) /\ rows[t].added_by = l}
    <3>1. Cardinality(waiting) < MaxPending
      BY <1>4, <2>3 DEF BeginAdd, pending_count_for
    <3>2. IsFiniteSet(waiting) /\ Cardinality(waiting) \in Nat
      BY TrackSets
    <3>3. CASE \A t \in LiveOf(l) : ~OnAir(t)
      <4>1. LiveOf(l) \subseteq waiting
        BY <3>3 DEF LiveOf, Live, OnAir, Queued, InState
      <4>2. Cardinality(LiveOf(l)) <= Cardinality(waiting)
        BY <4>1, TrackSets
      <4> QED
        BY <1>2, <3>1, <3>2, <4>2
    <3>4. ASSUME NEW t \in LiveOf(l), OnAir(t) PROVE Cardinality(LiveOf(l)) <= MaxPending
      <4>1. LiveOf(l) \subseteq waiting \cup {t}
        BY <3>4 DEF LiveOf, Live, OnAir, Queued, InState, OneOnAir
      <4>2. t \notin waiting
        BY <3>4 DEF OnAir, Queued, InState
      <4>3. Cardinality(waiting \cup {t}) = Cardinality(waiting) + 1
        BY <3>2, <4>2, FS_AddElement
      <4>4. waiting \cup {t} \in SUBSET TrackIds
        BY <3>4 DEF LiveOf
      <4>5. Cardinality(LiveOf(l)) <= Cardinality(waiting \cup {t})
        BY <4>1, <4>4, TrackSets
      <4> HIDE DEF waiting
      <4> QED
        BY <1>2, <3>1, <3>2, <4>3, <4>5
    <3> QED
      BY <3>3, <3>4
  <2> QED
    BY <1>2, <2>1, <2>2, <2>3
<1>5. ASSUME NEW r \in Requests, CommitAdd(r)
      PROVE  /\ Cardinality(LiveOf(l)') <= MaxPending + 1
             /\ \A q \in Requests : Adding(q)' /\ requests'[q].by = l
                                    => Cardinality(LiveOf(l)') <= MaxPending
  <2>1. \A q \in Requests : ~Adding(q)'
    BY <1>5 DEF CommitAdd, Locking, Holds, Adding, Phase, End, TypeOK
  <2>2. CASE requests[r].by = l
    <3>1. LiveOf(l)' \subseteq LiveOf(l) \cup {inserted'}
      BY <1>5, AddInserts DEF LiveOf, Live, InState, Exists, TrackIds
    <3>2. LiveOf(l) \cup {inserted'} \in SUBSET TrackIds
      BY <1>1, <1>5, AddInserts
    <3>3. Cardinality(LiveOf(l)') <= Cardinality(LiveOf(l) \cup {inserted'})
      BY <3>1, <3>2, TrackSets
    <3>4. Cardinality(LiveOf(l) \cup {inserted'}) <= Cardinality(LiveOf(l)) + 1
      <4> DEFINE S == LiveOf(l)
                 u == inserted'
      <4> HIDE DEF S, u
      <4>1. IsFiniteSet(S) /\ Cardinality(S) \in Nat
        BY <1>2 DEF S
      <4>2. CASE u \in S
        <5>1. S \cup {u} = S
          BY <4>2
        <5> QED
          BY <4>1, <5>1 DEF S, u
      <4>3. CASE u \notin S
        <5>1. Cardinality(S \cup {u}) = Cardinality(S) + 1
          BY <4>1, <4>3, FS_AddElement
        <5> QED
          BY <4>1, <5>1 DEF S, u
      <4> QED
        BY <4>2, <4>3
    <3>5. Cardinality(LiveOf(l)) <= MaxPending
      BY <1>2, <1>5, <2>2 DEF CommitAdd, Adding
    <3>6. Cardinality(LiveOf(l)') \in Nat /\ Cardinality(LiveOf(l) \cup {inserted'}) \in Nat
      BY <1>1, <3>2, TrackSets
    <3> QED
      BY <1>2, <2>1, <3>3, <3>4, <3>5, <3>6
  <2>3. CASE requests[r].by # l
    <3>1. LiveOf(l)' \subseteq LiveOf(l)
      BY <1>5, <2>3, AddInserts DEF LiveOf, Live, InState, Exists, TrackIds
    <3> QED
      BY <1>3, <2>1, <3>1
  <2> QED
    BY <2>2, <2>3
<1>6. ASSUME NEW v \in Videos, BeginPick(v)
      PROVE  LiveOf(l)' \subseteq LiveOf(l) /\ requests' = requests
  BY <1>6 DEF BeginPick, LiveOf, Live, InState, Exists
<1>7. CASE CommitPick
  <2>1. LiveOf(l)' \subseteq LiveOf(l) /\ requests' = requests
    BY <1>7, PickInserts DEF CommitPick, LiveOf, Live, InState, Exists, TrackIds
  <2> QED
    BY <1>3, <2>1
<1>8. CASE Quiet
  <2>1. LiveOf(l)' \subseteq LiveOf(l)
    BY <1>8 DEF Quiet, LiveOf, Live, InState
  <2> QED
    BY <1>3, <1>8, <2>1 DEF Quiet
<1> QED
  BY MostStepsAreQuiet, <1>3, <1>4, <1>5, <1>6, <1>7, <1>8

\* The cap is overrun by one at most, for any cap and any number of requests.
THEOREM PendingBoundedAlways == Spec => []PendingBounded
<1>1. Init => TypeOK /\ Locking /\ OneOnAir /\ Capped
  <2>1. ASSUME Init PROVE OneOnAir /\ Capped
    <3>1. \A l : LiveOf(l) = {}
      BY <2>1 DEF Init, LiveOf, Live, InState, Exists
    <3>2. Cardinality({}) = 0
      BY FS_EmptySet
    <3> QED
      BY <2>1, <3>1, <3>2, BoundsAssumption
         DEF Init, OneOnAir, OnAir, InState, Exists, Capped, Adding, Phase
  <2> QED
    BY <2>1, TypeInit
<1>2. TypeOK /\ Locking /\ OneOnAir /\ Capped /\ [Next]_vars
      => TypeOK' /\ Locking' /\ OneOnAir' /\ Capped'
  BY TypeStep, LockStep, OneOnAirStep, CappedStep
<1>3. Capped => PendingBounded
  BY DEF Capped, PendingBounded, LiveOf, Live
<1> QED
  BY <1>1, <1>2, <1>3, PTL DEF Spec
-----------------------------------------------------------------------------
(***************************************************************************)
(* What is shown is what is played.                                        *)
(***************************************************************************)

\* Whoever has nothing hidden in the queue sees the queue the worker plays.
LEMMA SameQueue ==
  ASSUME TypeOK, NEW l \in Listeners,
         \A u \in TrackIds : Queued(u) /\ rows[u].added_by = l => ~rows[u].shadow
  PROVE  queued_tracks(l) = playable_tracks
<1>1. \A i \in TrackIds : Queued(i) => rows[i].added_by # None
  BY NoneAssumption DEF TypeOK, Row, Queued, InState, Exists
<1> QED
  BY <1>1 DEF queued_tracks, playable_tracks

\* What such a listener sees on top is what plays next, always.
THEOREM SeenIsPlayedAlways == Spec => SeenIsPlayed
<1> DEFINE Seen == \A t \in TrackIds : Queued(t) /\ InState(t, {"playing"})' =>
                     \A l \in Listeners :
                       (\A u \in TrackIds : Queued(u) /\ rows[u].added_by = l => ~rows[u].shadow)
                       => Heads(Candidate(t), queued_tracks(l))
<1>1. ASSUME TypeOK, Locking, [Next]_vars PROVE [Seen]_rows
  <2> SUFFICES ASSUME rows' # rows, NEW t \in TrackIds, Queued(t), InState(t, {"playing"})',
                      NEW l \in Listeners,
                      \A u \in TrackIds : Queued(u) /\ rows[u].added_by = l => ~rows[u].shadow
               PROVE  Heads(Candidate(t), queued_tracks(l))
    OBVIOUS
  <2>1. ~OnAir(t) /\ OnAir(t)'
    BY DEF OnAir, Queued, InState
  <2>2. PICK u \in TrackIds : ClaimNextTrack(u)
    BY <1>1, <2>1, OnlyTheClaimPutsOnAir
  <2>3. u = t
    BY <1>1, <2>1, <2>2 DEF ClaimNextTrack, OnAir, InState, Exists, TypeOK
  <2>4. Heads(Candidate(t), playable_tracks)
    BY <2>2, <2>3 DEF ClaimNextTrack
  <2>5. queued_tracks(l) = playable_tracks
    BY <1>1, SameQueue
  <2> QED
    BY <2>4, <2>5
<1>2. TypeOK /\ Locking /\ [Next]_vars => TypeOK' /\ Locking'
  BY TypeStep, LockStep
<1> HIDE DEF Seen
<1>3. Spec => [][Seen]_rows
  BY <1>1, <1>2, TypeInit, PTL DEF Spec
<1> QED
  BY <1>3 DEF SeenIsPlayed, Seen
-----------------------------------------------------------------------------
(***************************************************************************)
(* What a ban leaves behind.                                               *)
(***************************************************************************)
AskedBy(r, l) == Phase(r) \in {"checked", "known", "unknown", "adding"} /\ requests[r].by = l

\* Nothing of l is left in the room, and no request of theirs is in flight.
Gone(l) ==
  /\ l \notin members
  /\ \A t \in TrackIds : Exists(t) => rows[t].added_by # l
  /\ l \in Voters => \A t \in TrackIds : votes[t][l] = 0
  /\ \A r \in Requests : ~AskedBy(r, l)

BansHold == \A l \in banned \ raced : Gone(l)

\* No step brings anything back.
LEMMA BansHoldStep == TypeOK /\ Locking /\ BansHold /\ [Next]_vars => BansHold'
<1> SUFFICES ASSUME TypeOK, Locking, BansHold, [Next]_vars,
                    NEW l \in Listeners, l \in banned', l \notin raced'
             PROVE  Gone(l)'
  <2>1. TypeOK /\ Locking /\ [Next]_vars => banned' \subseteq Listeners
    BY TypeStep DEF TypeOK
  <2> QED
    BY <2>1 DEF BansHold
<1> USE NoneAssumption, ListenersAssumption DEF TypeOK
<1>1. ASSUME l \in banned, l \notin raced PROVE Gone(l)
  BY <1>1 DEF BansHold
<1> USE DEF Gone, AskedBy, Phase, Exists
<1>2. ASSUME NEW r \in Requests, RequestStep(r) PROVE Gone(l)'
  <2> USE <1>1
  <2>1. ASSUME NEW m \in Listeners, Enter(r, m) PROVE Gone(l)'
    BY <2>1 DEF Enter, people
  <2>2. CASE LookUp(r)
    BY <2>2 DEF LookUp, people
  <2>3. ASSUME NEW m \in Listeners, View(r, m) PROVE Gone(l)'
    BY <2>3 DEF View, Handles, Join, End
  <2>4. CASE Abandon(r)
    BY <2>4 DEF Abandon, End, people
  <2>5. ASSUME NEW m \in Listeners, Mute(r, m) PROVE Gone(l)'
    BY <2>5 DEF Mute, Handles, End
  <2>6. ASSUME NEW m \in Listeners, NEW v \in Videos, BeginAdd(r, m, v) PROVE Gone(l)'
    BY <2>6 DEF BeginAdd, Handles, people
  <2>7. CASE CommitAdd(r)
    <3>1. /\ inserted' \in TrackIds /\ rows'[inserted'].added_by = requests[r].by
          /\ \A t \in TrackIds \ {inserted'} : rows'[t] = rows[t]
      BY <2>7, AddInserts
    <3>2. l \in banned /\ l \notin raced /\ Gone(l) /\ requests[r].by # l
      BY <2>7 DEF CommitAdd, Join
    <3>3. members' = members \cup {requests[r].by} /\ votes' = votes
          /\ requests' = [requests EXCEPT ![r] = None]
      BY <2>7 DEF CommitAdd, Join, End
    <3> QED
      BY <3>1, <3>2, <3>3
  <2>8. ASSUME NEW m \in Listeners, NEW t \in TrackIds, BeginRemove(r, m, t) PROVE Gone(l)'
    BY <2>8 DEF BeginRemove, people
  <2>9. CASE CommitRemove(r)
    BY <2>9 DEF CommitRemove, NoVotes, End, people
  <2>10. ASSUME NEW m \in Voters, NEW t \in TrackIds, NEW value \in VoteValues, Vote(r, m, t, value)
         PROVE  Gone(l)'
    BY <2>10 DEF Vote, SetVote, Handles, Join, End
  <2>11. ASSUME NEW t \in TrackIds, BeginPromote(r, t) PROVE Gone(l)'
    BY <2>11 DEF BeginPromote, people
  <2>12. CASE CommitPromote(r)
    <3>1. requests[r].track \in TrackIds /\ Exists(requests[r].track)
      BY <2>12, RequestTypes DEF CommitPromote, Locking, PromoteRequest
    <3> QED
      BY <2>12, <3>1 DEF CommitPromote, Row, End, people
  <2>13. ASSUME NEW m \in Listeners, Ban(r, m) PROVE Gone(l)'
    <3>1. CASE m # l
      BY <2>13, <3>1 DEF Ban, NoVotes
    <3>2. CASE m = l
      <4>1. \A q \in Requests : ~(Phase(q) \in {"checked", "unknown"} /\ requests[q].by = l)
        BY <2>13, <3>2 DEF Ban
      <4>2. \A q \in Requests : Phase(q) # "adding"
        BY <2>13 DEF Ban, Handles, Unlocked
      <4>3. \A q \in Requests : ~AskedBy(q, l)'
        BY <2>13, <3>2, <4>1, <4>2 DEF Ban
      <4>4. l \notin members' /\ \A t \in TrackIds : Exists(t)' => rows'[t].added_by # l
        BY <2>13, <3>2 DEF Ban, TracksOf
      <4>5. l \in Voters => \A t \in TrackIds : votes'[t][l] = 0
        BY <2>13, <3>2 DEF Ban, NoVotes
      <4> QED
        BY <4>3, <4>4, <4>5
    <3> QED
      BY <3>1, <3>2
  <2>14. ASSUME NEW m \in Listeners, Unban(r, m) PROVE Gone(l)'
    BY <2>14 DEF Unban, End
  <2>15. ASSUME NEW t \in TrackIds, Skip(r, t) PROVE Gone(l)'
    BY <2>15 DEF Skip, Current, InState, SetState, Row, End, people
  <2> QED
    BY <1>2, <2>1, <2>2, <2>3, <2>4, <2>5, <2>6, <2>7, <2>8, <2>9, <2>10, <2>11, <2>12, <2>13,
       <2>14, <2>15 DEF RequestStep
<1>3. ASSUME rows' = rows, votes' = votes, requests' = requests, banned' = banned, raced' = raced,
             members' = members
      PROVE  Gone(l)'
  BY <1>1, <1>3
<1>4. CASE WorkerStep
  <2> USE <1>1
  <2>1. CASE CommitPick
    BY <2>1, PickInserts DEF CommitPick, people
  <2>2. ASSUME NEW t \in TrackIds, ClaimNextTrack(t) PROVE Gone(l)'
    BY <2>2 DEF ClaimNextTrack, Queued, InState, Row, people
  <2>3. ASSUME NEW t \in TrackIds, Requeue(t) PROVE Gone(l)'
    BY <2>3 DEF Requeue, InState, Row, people
  <2>4. ASSUME NEW t \in TrackIds, NEW state \in {"played", "failed"}, Finish(t, state)
        PROVE  Gone(l)'
    BY <2>4 DEF Finish, InState, SetState, Row, people
  <2> QED
    BY <1>3, <1>4, <2>1, <2>2, <2>3, <2>4 DEF WorkerStep, BeginPick, AbandonPick, people
<1>5. ASSUME NEW m \in Listeners, MuteExpires(m) PROVE Gone(l)'
  BY <1>3, <1>5 DEF MuteExpires
<1>6. CASE UNCHANGED vars
  BY <1>3, <1>6 DEF vars, people
<1> QED
  BY <1>2, <1>4, <1>5, <1>6 DEF Next

\* Nothing of a banned listener is left or comes back, but for a request that was
\* between the ban check and the look-up of their row.
THEOREM BannedLeaveNothingAlways == Spec => []BannedLeaveNothing
<1>1. Init => TypeOK /\ Locking /\ BansHold
  BY TypeInit DEF Init, BansHold
<1>2. TypeOK /\ Locking /\ BansHold /\ [Next]_vars => TypeOK' /\ Locking' /\ BansHold'
  BY TypeStep, LockStep, BansHoldStep
<1>3. BansHold => BannedLeaveNothing
  BY DEF BansHold, Gone, BannedLeaveNothing
<1> QED
  BY <1>1, <1>2, <1>3, PTL DEF Spec

-----------------------------------------------------------------------------
(***************************************************************************)
(* PromotionLeads: what a promotion commits is above all that it counted.  *)
(***************************************************************************)

\* Nothing but its own commit ends a promotion and changes a row.
LEMMA OnlyItsCommitEndsAPromotion ==
  ASSUME TypeOK, Next, NEW r \in Requests,
         Phase(r) = "promoting", rows' # rows, requests'[r] = None
  PROVE  CommitPromote(r)
<1> USE NoneAssumption DEF TypeOK
<1>1. requests[r] # None
  BY DEF Phase
<1>2. ASSUME NEW q \in Requests, RequestStep(q) PROVE CommitPromote(r)
  <2> USE <1>1
  <2>1. CASE Abandon(q)
    BY <2>1 DEF Abandon
  <2>2. CASE CommitAdd(q)
    BY <2>2 DEF CommitAdd, End, Phase
  <2>3. CASE CommitRemove(q)
    BY <2>3 DEF CommitRemove, End, Phase
  <2>4. CASE CommitPromote(q)
    BY <2>4 DEF CommitPromote, End
  <2>5. ASSUME NEW l \in Listeners, Ban(q, l) PROVE CommitPromote(r)
    BY <2>5 DEF Ban, Handles, Phase
  <2>6. ASSUME NEW t \in TrackIds, Skip(q, t) PROVE CommitPromote(r)
    BY <2>6 DEF Skip, Handles, End, Phase
  <2> QED
    BY <1>2, <2>1, <2>2, <2>3, <2>4, <2>5, <2>6
    DEF RequestStep, LookUp, Enter, View, Mute, Unban, BeginAdd, BeginRemove, Vote, BeginPromote
<1>3. ASSUME requests' = requests PROVE CommitPromote(r)
  BY <1>1, <1>3
<1>4. CASE WorkerStep
  BY <1>3, <1>4 DEF WorkerStep, BeginPick, CommitPick, AbandonPick, ClaimNextTrack, Requeue, Finish
<1>5. ASSUME NEW l \in Listeners, MuteExpires(l) PROVE CommitPromote(r)
  BY <1>3, <1>5 DEF MuteExpires
<1> QED
  BY <1>2, <1>4, <1>5 DEF Next

\* So are the queues of the next state.
LEMMA QueuedTracksStayAQueue ==
  ASSUME NEW CONSTANT l PROVE TypeOK' => IsQueue(queued_tracks(l), Submitters)'
<1>1. TypeOK => IsQueue(queued_tracks(l), Submitters)
  BY QueuedTracksAreAQueue
<1> QED
  BY <1>1, PTL

\* The commit of a promotion that has counted all that is pending puts its
\* track above every other of every queue.
LEMMA PromotedLeads ==
  ASSUME TypeOK, TypeOK', NEW r \in Requests, CommitPromote(r), Queued(requests[r].track),
         NEW h \in -1 .. requests[r].highest, IsHighest(h),
         NEW l, NEW c \in queued_tracks(l)', c.id = requests[r].track
  PROVE  Heads(c, queued_tracks(l))'
<1> DEFINE p == requests[r].track
           Q == queued_tracks(l)'
<1>1. requests[r] \in PromoteRequest /\ p \in TrackIds /\ requests[r].highest \in Int
  BY RequestTypes DEF CommitPromote, PromoteRequest
<1>2. rows[p] \in Row
  BY <1>1, NoneAssumption DEF TypeOK, Queued, InState, Exists
<1>3. /\ rows'[p].priority = requests[r].highest + 1
      /\ \A t \in TrackIds \ {p} : rows'[t] = rows[t]
  BY <1>1, <1>2 DEF CommitPromote, OnTop, TypeOK, Row
<1>4. c.priority = requests[r].highest + 1
  BY <1>1, <1>3 DEF queued_tracks, Candidate
<1>5. ASSUME NEW d \in Q \ {c} PROVE d.priority <= requests[r].highest
  <2>1. PICK t \in TrackIds : Queued(t)' /\ d = Candidate(t)'
    BY DEF queued_tracks
  <2>2. t # p
    <3>1. PICK u \in TrackIds : c = Candidate(u)'
      BY DEF queued_tracks
    <3> QED
      BY <2>1, <3>1 DEF Candidate
  <2>3. Queued(t) /\ d.priority = rows[t].priority
    BY <1>3, <2>1, <2>2 DEF Queued, InState, Exists, Candidate
  <2>4. rows[t].priority <= h
    BY <2>3 DEF IsHighest
  <2>5. rows[t].priority \in Int
    BY <2>3, NoneAssumption DEF TypeOK, Queued, InState, Exists, Row
  <2> QED
    BY <1>1, <2>3, <2>4, <2>5
<1>6. IsQueue(Q, Submitters)
  BY QueuedTracksStayAQueue
<1>7. ASSUME NEW d \in Q \ {c} PROVE Ahead(c, d, Q)
  <2>1. c \in Q /\ d \in Q
    OBVIOUS
  <2>2. c.priority \in Int /\ d.priority \in Int
    BY <1>6, <2>1 DEF IsQueue, CandidateOf
  <2>3. c.priority > d.priority
    BY <1>1, <1>4, <1>5, <2>2
  <2> HIDE DEF Q
  <2> QED
    BY <1>6, <2>1, <2>3, AheadUnfolded
<1> QED
  BY <1>7 DEF Heads

\* A promotion leads every queue that shows it, unless a track it has not counted
\* was handed back before its commit.
THEOREM PromotionLeadsAlways == Spec => PromotionLeads
<1> DEFINE Leads ==
      \A r \in Requests :
        /\ Phase(r) = "promoting" /\ rows' # rows /\ requests'[r] = None
        /\ Queued(requests[r].track) /\ \E h \in -1 .. requests[r].highest : IsHighest(h)
        => \A l \in Listeners \cup {None} :
             \A c \in queued_tracks(l)' :
               c.id = requests[r].track => Heads(c, queued_tracks(l))'
<1>1. TypeOK /\ Locking /\ [Next]_vars => TypeOK' /\ Locking'
  BY TypeStep, LockStep
<1>2. ASSUME TypeOK, Locking, [Next]_vars PROVE [Leads]_vars
  BY <1>1, <1>2, OnlyItsCommitEndsAPromotion, PromotedLeads
<1> HIDE DEF Leads
<1>3. Spec => [][Leads]_vars
  BY <1>1, <1>2, TypeInit, PTL DEF Spec
<1> QED
  BY <1>3 DEF PromotionLeads, Leads
=============================================================================
