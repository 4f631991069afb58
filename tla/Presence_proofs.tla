---------------------------- MODULE Presence_proofs ----------------------------
(***************************************************************************)
(* Proofs about Presence, for any rooms, sessions and calls, and with the  *)
(* FLUSHALL that Stream adds to its steps.                                 *)
(***************************************************************************)
EXTENDS Presence, TLAPS

AnyNext == PresenceNext \/ FlushPresence

\* A call that is under way is somebody's, somewhere, and of its kind.
Placed ==
  \A v \in Visits : At(v) # "away" =>
    /\ Room(v) \in Rooms /\ Who(v) \in Sessions
    /\ At(v) \in {"subscribed", "open", "beating", "unkept"} => visit[v].kind = "socket"
    /\ At(v) = "telling" => visit[v].kind = "ban"

Typed == PresenceTypeOK /\ Placed

\* Nobody is anywhere at first.
LEMMA TypedInit == PresenceAssumption /\ PresenceInit => Typed
  BY DEF PresenceAssumption, PresenceInit, Typed, PresenceTypeOK, Placed, Away, Calls, At, Room, Who

\* What counts a time down stays in range.
LEMMA LessInRange ==
  ASSUME NEW m \in Nat, NEW n \in 0 .. m
  PROVE  Less(n) \in 0 .. m /\ (n > 0 => Less(n) = n - 1)
  BY DEF Less

\* Where a call can stand.
Steps == {"away", "checked", "subscribed", "entering", "open", "beating", "unkept",
          "leaving", "grace", "recount", "extend", "telling"}

\* A step of one call moves that call alone, and keeps who and where it is.
LEMMA BecomesOnly ==
  ASSUME visit \in [Visits -> Calls], NEW v \in Visits, NEW at \in Steps, Becomes(v, at)
  PROVE  /\ visit' \in [Visits -> Calls]
         /\ \A w \in Visits \ {v} : visit'[w] = visit[w]
         /\ visit'[v].at = at
         /\ at # "away" => /\ visit'[v].kind = visit[v].kind /\ visit'[v].who = visit[v].who
                           /\ visit'[v].room = visit[v].room
<1>1. CASE at = "away"
  BY <1>1 DEF Becomes, Away, Calls
<1>2. CASE at # "away"
  <2>1. visit' = [visit EXCEPT ![v] = [visit[v] EXCEPT !.at = at]]
    BY <1>2 DEF Becomes
  <2>2. [visit[v] EXCEPT !.at = at] \in Calls
    BY DEF Calls, Steps
  <2> QED
    BY <1>2, <2>1, <2>2 DEF Calls
<1> QED
  BY <1>1, <1>2

\* Every step assigns every variable a value of its type.
LEMMA TypedStep == PresenceAssumption /\ Typed /\ [AnyNext]_presenceVars => Typed'
<1> SUFFICES ASSUME PresenceAssumption, Typed, [AnyNext]_presenceVars PROVE Typed'
  OBVIOUS
<1> USE DEF PresenceAssumption, Typed, PresenceTypeOK, Placed, Calls, Away, At, Room, Who, Becomes, excuses
<1>1. ASSUME NEW v \in Visits, NEW kind \in {"page", "socket"}, NEW s \in Sessions, NEW r \in Rooms, Check(v, kind, s, r) PROVE Typed'
  BY <1>1 DEF Check
<1>2. ASSUME NEW v \in Visits, Subscribe(v) PROVE Typed'
  BY <1>2 DEF Subscribe
<1>3. ASSUME NEW v \in Visits, Arrive(v) PROVE Typed'
  BY <1>3 DEF Arrive, MarksPresent
<1>4. ASSUME NEW v \in Visits, ReadyFails(v) PROVE Typed'
  BY <1>4 DEF ReadyFails
<1>5. ASSUME NEW v \in Visits, Beat(v) PROVE Typed'
  BY <1>5 DEF Beat, MarksPresent
<1>6. ASSUME NEW v \in Visits, MarkLive(v) PROVE Typed'
  <2>1. PRESENCE_TTL \in 0 .. PRESENCE_TTL /\ HEARTBEAT \in 0 .. HEARTBEAT
    OBVIOUS
  <2>2. live' \in [Rooms -> 0 .. PRESENCE_TTL] /\ beat' \in [Visits -> 0 .. HEARTBEAT]
    BY <1>6, <2>1 DEF MarkLive, NextBeat
  <2>3. CASE visit[v].kind = "socket"
    <3>1. visit' = [visit EXCEPT ![v] = [@ EXCEPT !.at = "open"]]
      BY <1>6, <2>3 DEF MarkLive
    <3>2. visit' \in [Visits -> Calls]
      BY <3>1
    <3> QED
      BY <1>6, <2>2, <2>3, <3>1, <3>2 DEF MarkLive
  <2>4. CASE visit[v].kind # "socket"
    BY <1>6, <2>2, <2>4 DEF MarkLive
  <2> QED
    BY <2>3, <2>4
<1>7. ASSUME NEW v \in Visits, Close(v) PROVE Typed'
  <2>1. v \in Visits /\ "leaving" \in Steps /\ Becomes(v, "leaving")
    BY <1>7 DEF Close, Steps
  <2>2. visit' \in [Visits -> Calls] /\ Placed'
    BY <2>1, <1>7, BecomesOnly DEF Close
  <2>3. beat' \in [Visits -> 0 .. HEARTBEAT]
    BY <1>7 DEF Close
  <2> QED
    BY <1>7, <2>2, <2>3 DEF Close
<1>8. ASSUME NEW v \in Visits, NEW s \in Sessions, NEW r \in Rooms, BeginBan(v, s, r) PROVE Typed'
  BY <1>8 DEF BeginBan
<1>9. ASSUME NEW v \in Visits, Remove(v) PROVE Typed'
  <2> DEFINE at == IF Present(Room(v)) \subseteq {Who(v)} THEN "grace" ELSE Left(v)
  <2>1. at \in {"grace", "telling", "away"} /\ (at = "telling" => visit[v].kind = "ban") /\ Becomes(v, at)
    BY <1>9 DEF Remove, Left
  <2>2. visit' \in [Visits -> Calls] /\ Placed'
    <3> HIDE DEF at
    <3>1. at \in Steps
      BY <2>1 DEF Steps
    <3> QED
      BY <2>1, <3>1, <1>9, BecomesOnly DEF Remove
  <2>3. present' \in [Rooms -> [Sessions -> 0 .. PRESENCE_TTL]]
    BY <1>9 DEF Remove
  <2> QED
    BY <1>9, <2>2, <2>3 DEF Remove, Sockets
<1>10. ASSUME NEW v \in Visits, Grace(v) PROVE Typed'
  <2>1. LAST_LISTENER_GRACE \in 0 .. PRESENCE_TTL
    OBVIOUS
  <2> QED
    BY <1>10, <2>1 DEF Grace
<1>11. ASSUME NEW v \in Visits, Recount(v) PROVE Typed'
  BY <1>11 DEF Recount, Left
<1>12. ASSUME NEW v \in Visits, Extend(v) PROVE Typed'
  BY <1>12 DEF Extend, Left
<1>13. ASSUME NEW v \in Visits, CommitBan(v) PROVE Typed'
  BY <1>13 DEF CommitBan, Sockets
<1>14. ASSUME NEW s \in Sessions, NEW r \in Rooms, Unban(s, r) PROVE Typed'
  BY <1>14 DEF Unban
<1>15. ASSUME NEW v \in Visits, HeartbeatDies(v) PROVE Typed'
  BY <1>15 DEF HeartbeatDies, Cut
<1>16. ASSUME NEW v \in Visits, Unkept(v) PROVE Typed'
  BY <1>16 DEF Unkept
<1>17. CASE ApiCrash
  BY <1>17 DEF ApiCrash, Cut
<1>18. CASE Tick
  <2>1. /\ \A r \in Rooms : Less(live[r]) \in 0 .. PRESENCE_TTL
        /\ \A r \in Rooms, s \in Sessions : Less(present[r][s]) \in 0 .. PRESENCE_TTL
        /\ \A v \in Visits : Less(beat[v]) \in 0 .. HEARTBEAT
    BY LessInRange
  <2> QED
    BY <1>18, <2>1 DEF Tick, AgePresence
<1>19. CASE FlushPresence
  BY <1>19 DEF FlushPresence, Sockets
<1>20. CASE UNCHANGED presenceVars
  BY <1>20 DEF presenceVars
<1> QED
  BY <1>1, <1>2, <1>3, <1>4, <1>5, <1>6, <1>7, <1>8, <1>9, <1>10,
     <1>11, <1>12, <1>13, <1>14, <1>15, <1>16, <1>17, <1>18, <1>19, <1>20
  DEF AnyNext, PresenceNext, VisitStep, CallStep
-----------------------------------------------------------------------------
(***************************************************************************)
(* The invariants.                                                         *)
(***************************************************************************)
\* A mark is whole while its call has not ended, and outlasts the wait for the
\* next heartbeat, unless another call, or a flush, has taken it out.
Kept ==
  \A v \in Visits : visit[v].kind = "socket" =>
    /\ At(v) \in {"entering", "beating"} =>
         \/ present[Room(v)][Who(v)] = PRESENCE_TTL
         \/ v \in undercut /\ present[Room(v)][Who(v)] = 0
    /\ At(v) = "open" =>
         \/ present[Room(v)][Who(v)] > beat[v]
         \/ v \in undercut /\ present[Room(v)][Who(v)] = 0

\* A room with an open socket of somebody present is live until the socket's
\* next heartbeat, or is about to be extended.
Reaches(v) ==
  /\ live[Room(v)] > 0
  /\ \/ live[Room(v)] > beat[v]
     \/ \E u \in Visits : Room(u) = Room(v) /\ At(u) \in {"recount", "extend"}
Heard == \A v \in Visits : Listening(v) /\ v \notin undercut => Reaches(v)

\* A socket of a banned session has been told, from its ban check on.
Told ==
  \A v \in Visits :
    /\ visit[v].kind = "socket" /\ At(v) \in {"checked", "subscribed", "entering", "open", "beating"}
    /\ <<Room(v), Who(v)>> \in banned
    => v \in kicked \cup late

\* Every mark is for longer than a heartbeat waits, and time passes for both.
LEMMA KeptStep ==
  PresenceAssumption /\ Typed /\ Kept /\ [AnyNext]_presenceVars => Kept'
<1> SUFFICES ASSUME PresenceAssumption, Typed, Kept, [AnyNext]_presenceVars PROVE Kept'
  OBVIOUS
<1> USE DEF PresenceAssumption, Typed, PresenceTypeOK, Placed, Calls, Away, At, Room, Who, Becomes, excuses, Kept
<1>1. ASSUME NEW v \in Visits, NEW kind \in {"page", "socket"}, NEW s \in Sessions, NEW r \in Rooms, Check(v, kind, s, r) PROVE Kept'
  BY <1>1 DEF Check
<1>2. ASSUME NEW v \in Visits, Subscribe(v) PROVE Kept'
  BY <1>2 DEF Subscribe
<1>3. ASSUME NEW v \in Visits, Arrive(v) PROVE Kept'
  BY <1>3 DEF Arrive, MarksPresent
<1>4. ASSUME NEW v \in Visits, ReadyFails(v) PROVE Kept'
  BY <1>4 DEF ReadyFails
<1>5. ASSUME NEW v \in Visits, Beat(v) PROVE Kept'
  BY <1>5 DEF Beat, MarksPresent
<1>6. ASSUME NEW v \in Visits, MarkLive(v) PROVE Kept'
  <2>1. CASE visit[v].kind = "socket"
    <3>1. visit' = [visit EXCEPT ![v] = [@ EXCEPT !.at = "open"]] /\ beat' = [beat EXCEPT ![v] = HEARTBEAT]
      BY <1>6, <2>1 DEF MarkLive, NextBeat
    <3>2. present' = present /\ undercut' = undercut
      BY <1>6 DEF MarkLive
    <3>3. \/ present[Room(v)][Who(v)] = PRESENCE_TTL
          \/ v \in undercut /\ present[Room(v)][Who(v)] = 0
      BY <1>6, <2>1 DEF MarkLive
    <3> QED
      BY <2>1, <3>1, <3>2, <3>3
  <2>2. CASE visit[v].kind # "socket"
    BY <1>6, <2>2 DEF MarkLive
  <2> QED
    BY <2>1, <2>2
<1>7. ASSUME NEW v \in Visits, Close(v) PROVE Kept'
  BY <1>7 DEF Close
<1>8. ASSUME NEW v \in Visits, NEW s \in Sessions, NEW r \in Rooms, BeginBan(v, s, r) PROVE Kept'
  BY <1>8 DEF BeginBan
<1>9. ASSUME NEW v \in Visits, Remove(v) PROVE Kept'
  <2> DEFINE at == IF Present(Room(v)) \subseteq {Who(v)} THEN "grace" ELSE Left(v)
  <2>1. at \in {"grace", "telling", "away"} /\ Becomes(v, at)
    BY <1>9 DEF Remove, Left
  <2>2. \A w \in Visits : At(w)' \in {"entering", "beating", "open"} => w # v /\ visit'[w] = visit[w]
    <3> HIDE DEF at
    <3>1. at \in Steps
      BY <2>1 DEF Steps
    <3>2. visit'[v].at = at /\ \A w \in Visits \ {v} : visit'[w] = visit[w]
      BY <2>1, <3>1, BecomesOnly
    <3> QED
      BY <2>1, <3>2
  <2>3. ASSUME NEW w \in Visits, visit[w].kind = "socket", At(w) \in {"entering", "beating", "open"}
        PROVE  \/ present'[Room(w)][Who(w)] = present[Room(w)][Who(w)]
               \/ w \in undercut' /\ present'[Room(w)][Who(w)] = 0
    <3>1. CASE Room(w) = Room(v) /\ Who(w) = Who(v)
      BY <1>9, <2>3, <3>1 DEF Remove, Sockets
    <3>2. CASE Room(w) # Room(v) \/ Who(w) # Who(v)
      BY <1>9, <3>2 DEF Remove
    <3> QED
      BY <3>1, <3>2
  <2>4. beat' = beat /\ undercut \subseteq undercut'
    BY <1>9 DEF Remove
  <2> QED
    BY <2>2, <2>3, <2>4
<1>10. ASSUME NEW v \in Visits, Grace(v) PROVE Kept'
  BY <1>10 DEF Grace
<1>11. ASSUME NEW v \in Visits, Recount(v) PROVE Kept'
  BY <1>11 DEF Recount, Left
<1>12. ASSUME NEW v \in Visits, Extend(v) PROVE Kept'
  BY <1>12 DEF Extend, Left
<1>13. ASSUME NEW v \in Visits, CommitBan(v) PROVE Kept'
  BY <1>13 DEF CommitBan
<1>14. ASSUME NEW s \in Sessions, NEW r \in Rooms, Unban(s, r) PROVE Kept'
  BY <1>14 DEF Unban
<1>15. ASSUME NEW v \in Visits, HeartbeatDies(v) PROVE Kept'
  BY <1>15 DEF HeartbeatDies
<1>16. ASSUME NEW v \in Visits, Unkept(v) PROVE Kept'
  BY <1>16 DEF Unkept
<1>17. CASE ApiCrash
  BY <1>17 DEF ApiCrash
<1>18. CASE Tick
  BY <1>18 DEF Tick, AgePresence, CallsRest, Less
<1>19. CASE FlushPresence
  <2>1. ASSUME NEW v \in Visits, visit[v].kind = "socket", At(v) \in {"entering", "open", "beating"}
        PROVE  v \in undercut'
    <3>1. v \in Sockets(Room(v), Who(v)) /\ Room(v) \in Rooms /\ Who(v) \in Sessions
      BY <2>1 DEF Sockets
    <3> QED
      BY <1>19, <3>1 DEF FlushPresence
  <2> QED
    BY <1>19, <2>1 DEF FlushPresence
<1>20. CASE UNCHANGED presenceVars
  BY <1>20 DEF presenceVars
<1> QED
  BY <1>1, <1>2, <1>3, <1>4, <1>5, <1>6, <1>7, <1>8, <1>9, <1>10,
     <1>11, <1>12, <1>13, <1>14, <1>15, <1>16, <1>17, <1>18, <1>19, <1>20
  DEF AnyNext, PresenceNext, VisitStep, CallStep

\* Who has subscribed is told by the publish; who has not is noted.
LEMMA ToldStep ==
  PresenceAssumption /\ Typed /\ Told /\ [AnyNext]_presenceVars => Told'
<1> SUFFICES ASSUME PresenceAssumption, Typed, Told, [AnyNext]_presenceVars PROVE Told'
  OBVIOUS
<1> USE DEF PresenceAssumption, Typed, PresenceTypeOK, Placed, Calls, Away, At, Room, Who, Becomes, excuses, Told
<1>1. ASSUME NEW v \in Visits, NEW kind \in {"page", "socket"}, NEW s \in Sessions, NEW r \in Rooms, Check(v, kind, s, r) PROVE Told'
  BY <1>1 DEF Check
<1>2. ASSUME NEW v \in Visits, Subscribe(v) PROVE Told'
  BY <1>2 DEF Subscribe
<1>3. ASSUME NEW v \in Visits, Arrive(v) PROVE Told'
  BY <1>3 DEF Arrive, MarksPresent
<1>4. ASSUME NEW v \in Visits, ReadyFails(v) PROVE Told'
  BY <1>4 DEF ReadyFails
<1>5. ASSUME NEW v \in Visits, Beat(v) PROVE Told'
  BY <1>5 DEF Beat, MarksPresent
<1>6. ASSUME NEW v \in Visits, MarkLive(v) PROVE Told'
  BY <1>6 DEF MarkLive, NextBeat
<1>7. ASSUME NEW v \in Visits, Close(v) PROVE Told'
  BY <1>7 DEF Close
<1>8. ASSUME NEW v \in Visits, NEW s \in Sessions, NEW r \in Rooms, BeginBan(v, s, r) PROVE Told'
  BY <1>8 DEF BeginBan
<1>9. ASSUME NEW v \in Visits, Remove(v) PROVE Told'
  BY <1>9 DEF Remove, Left
<1>10. ASSUME NEW v \in Visits, Grace(v) PROVE Told'
  BY <1>10 DEF Grace
<1>11. ASSUME NEW v \in Visits, Recount(v) PROVE Told'
  BY <1>11 DEF Recount, Left
<1>12. ASSUME NEW v \in Visits, Extend(v) PROVE Told'
  BY <1>12 DEF Extend, Left
<1>13. ASSUME NEW v \in Visits, CommitBan(v) PROVE Told'
  BY <1>13 DEF CommitBan, Sockets
<1>14. ASSUME NEW s \in Sessions, NEW r \in Rooms, Unban(s, r) PROVE Told'
  BY <1>14 DEF Unban
<1>15. ASSUME NEW v \in Visits, HeartbeatDies(v) PROVE Told'
  BY <1>15 DEF HeartbeatDies
<1>16. ASSUME NEW v \in Visits, Unkept(v) PROVE Told'
  BY <1>16 DEF Unkept
<1>17. CASE ApiCrash
  BY <1>17 DEF ApiCrash
<1>18. CASE Tick
  BY <1>18 DEF Tick, AgePresence
<1>19. CASE FlushPresence
  BY <1>19 DEF FlushPresence
<1>20. CASE UNCHANGED presenceVars
  BY <1>20 DEF presenceVars
<1> QED
  BY <1>1, <1>2, <1>3, <1>4, <1>5, <1>6, <1>7, <1>8, <1>9, <1>10,
     <1>11, <1>12, <1>13, <1>14, <1>15, <1>16, <1>17, <1>18, <1>19, <1>20
  DEF AnyNext, PresenceNext, VisitStep, CallStep

\* A room's time is written after its listeners', by the same call.
LEMMA LiveStep ==
  PresenceAssumption /\ Typed /\ LiveOutlastsPresence /\ [AnyNext]_presenceVars => LiveOutlastsPresence'
<1> SUFFICES ASSUME PresenceAssumption, Typed, LiveOutlastsPresence, [AnyNext]_presenceVars PROVE LiveOutlastsPresence'
  OBVIOUS
<1> USE DEF PresenceAssumption, Typed, PresenceTypeOK, Placed, Calls, Away, At, Room, Who, Becomes, excuses, LiveOutlastsPresence, Cut
<1>1. ASSUME NEW v \in Visits, NEW kind \in {"page", "socket"}, NEW s \in Sessions, NEW r \in Rooms, Check(v, kind, s, r) PROVE LiveOutlastsPresence'
  BY <1>1 DEF Check
<1>2. ASSUME NEW v \in Visits, Subscribe(v) PROVE LiveOutlastsPresence'
  BY <1>2 DEF Subscribe
<1>3. ASSUME NEW v \in Visits, Arrive(v) PROVE LiveOutlastsPresence'
  BY <1>3 DEF Arrive, MarksPresent
<1>4. ASSUME NEW v \in Visits, ReadyFails(v) PROVE LiveOutlastsPresence'
  <2> SUFFICES ASSUME NEW r \in Rooms \ torn', \A w \in Visits : Room(w)' = r => ~Cut(w)',
                      NEW s \in Sessions
               PROVE  present'[r][s] <= live'[r]
    OBVIOUS
  <2>1. CASE r = Room(v)
    <3>1. live'[r] = PRESENCE_TTL /\ present'[r][s] \in 0 .. PRESENCE_TTL
      BY <1>4, <2>1 DEF ReadyFails
    <3> QED
      BY <3>1
  <2>2. CASE r # Room(v)
    <3>1. \A w \in Visits : Room(w) = r => w # v /\ visit'[w] = visit[w]
      BY <1>4, <2>2 DEF ReadyFails
    <3> QED
      BY <1>4, <2>2, <3>1 DEF ReadyFails
  <2> QED
    BY <2>1, <2>2
<1>5. ASSUME NEW v \in Visits, Beat(v) PROVE LiveOutlastsPresence'
  BY <1>5 DEF Beat, MarksPresent
<1>6. ASSUME NEW v \in Visits, MarkLive(v) PROVE LiveOutlastsPresence'
  <2> SUFFICES ASSUME NEW r \in Rooms \ torn', \A w \in Visits : Room(w)' = r => ~Cut(w)',
                      NEW s \in Sessions
               PROVE  present'[r][s] <= live'[r]
    OBVIOUS
  <2>1. CASE r = Room(v)
    BY <1>6, <2>1 DEF MarkLive
  <2>2. CASE r # Room(v)
    <3>1. \A w \in Visits : Room(w) = r => w # v /\ visit'[w] = visit[w]
      BY <1>6, <2>2 DEF MarkLive
    <3> QED
      BY <1>6, <2>2, <3>1 DEF MarkLive
  <2> QED
    BY <2>1, <2>2
<1>7. ASSUME NEW v \in Visits, Close(v) PROVE LiveOutlastsPresence'
  BY <1>7 DEF Close
<1>8. ASSUME NEW v \in Visits, NEW s \in Sessions, NEW r \in Rooms, BeginBan(v, s, r) PROVE LiveOutlastsPresence'
  BY <1>8 DEF BeginBan
<1>9. ASSUME NEW v \in Visits, Remove(v) PROVE LiveOutlastsPresence'
  <2> SUFFICES ASSUME NEW r \in Rooms \ torn', \A w \in Visits : Room(w)' = r => ~Cut(w)',
                      NEW s \in Sessions
               PROVE  present'[r][s] <= live'[r]
    OBVIOUS
  <2>1. r \notin torn /\ live'[r] = live[r]
    BY <1>9 DEF Remove
  <2>2. present'[r][s] \in {0, present[r][s]}
    BY <1>9 DEF Remove
  <2>3. ASSUME NEW w \in Visits, Room(w) = r PROVE ~Cut(w)
    <3>1. CASE w = v
      BY <1>9, <3>1 DEF Remove
    <3>2. CASE w # v
      BY <1>9, <2>3, <3>2 DEF Remove
    <3> QED
      BY <3>1, <3>2
  <2>4. present[r][s] <= live[r]
    BY <2>1, <2>3
  <2> QED
    BY <2>1, <2>2, <2>4
<1>10. ASSUME NEW v \in Visits, Grace(v) PROVE LiveOutlastsPresence'
  BY <1>10 DEF Grace
<1>11. ASSUME NEW v \in Visits, Recount(v) PROVE LiveOutlastsPresence'
  <2> SUFFICES ASSUME NEW r \in Rooms \ torn', \A w \in Visits : Room(w)' = r => ~Cut(w)',
                      NEW s \in Sessions
               PROVE  present'[r][s] <= live'[r]
    OBVIOUS
  <2>1. CASE r = Room(v)
    <3>1. Present(r) = {}
      BY <1>11, <2>1 DEF Recount, Left, SomebodyArrived
    <3> QED
      BY <1>11, <3>1 DEF Recount, Present
  <2>2. CASE r # Room(v)
    <3>1. \A w \in Visits : Room(w) = r => w # v /\ visit'[w] = visit[w]
      BY <1>11, <2>2 DEF Recount
    <3> QED
      BY <1>11, <2>2, <3>1 DEF Recount
  <2> QED
    BY <2>1, <2>2
<1>12. ASSUME NEW v \in Visits, Extend(v) PROVE LiveOutlastsPresence'
  <2> SUFFICES ASSUME NEW r \in Rooms \ torn', \A w \in Visits : Room(w)' = r => ~Cut(w)',
                      NEW s \in Sessions
               PROVE  present'[r][s] <= live'[r]
    OBVIOUS
  <2>1. CASE r = Room(v)
    BY <1>12, <2>1 DEF Extend
  <2>2. CASE r # Room(v)
    <3>1. \A w \in Visits : Room(w) = r => w # v /\ visit'[w] = visit[w]
      BY <1>12, <2>2 DEF Extend
    <3> QED
      BY <1>12, <2>2, <3>1 DEF Extend
  <2> QED
    BY <2>1, <2>2
<1>13. ASSUME NEW v \in Visits, CommitBan(v) PROVE LiveOutlastsPresence'
  BY <1>13 DEF CommitBan
<1>14. ASSUME NEW s \in Sessions, NEW r \in Rooms, Unban(s, r) PROVE LiveOutlastsPresence'
  BY <1>14 DEF Unban
<1>15. ASSUME NEW v \in Visits, HeartbeatDies(v) PROVE LiveOutlastsPresence'
  <2> SUFFICES ASSUME NEW r \in Rooms \ torn', \A w \in Visits : Room(w)' = r => ~Cut(w)',
                      NEW s \in Sessions
               PROVE  present'[r][s] <= live'[r]
    OBVIOUS
  <2>1. \A w \in Visits \ {v} : visit'[w] = visit[w]
    BY <1>15, BecomesOnly DEF HeartbeatDies, Steps
  <2>2. r \notin torn /\ live'[r] = live[r] /\ present'[r][s] = present[r][s]
    BY <1>15 DEF HeartbeatDies
  <2>3. Cut(v) => Room(v) # r
    BY <1>15 DEF HeartbeatDies
  <2>4. \A w \in Visits : Room(w) = r => ~Cut(w)
    BY <2>1, <2>3
  <2> QED
    BY <2>2, <2>4
<1>16. ASSUME NEW v \in Visits, Unkept(v) PROVE LiveOutlastsPresence'
  BY <1>16 DEF Unkept
<1>17. CASE ApiCrash
  BY <1>17 DEF ApiCrash
<1>18. CASE Tick
  BY <1>18 DEF Tick, AgePresence, CallsRest, Less
<1>19. CASE FlushPresence
  BY <1>19 DEF FlushPresence
<1>20. CASE UNCHANGED presenceVars
  BY <1>20 DEF presenceVars
<1> QED
  BY <1>1, <1>2, <1>3, <1>4, <1>5, <1>6, <1>7, <1>8, <1>9, <1>10,
     <1>11, <1>12, <1>13, <1>14, <1>15, <1>16, <1>17, <1>18, <1>19, <1>20
  DEF AnyNext, PresenceNext, VisitStep, CallStep
\* Whoever shortens a room's time counts again, and finds who is still there.
LEMMA HeardStep ==
  PresenceAssumption /\ Typed /\ Kept /\ LiveOutlastsPresence /\ Heard /\ [AnyNext]_presenceVars => Heard'
<1> SUFFICES ASSUME PresenceAssumption, Typed, Kept, LiveOutlastsPresence, Heard,
                    [AnyNext]_presenceVars
             PROVE  Heard'
  OBVIOUS
<1> USE DEF PresenceAssumption, Typed, PresenceTypeOK, Placed, Calls, Away, At, Room, Who, Becomes, excuses,
            Listening, Heard, Reaches
<1>1. ASSUME NEW v \in Visits, NEW kind \in {"page", "socket"}, NEW s \in Sessions, NEW r \in Rooms, Check(v, kind, s, r) PROVE Heard'
  BY <1>1 DEF Check
<1>2. ASSUME NEW v \in Visits, Subscribe(v) PROVE Heard'
  <2> SUFFICES ASSUME NEW w \in Visits, Listening(w)', w \notin undercut' PROVE Reaches(w)'
    OBVIOUS
  <2>1. w # v
    BY <1>2 DEF Subscribe
  <2>2. visit'[w] = visit[w] /\ beat' = beat /\ live' = live /\ w \notin undercut
    BY <1>2, <2>1 DEF Subscribe
  <2>3. \A u \in Visits : At(u) \in {"recount", "extend"} => visit'[u] = visit[u]
    BY <1>2 DEF Subscribe
  <2> QED
    BY <2>2, <2>3
<1>3. ASSUME NEW v \in Visits, Arrive(v) PROVE Heard'
  BY <1>3 DEF Arrive, MarksPresent
<1>4. ASSUME NEW v \in Visits, ReadyFails(v) PROVE Heard'
  BY <1>4 DEF ReadyFails
<1>5. ASSUME NEW v \in Visits, Beat(v) PROVE Heard'
  <2> SUFFICES ASSUME NEW w \in Visits, Listening(w)', w \notin undercut' PROVE Reaches(w)'
    OBVIOUS
  <2>1. Listening(w) /\ w \notin undercut /\ visit'[w].room = visit[w].room
    BY <1>5 DEF Beat, MarksPresent
  <2>2. \A u \in Visits : At(u) \in {"recount", "extend"} => visit'[u] = visit[u]
    BY <1>5 DEF Beat, MarksPresent
  <2>3. live' = live /\ beat' = beat
    BY <1>5 DEF Beat, MarksPresent
  <2> QED
    BY <2>1, <2>2, <2>3
<1>6. ASSUME NEW v \in Visits, MarkLive(v) PROVE Heard'
  <2> SUFFICES ASSUME NEW w \in Visits, Listening(w)', w \notin undercut' PROVE Reaches(w)'
    OBVIOUS
  <2>1. CASE Room(w)' = Room(v)
    <3>1. beat'[w] \in 0 .. HEARTBEAT /\ live'[Room(v)] = PRESENCE_TTL
      BY <1>6, TypedStep DEF MarkLive
    <3> QED
      BY <2>1, <3>1
  <2>2. CASE Room(w)' # Room(v)
    <3>1. w # v
      BY <1>6, <2>2 DEF MarkLive
    <3>2. visit'[w] = visit[w] /\ beat'[w] = beat[w] /\ live'[Room(w)] = live[Room(w)] /\ w \notin undercut
      BY <1>6, <2>2, <3>1 DEF MarkLive
    <3>3. \A u \in Visits : At(u) \in {"recount", "extend"} => visit'[u] = visit[u]
      BY <1>6 DEF MarkLive
    <3> QED
      BY <3>2, <3>3
  <2> QED
    BY <2>1, <2>2
<1>7. ASSUME NEW v \in Visits, Close(v) PROVE Heard'
  <2> SUFFICES ASSUME NEW w \in Visits, Listening(w)', w \notin undercut' PROVE Reaches(w)'
    OBVIOUS
  <2>1. w # v
    BY <1>7 DEF Close
  <2>2. visit'[w] = visit[w] /\ beat'[w] = beat[w] /\ live' = live /\ w \notin undercut
    BY <1>7, <2>1 DEF Close
  <2>3. \A u \in Visits : At(u) \in {"recount", "extend"} => visit'[u] = visit[u]
    BY <1>7 DEF Close
  <2> QED
    BY <2>2, <2>3
<1>8. ASSUME NEW v \in Visits, NEW s \in Sessions, NEW r \in Rooms, BeginBan(v, s, r) PROVE Heard'
  BY <1>8 DEF BeginBan
<1>9. ASSUME NEW v \in Visits, Remove(v) PROVE Heard'
  BY <1>9 DEF Remove, Left
<1>10. ASSUME NEW v \in Visits, Grace(v) PROVE Heard'
  BY <1>10 DEF Grace
<1>11. ASSUME NEW v \in Visits, Recount(v) PROVE Heard'
  <2> SUFFICES ASSUME NEW w \in Visits, Listening(w)', w \notin undercut' PROVE Reaches(w)'
    OBVIOUS
  <2>1. w # v
    BY <1>11 DEF Recount, Left
  <2>2. visit'[w] = visit[w] /\ beat' = beat /\ live' = live /\ w \notin undercut
    BY <1>11, <2>1 DEF Recount
  <2>3. \A u \in Visits \ {v} : visit'[u] = visit[u]
    BY <1>11 DEF Recount
  <2>4. CASE Room(w) = Room(v)
    <3>1. present[Room(w)][Who(w)] > 0
      BY <2>2 DEF Kept
    <3>2. SomebodyArrived(Room(v))
      BY <2>2, <2>4, <3>1 DEF SomebodyArrived, Present
    <3>3. visit'[v] = [visit[v] EXCEPT !.at = "extend"]
      BY <1>11, <3>2 DEF Recount
    <3>4. Room(v)' = Room(w)' /\ At(v)' = "extend"
      BY <2>2, <2>4, <3>3
    <3> QED
      BY <2>2, <3>4
  <2>5. CASE Room(w) # Room(v)
    <3>1. ASSUME NEW u \in Visits, Room(u) = Room(w), At(u) \in {"recount", "extend"}
          PROVE  Room(u)' = Room(w)' /\ At(u)' \in {"recount", "extend"}
      BY <2>2, <2>3, <2>5, <3>1
    <3>2. Reaches(w)
      BY <2>2
    <3> QED
      BY <2>2, <3>1, <3>2
  <2> QED
    BY <2>4, <2>5
<1>12. ASSUME NEW v \in Visits, Extend(v) PROVE Heard'
  <2> SUFFICES ASSUME NEW w \in Visits, Listening(w)', w \notin undercut' PROVE Reaches(w)'
    OBVIOUS
  <2>1. w # v
    BY <1>12 DEF Extend, Left
  <2>2. visit'[w] = visit[w] /\ beat' = beat /\ w \notin undercut
    BY <1>12, <2>1 DEF Extend
  <2>3. \A u \in Visits \ {v} : visit'[u] = visit[u]
    BY <1>12 DEF Extend
  <2>4. CASE Room(w) = Room(v)
    BY <1>12, <2>2, <2>4 DEF Extend
  <2>5. CASE Room(w) # Room(v)
    <3>1. live'[Room(w)] = live[Room(w)]
      BY <1>12, <2>5 DEF Extend
    <3> QED
      BY <2>2, <2>3, <2>5, <3>1
  <2> QED
    BY <2>4, <2>5
<1>13. ASSUME NEW v \in Visits, CommitBan(v) PROVE Heard'
  BY <1>13 DEF CommitBan
<1>14. ASSUME NEW s \in Sessions, NEW r \in Rooms, Unban(s, r) PROVE Heard'
  BY <1>14 DEF Unban
<1>15. ASSUME NEW v \in Visits, HeartbeatDies(v) PROVE Heard'
  BY <1>15 DEF HeartbeatDies
<1>16. ASSUME NEW v \in Visits, Unkept(v) PROVE Heard'
  BY <1>16 DEF Unkept
<1>17. CASE ApiCrash
  BY <1>17 DEF ApiCrash
<1>18. CASE Tick
  <2> SUFFICES ASSUME NEW w \in Visits, Listening(w)', w \notin undercut' PROVE Reaches(w)'
    OBVIOUS
  <2>1. /\ visit' = visit /\ At(w) = "open" /\ beat[w] > 0 /\ beat'[w] = Less(beat[w])
        /\ live'[Room(w)] = Less(live[Room(w)])
    BY <1>18 DEF Tick, AgePresence, CallsRest
  <2>2. live[Room(w)] > beat[w]
    <3>1. CASE w \in undercut
      <4>1. Room(w) \notin torn /\ present[Room(w)][Who(w)] > 0
        BY <1>18, <3>1 DEF Tick, AgePresence
      <4>2. \A u \in Visits : ~Cut(u)
        BY <1>18 DEF Tick, CallsRest, Cut
      <4>3. present[Room(w)][Who(w)] <= live[Room(w)]
        BY <2>1, <4>1, <4>2 DEF LiveOutlastsPresence
      <4>4. present[Room(w)][Who(w)] > beat[w]
        BY <2>1, <4>1 DEF Kept
      <4> QED
        BY <2>1, <4>3, <4>4
    <3>2. CASE w \notin undercut
      <4>1. \A u \in Visits : At(u) \notin {"recount", "extend"}
        BY <1>18 DEF Tick, CallsRest
      <4> QED
        BY <2>1, <3>2, <4>1
    <3> QED
      BY <3>1, <3>2
  <2>3. live[Room(w)] \in Nat /\ beat[w] \in Nat
    BY <2>1
  <2> QED
    BY <2>1, <2>2, <2>3 DEF Less
<1>19. CASE FlushPresence
  <2>1. ASSUME NEW v \in Visits, Listening(v) PROVE v \in undercut'
    <3>1. v \in Sockets(Room(v), Who(v)) /\ Room(v) \in Rooms /\ Who(v) \in Sessions
      BY <2>1 DEF Sockets
    <3> QED
      BY <1>19, <3>1 DEF FlushPresence
  <2> QED
    BY <1>19, <2>1 DEF FlushPresence
<1>20. CASE UNCHANGED presenceVars
  BY <1>20 DEF presenceVars
<1> QED
  BY <1>1, <1>2, <1>3, <1>4, <1>5, <1>6, <1>7, <1>8, <1>9, <1>10,
     <1>11, <1>12, <1>13, <1>14, <1>15, <1>16, <1>17, <1>18, <1>19, <1>20
  DEF AnyNext, PresenceNext, VisitStep, CallStep
\* The inductive invariant: the four of them over the types.
IInv == Typed /\ Kept /\ Told /\ LiveOutlastsPresence /\ Heard

\* It holds from the start and at every step, FLUSHALL included.
LEMMA IInvHolds ==
  ASSUME PresenceAssumption
  PROVE  /\ PresenceInit => IInv
         /\ IInv /\ [AnyNext]_presenceVars => IInv'
<1>1. PresenceInit => IInv
  BY TypedInit DEF PresenceInit, IInv, Kept, Told, LiveOutlastsPresence, Heard, Listening,
                    Away, At, Room, Who
<1>2. IInv /\ [AnyNext]_presenceVars => IInv'
  BY TypedStep, KeptStep, ToldStep, LiveStep, HeardStep DEF IInv
<1> QED
  BY <1>1, <1>2

\* What Presence promises follows from it.
LEMMA IInvSuffices ==
  ASSUME PresenceAssumption, IInv
  PROVE  SocketIsPresent /\ BannedAreTold /\ LiveOutlastsPresence
<1>1. \A v \in Visits : Listening(v) => /\ visit[v].kind = "socket"
                                        /\ Room(v) \in Rooms /\ Who(v) \in Sessions
  BY DEF IInv, Typed, Placed, Listening
<1>2. SocketIsPresent
  <2>1. \A v \in Visits : beat[v] \in Nat
    BY DEF PresenceAssumption, IInv, Typed, PresenceTypeOK
  <2> QED
    BY <1>1, <2>1 DEF PresenceAssumption, IInv, Kept, SocketIsPresent, Listening, Typed, PresenceTypeOK
<1>3. BannedAreTold
  BY <1>1 DEF IInv, Told, BannedAreTold, Listening
<1> QED
  BY <1>2, <1>3 DEF IInv
=============================================================================
