------------------------------ MODULE Presence ------------------------------
(***************************************************************************)
(* Who is in a room, and which rooms are live: the two sorted sets of      *)
(* app/events.py, written by page views, by the sockets of                 *)
(* app/api/routers/ws.py and by a ban.                                     *)
(*                                                                         *)
(* A score is a time of expiry.  Here it is the time left until then, which *)
(* Tick counts down, so that runs need no horizon.  A visit is one call:    *)
(* a page view, a socket's life, or the mark_absent of a ban.  A call goes  *)
(* through Redis one command at a time, and other visits get in between;    *)
(* no tick passes inside a call: one takes far less than a tick's seconds.  *)
(***************************************************************************)
EXTENDS Naturals, FiniteSets

CONSTANTS
  Rooms, Sessions, None,
  Visits,     \* bound: calls and sockets at one time
  PRESENCE_TTL, LAST_LISTENER_GRACE, HEARTBEAT  \* in ticks

VARIABLES
  present,    \* presence_key: the time left of each session in each room
  live,       \* LIVE_ROOMS_KEY: the time left of each room
  banned,     \* the bans table
  visit,      \* what each call is doing, for whom and where
  beat,       \* time left until the socket's next heartbeat
  kicked,     \* sockets with a LISTENER_LEFT for them in their subscription
  \* bookkeeping
  undercut,   \* sockets whose session another call, or a flush, has taken out,
              \* until it is marked present again by a call that ends
  late,       \* sockets that had not subscribed yet when a ban of theirs was told
  torn        \* rooms with a call that ended between two commands

\* What app/events.py sets: a heartbeat comes before its mark has run out, and the
\* last listener's moment is no longer than a mark.
PresenceAssumption ==
  /\ PRESENCE_TTL \in Nat
  /\ HEARTBEAT \in Nat /\ HEARTBEAT < PRESENCE_TTL
  /\ LAST_LISTENER_GRACE \in 1 .. PRESENCE_TTL

excuses == <<undercut, late, torn>>
presenceVars == <<present, live, banned, visit, beat, kicked, excuses>>

Away == [at |-> "away", kind |-> "page", who |-> None, room |-> None]

Calls == [at : {"away", "checked", "subscribed", "entering", "open", "beating", "unkept",
                "leaving", "grace", "recount", "extend", "telling"},
          kind : {"page", "socket", "ban"}, who : Sessions \cup {None}, room : Rooms \cup {None}]

PresenceTypeOK ==
  /\ present \in [Rooms -> [Sessions -> 0 .. PRESENCE_TTL]]
  /\ live \in [Rooms -> 0 .. PRESENCE_TTL]
  /\ banned \subseteq Rooms \X Sessions
  /\ visit \in [Visits -> Calls]
  /\ beat \in [Visits -> 0 .. HEARTBEAT]
  /\ kicked \subseteq Visits
  /\ undercut \subseteq Visits
  /\ late \subseteq Visits
  /\ torn \subseteq Rooms

PresenceInit ==
  /\ present = [r \in Rooms |-> [s \in Sessions |-> 0]]
  /\ live = [r \in Rooms |-> 0]
  /\ banned = {}
  /\ visit = [v \in Visits |-> Away]
  /\ beat = [v \in Visits |-> 0]
  /\ kicked = {}
  /\ undercut = {} /\ late = {} /\ torn = {}

At(v) == visit[v].at
Room(v) == visit[v].room
Who(v) == visit[v].who
Becomes(v, at) == visit' = [visit EXCEPT ![v] = IF at = "away" THEN Away ELSE [@ EXCEPT !.at = at]]

\* count_present: a member whose time is up is trimmed before it is counted.
Present(r) == {s \in Sessions : present[r][s] > 0}

\* Mistake: a socket counts only once it has marked its session present.
MarkedSockets(r, s) == {v \in Visits : At(v) \in {"open", "beating"}
                                  /\ visit[v].kind = "socket" /\ Room(v) = r /\ Who(v) = s}
\* The sockets of this session that have subscribed and will refresh it.
Sockets(r, s) == {v \in Visits : At(v) \in {"subscribed", "entering", "open", "beating"}
                                  /\ visit[v].kind = "socket" /\ Room(v) = r /\ Who(v) = s}

\* A socket whose heartbeat runs: its page is open and somebody is listening.
Listening(v) == At(v) \in {"open", "beating"}

-----------------------------------------------------------------------------
(***************************************************************************)
(* mark_present: the session, then the room.                               *)
(***************************************************************************)
\* is_banned and the join, which waits while a ban holds the room's row.
Check(v, kind, s, r) ==
  /\ At(v) = "away"
  /\ <<r, s>> \notin banned
  /\ kind = "socket" => \A w \in Visits : visit[w].kind = "ban" => Room(w) # r
  /\ visit' = [visit EXCEPT ![v] = [at |-> "checked", kind |-> kind, who |-> s, room |-> r]]
  /\ UNCHANGED <<present, live, banned, beat, kicked, excuses>>

Subscribe(v) ==
  /\ At(v) = "checked" /\ visit[v].kind = "socket"
  /\ Becomes(v, "subscribed")
  /\ UNCHANGED <<present, live, banned, beat, kicked, excuses>>

MarksPresent(v, then) ==
  /\ present' = [present EXCEPT ![Room(v)][Who(v)] = PRESENCE_TTL]
  /\ Becomes(v, then)
  /\ UNCHANGED <<live, banned, beat, kicked, excuses>>

\* A page view and a socket that has subscribed.
Arrive(v) ==
  /\ At(v) = IF visit[v].kind = "socket" THEN "subscribed" ELSE "checked"
  /\ MarksPresent(v, "entering")

\* The browser has gone before READY can be sent: the error comes ahead of the
\* handler's try, and nobody marks the session absent.
ReadyFails(v) ==
  /\ At(v) = "entering" /\ visit[v].kind = "socket"
  /\ live' = [live EXCEPT ![Room(v)] = PRESENCE_TTL]
  /\ Becomes(v, "away")
  /\ kicked' = kicked \ {v} /\ undercut' = undercut \ {v} /\ late' = late \ {v}
  /\ torn' = torn \ {Room(v)}
  /\ UNCHANGED <<present, banned, beat>>

\* _presence_heartbeat.
Beat(v) ==
  /\ At(v) = "open" /\ beat[v] = 0
  /\ MarksPresent(v, "beating")

\* Mistake: the heartbeat waits for as long as its mark lasts.
BeatsLate == PRESENCE_TTL
\* asyncio.sleep(HEARTBEAT_S).
NextBeat == HEARTBEAT

\* The second zadd of mark_present.  A page view ends with it.
MarkLive(v) ==
  /\ At(v) \in {"entering", "beating"}
  /\ live' = [live EXCEPT ![Room(v)] = PRESENCE_TTL]
  /\ IF visit[v].kind = "socket"
     THEN Becomes(v, "open") /\ beat' = [beat EXCEPT ![v] = NextBeat]
     ELSE Becomes(v, "away") /\ UNCHANGED beat
  /\ torn' = torn \ {Room(v)}
  /\ UNCHANGED <<present, banned, kicked, undercut, late>>

-----------------------------------------------------------------------------
(***************************************************************************)
(* mark_absent, by a socket that closes or by a ban.                       *)
(***************************************************************************)
\* The browser closes the socket, or _relay does after reading of the ban.
Close(v) ==
  /\ At(v) = "open"
  /\ Becomes(v, "leaving")
  /\ beat' = [beat EXCEPT ![v] = 0]
  /\ kicked' = kicked \ {v}
  /\ undercut' = undercut \ {v} /\ late' = late \ {v}
  /\ UNCHANGED <<present, live, banned, torn>>

\* ban holds the room's row from its first query to its commit.
BeginBan(v, s, r) ==
  /\ At(v) = "away"
  /\ <<r, s>> \notin banned
  /\ \A w \in Visits : visit[w].kind = "ban" => Room(w) # r
  /\ visit' = [visit EXCEPT ![v] = [at |-> "leaving", kind |-> "ban", who |-> s, room |-> r]]
  /\ UNCHANGED <<present, live, banned, beat, kicked, excuses>>

Left(v) == IF visit[v].kind = "ban" THEN "telling" ELSE "away"

\* zrem and zcard.  The session's other sockets are not asked.
Remove(v) ==
  /\ At(v) = "leaving"
  /\ present' = [present EXCEPT ![Room(v)][Who(v)] = 0]
  /\ Becomes(v, IF Present(Room(v)) \subseteq {Who(v)} THEN "grace" ELSE Left(v))
  /\ undercut' = undercut \cup Sockets(Room(v), Who(v))
  /\ UNCHANGED <<live, banned, beat, kicked, late, torn>>

\* zadd: the room lives on for a moment.
Grace(v) ==
  /\ At(v) = "grace"
  /\ live' = [live EXCEPT ![Room(v)] = LAST_LISTENER_GRACE]
  /\ Becomes(v, "recount")
  /\ UNCHANGED <<present, banned, beat, kicked, excuses>>

\* Mistake: who came in between is not asked for.
ForgetsLateArrivals(r) == FALSE
\* zcard again.
SomebodyArrived(r) == Present(r) # {}

Recount(v) ==
  /\ At(v) = "recount"
  /\ Becomes(v, IF SomebodyArrived(Room(v)) THEN "extend" ELSE Left(v))
  /\ UNCHANGED <<present, live, banned, beat, kicked, excuses>>

\* zadd GT.
Extend(v) ==
  /\ At(v) = "extend"
  /\ live' = [live EXCEPT ![Room(v)] = PRESENCE_TTL]
  /\ Becomes(v, Left(v))
  /\ torn' = torn \ {Room(v)}
  /\ UNCHANGED <<present, banned, beat, kicked, undercut, late>>

\* ban's publish and, with the response, its commit.
CommitBan(v) ==
  /\ At(v) = "telling"
  /\ kicked' = kicked \cup Sockets(Room(v), Who(v))
  /\ late' = late \cup {w \in Visits : At(w) = "checked" /\ visit[w].kind = "socket"
                                           /\ Room(w) = Room(v) /\ Who(w) = Who(v)}
  /\ banned' = banned \cup {<<Room(v), Who(v)>>}
  /\ Becomes(v, "away")
  /\ UNCHANGED <<present, live, beat, undercut, torn>>

Unban(s, r) ==
  /\ <<r, s>> \in banned
  /\ banned' = banned \ {<<r, s>>}
  /\ UNCHANGED <<present, live, visit, beat, kicked, excuses>>

-----------------------------------------------------------------------------
(***************************************************************************)
(* Faults and time.                                                        *)
(***************************************************************************)
\* Between two commands of mark_present or mark_absent.
Cut(v) == At(v) \in {"entering", "beating", "grace", "recount", "extend"}

\* The API process dies: no socket of it marks anybody absent.
ApiCrash ==
  /\ \E v \in Visits : At(v) # "away"
  /\ visit' = [v \in Visits |-> Away]
  /\ beat' = [v \in Visits |-> 0]
  /\ kicked' = {} /\ undercut' = {} /\ late' = {}
  /\ torn' = torn \cup {Room(v) : v \in {w \in Visits : Cut(w)}}
  /\ UNCHANGED <<present, live, banned>>

\* Redis fails under a heartbeat: its task is over, nothing restarts it, and
\* its error keeps the handler from marking anybody absent when it closes.
HeartbeatDies(v) ==
  /\ At(v) = "beating" \/ (At(v) = "open" /\ beat[v] = 0)
  /\ Becomes(v, "unkept")
  /\ beat' = [beat EXCEPT ![v] = 0]
  /\ kicked' = kicked \ {v} /\ undercut' = undercut \ {v} /\ late' = late \ {v}
  /\ torn' = torn \cup {Room(w) : w \in {v} \cap {u \in Visits : Cut(u)}}
  /\ UNCHANGED <<present, live, banned>>

Unkept(v) == At(v) = "unkept" /\ Becomes(v, "away") /\ UNCHANGED <<present, live, banned, beat, kicked, excuses>>

Less(n) == IF n = 0 THEN 0 ELSE n - 1

\* No call is under way, and every heartbeat that is due has run.
CallsRest == \A v \in Visits : At(v) \in {"away", "unkept"} \/ (At(v) = "open" /\ beat[v] > 0)

AgePresence ==
  /\ present' = [r \in Rooms |-> [s \in Sessions |-> Less(present[r][s])]]
  /\ live' = [r \in Rooms |-> Less(live[r])]
  /\ beat' = [v \in Visits |-> Less(beat[v])]
  /\ undercut' = {v \in undercut : present[Room(v)][Who(v)] = 0 \/ Room(v) \in torn}
  /\ UNCHANGED <<banned, visit, kicked, late, torn>>

Tick ==
  /\ CallsRest
  /\ AgePresence

CallStep(v) ==
  \/ Subscribe(v) \/ Arrive(v) \/ ReadyFails(v) \/ Beat(v) \/ MarkLive(v)
  \/ Unkept(v) \/ Remove(v) \/ Grace(v) \/ Recount(v) \/ Extend(v) \/ CommitBan(v)

VisitStep(v) ==
  \/ \E s \in Sessions, r \in Rooms : BeginBan(v, s, r)
  \/ CallStep(v)
  \/ Close(v)

PresenceNext ==
  \/ \E v \in Visits, kind \in {"page", "socket"}, s \in Sessions, r \in Rooms : Check(v, kind, s, r)
  \/ \E v \in Visits : VisitStep(v)
  \/ \E s \in Sessions, r \in Rooms : Unban(s, r)
  \/ ApiCrash \/ \E v \in Visits : HeartbeatDies(v)
  \/ Tick

\* FLUSHALL: "which is what lets Redis be cleared at any time" (events.py).
FlushPresence ==
  /\ present' = [r \in Rooms |-> [s \in Sessions |-> 0]]
  /\ live' = [r \in Rooms |-> 0]
  /\ undercut' = undercut \cup UNION {Sockets(r, s) : r \in Rooms, s \in Sessions}
  /\ UNCHANGED <<banned, visit, beat, kicked, late, torn>>

PresenceSpec == PresenceInit /\ [][PresenceNext]_presenceVars

-----------------------------------------------------------------------------
(***************************************************************************)
(* Properties.                                                             *)
(***************************************************************************)

\* The worker looks at the live rooms only, so nobody may be present in a room
\* longer than the room is live: whatever mark_present and mark_absent of
\* several sessions do in between, once no call is between two commands the
\* room's entry outlasts everybody's, unless a call was cut off half-way.
LiveOutlastsPresence ==
  \A r \in Rooms \ torn :
    (\A v \in Visits : Room(v) = r => ~Cut(v)) =>
       \A s \in Sessions : present[r][s] <= live[r]

\* A socket's heartbeat keeps its session present for as long as it is open
\* (_presence_heartbeat), unless another call has marked the session absent.
SocketIsPresent ==
  \A v \in Visits : Listening(v) => v \in undercut \/ present[Room(v)][Who(v)] > 0

\* "Being told is what makes a kick stick" (_removes): every socket of a banned
\* session has the event in its subscription, unless it subscribed after it.
BannedAreTold ==
  \A v \in Visits : <<Room(v), Who(v)>> \in banned /\ Listening(v) => v \in kicked \cup late
=============================================================================
