------------------------------- MODULE Stream -------------------------------
(***************************************************************************)
(* Rooms on the air: the listeners of Presence and the workers of          *)
(* Supervisor, who meet in one sorted set of Redis and in the rooms' rows. *)
(***************************************************************************)
EXTENDS Supervisor

CONSTANTS Sessions, Visits, PRESENCE_TTL, LAST_LISTENER_GRACE, HEARTBEAT

VARIABLES present, banned, visit, beat, kicked, undercut, late, torn

P == INSTANCE Presence

\* A supervisor expects of a room's time whatever Presence may set.
ASSUME StreamAssumption == P!PresenceAssumption /\ 0 .. PRESENCE_TTL \subseteq LiveTimes

listeners == <<present, banned, visit, beat, kicked, undercut, late, torn>>
streamVars == <<supervisorVars, listeners>>
workers == <<locks, sweeps, entries, stalled, astray, mishaps>>

StreamInit == Init /\ P!PresenceInit

\* Mistake: the room's id is all that is needed.
FindsAny(r) == TRUE
\* current_room.
Finds(r) == row[r] # "absent"

\* A page view or a socket: it finds the room, and joins or touches.
Visit(v, kind, s, r) ==
  /\ Finds(r)
  /\ P!Check(v, kind, s, r)
  /\ Touched(r)
  /\ UNCHANGED <<row, workers>>

\* The API process dies or loses a heartbeat, or Redis is cleared.
ApiFails == (P!ApiCrash \/ \E v \in Visits : P!HeartbeatDies(v)) /\ Happens("api") /\ UNCHANGED <<row, touched, locks, sweeps, entries, stalled, astray>>
Flush == FlushLocks /\ P!FlushPresence

StreamTick ==
  /\ WorkersRest /\ P!CallsRest
  /\ AgeLocks /\ P!AgePresence

ListenerStep == \E v \in Visits : (P!CallStep(v) \/ P!Close(v)) /\ UNCHANGED <<row, touched, workers>>

StreamNext ==
  \/ \E w \in Workers : (WorkerStep(w) \/ Mishap(w)) /\ UNCHANGED listeners
  \/ RoomsAPI /\ UNCHANGED listeners
  \/ \E v \in Visits, kind \in {"page", "socket"}, s \in Sessions, r \in Rooms : Visit(v, kind, s, r)
  \/ ListenerStep
  \/ ApiFails \/ Flush
  \/ StreamTick

StreamSpec == StreamInit /\ [][StreamNext]_streamVars

-----------------------------------------------------------------------------
(***************************************************************************)
(* Properties.                                                             *)
(***************************************************************************)

\* "A stream follows its listeners: it runs while somebody is in the room"
\* (_rooms_needing_playback): a sweep lets go of a room that is on and plays
\* only when nobody has a socket open in it whose session is still marked
\* present, whatever was read of the live rooms before the rows.
SweepsSpareListeners ==
  [][\A w \in Workers, r \in Rooms :
       SelectRooms(w) /\ row[r] = "on" /\ r \in Active(w) \ Active(w)' =>
         \A v \in Visits : P!Listening(v) /\ P!Room(v) = r => v \in undercut]_streamVars

\* Presence's promise, with the rows and the API's failures around it.
SocketIsPresent == P!SocketIsPresent

\* What the supervisors see of the listeners is what Supervisor supposes: every
\* step of the two together is a step of Supervisor alone, or none.
SupervisorSpec == Spec
=============================================================================
