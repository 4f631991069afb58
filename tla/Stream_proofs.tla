----------------------------- MODULE Stream_proofs -----------------------------
(***************************************************************************)
(* Proofs about Stream: that the listeners and the workers together behave *)
(* as Supervisor supposes, and that no sweep leaves a listener.            *)
(***************************************************************************)
EXTENDS Stream, Supervisor_proofs, FiniteSetTheorems

PP == INSTANCE Presence_proofs

\* The two instances of Presence are one.
LEMMA SamePresence ==
  /\ P!PresenceAssumption <=> PP!PresenceAssumption
  /\ P!PresenceInit <=> PP!PresenceInit
  /\ P!PresenceNext <=> PP!PresenceNext
  /\ P!FlushPresence <=> PP!FlushPresence
  /\ UNCHANGED P!presenceVars <=> UNCHANGED PP!presenceVars
  /\ P!SocketIsPresent <=> PP!SocketIsPresent
  BY DEF P!PresenceAssumption, P!excuses, P!presenceVars, P!Away, P!Calls, P!PresenceTypeOK,
      P!PresenceInit, P!At, P!Room, P!Who, P!Becomes, P!Present, P!Sockets, P!Listening,
      P!Check, P!Subscribe, P!MarksPresent, P!Arrive, P!ReadyFails, P!Beat, P!NextBeat,
      P!MarkLive, P!Close, P!BeginBan, P!Left, P!Remove, P!Grace, P!SomebodyArrived,
      P!Recount, P!Extend, P!CommitBan, P!Unban, P!Cut, P!ApiCrash, P!HeartbeatDies,
      P!Unkept, P!Less, P!CallsRest, P!AgePresence, P!Tick, P!CallStep, P!VisitStep,
      P!PresenceNext, P!FlushPresence, P!LiveOutlastsPresence, P!SocketIsPresent,
      P!BannedAreTold,
      PP!PresenceAssumption, PP!excuses, PP!presenceVars, PP!Away, PP!Calls, PP!PresenceTypeOK,
      PP!PresenceInit, PP!At, PP!Room, PP!Who, PP!Becomes, PP!Present, PP!Sockets,
      PP!Listening, PP!Check, PP!Subscribe, PP!MarksPresent, PP!Arrive, PP!ReadyFails,
      PP!Beat, PP!NextBeat, PP!MarkLive, PP!Close, PP!BeginBan, PP!Left, PP!Remove,
      PP!Grace, PP!SomebodyArrived, PP!Recount, PP!Extend, PP!CommitBan, PP!Unban, PP!Cut,
      PP!ApiCrash, PP!HeartbeatDies, PP!Unkept, PP!Less, PP!CallsRest, PP!AgePresence,
      PP!Tick, PP!CallStep, PP!VisitStep, PP!PresenceNext, PP!FlushPresence,
      PP!LiveOutlastsPresence, PP!SocketIsPresent, PP!BannedAreTold

USE StreamAssumption

-----------------------------------------------------------------------------
(***************************************************************************)
(* Each step, as the listeners and as the workers see it.                  *)
(***************************************************************************)
\* Every step is one of Presence, with a flush, or leaves its state alone.
LEMMA StreamIsPresence == [StreamNext]_streamVars => [PP!AnyNext]_(PP!presenceVars)
<1> SUFFICES ASSUME [StreamNext]_streamVars PROVE [P!PresenceNext \/ P!FlushPresence]_(P!presenceVars)
  BY SamePresence DEF PP!AnyNext
<1> USE DEF listeners, P!presenceVars, P!excuses
<1>1. ASSUME NEW w \in Workers, WorkerStep(w) \/ Mishap(w), UNCHANGED listeners
      PROVE  UNCHANGED P!presenceVars
  BY <1>1 DEF WorkerStep, SweepStep, RoomStep, Mishap, rooms, BeginSweep, ReadLive, SelectRooms, EndSweep, Acquire,
     Exit, Restart, Resume, Vanishes, Cancelled, CheckHolder, DeleteLock, RenewGet, RenewExpire,
     Terminate, Crash, Stall, SweepFails, PlayerDies, ReleaseFails, RenewalFails
<1>2. CASE RoomsAPI /\ UNCHANGED listeners
  BY <1>2 DEF RoomsAPI, CreateRoom, DeleteRoom, Touch, SetStream
<1>3. ASSUME NEW v \in Visits, NEW kind \in {"page", "socket"}, NEW s \in Sessions, NEW r \in Rooms,
             Visit(v, kind, s, r)
      PROVE  P!PresenceNext
  BY <1>3 DEF Visit, P!PresenceNext
<1>4. CASE ListenerStep
  BY <1>4 DEF ListenerStep, P!PresenceNext, P!VisitStep
<1>5. CASE ApiFails
  BY <1>5 DEF ApiFails, P!PresenceNext
<1>6. CASE Flush
  BY <1>6 DEF Flush
<1>7. CASE StreamTick
  BY <1>7 DEF StreamTick, P!PresenceNext, P!Tick
<1>8. CASE UNCHANGED streamVars
  BY <1>8 DEF streamVars, supervisorVars
<1> QED
  BY <1>1, <1>2, <1>3, <1>4, <1>5, <1>6, <1>7, <1>8 DEF StreamNext

\* The calls of listeners that are under way leave the workers, the rows and the locks alone.
LEMMA StreamIsSupervisor == PP!IInv' /\ [StreamNext]_streamVars => [Next]_supervisorVars
<1> SUFFICES ASSUME PP!IInv', [StreamNext]_streamVars PROVE [Next]_supervisorVars
  OBVIOUS
<1> USE DEF workers, locks, sweeps, entries
<1>1. live' \in [Rooms -> LiveTimes]
  BY DEF PP!IInv, PP!Typed, PP!PresenceTypeOK
<1>2. CASE \E w \in Workers : (WorkerStep(w) \/ Mishap(w)) /\ UNCHANGED listeners
  BY <1>2 DEF Next
<1>3. CASE RoomsAPI /\ UNCHANGED listeners
  BY <1>3 DEF Next
<1>4. ASSUME NEW v \in Visits, NEW kind \in {"page", "socket"}, NEW s \in Sessions, NEW r \in Rooms,
             Visit(v, kind, s, r)
      PROVE  LiveChanges
  BY <1>1, <1>4 DEF Visit, Finds, LiveChanges
<1>5. CASE ListenerStep
  BY <1>1, <1>5 DEF ListenerStep, LiveChanges, Next
<1>6. CASE ApiFails
  BY <1>1, <1>6 DEF ApiFails, LiveChanges, Next
<1>7. CASE Flush
  BY <1>1, <1>7 DEF Flush, Next
<1>8. CASE StreamTick
  BY <1>1, <1>8 DEF StreamTick, Tick, Next
<1>9. CASE UNCHANGED streamVars
  BY <1>9 DEF streamVars
<1> QED
  BY <1>2, <1>3, <1>4, <1>5, <1>6, <1>7, <1>8, <1>9 DEF StreamNext, Next

\* Presence's invariant, with the rows and the workers around it.
LEMMA StreamKeepsPresence == StreamSpec => []PP!IInv
<1>1. StreamInit => PP!IInv
  BY SamePresence, PP!IInvHolds DEF StreamInit
<1>2. PP!IInv /\ [StreamNext]_streamVars => PP!IInv'
  BY SamePresence, StreamIsPresence, PP!IInvHolds
<1> QED
  BY <1>1, <1>2, PTL DEF StreamSpec

\* A socket that is open, and that no other call has taken out, is present.
THEOREM SocketIsPresentAlways == StreamSpec => []SocketIsPresent
<1>1. PP!IInv => SocketIsPresent
  BY SamePresence, PP!IInvSuffices DEF SocketIsPresent
<1> QED
  BY <1>1, StreamKeepsPresence, PTL

\* Whatever the listeners do, the workers see a behaviour of Supervisor.
THEOREM StreamRefinesSupervisor == StreamSpec => SupervisorSpec
<1>1. StreamInit => Init
  BY DEF StreamInit
<1>2. PP!IInv' /\ [StreamNext]_streamVars => [Next]_supervisorVars
  BY StreamIsSupervisor
<1> QED
  BY <1>1, <1>2, StreamKeepsPresence, PTL DEF StreamSpec, SupervisorSpec, Spec

\* So one source to a room is what there is with the listeners too.
THEOREM StreamHasOneSource == StreamSpec => []OneSource
  BY StreamRefinesSupervisor, OneSourceAlways DEF SupervisorSpec

-----------------------------------------------------------------------------
(***************************************************************************)
(* SweepsSpareListeners.                                                   *)
(***************************************************************************)
\* No worker is held up, a request keeps its room up for a moment, and the query
\* answers for every room there is.
Unhindered ==
  /\ "stall" \notin Mishaps
  /\ STARTUP_GRACE > 0
  /\ IsFiniteSet(Rooms) /\ Cardinality(Rooms) <= LIMIT

Enters(v) == visit[v].at \in {"checked", "subscribed", "entering"}
Listens(v) == visit[v].at \in {"open", "beating"} /\ v \notin undercut
Starting(r) == row[r] # "on" \/ touched[r] > 0

\* A room somebody is entering has been touched, and no time has passed since.
Entered == \A v \in Visits : Enters(v) => Starting(visit[v].room)

\* So a sweep that has read the live rooms knows of a room with a listener, or
\* will find its row touched.
Seen ==
  \A w \in Workers, v \in Visits :
    sweep[w] = "selecting" /\ Listens(v) => visit[v].room \in wanted[w] \/ Starting(visit[v].room)

\* What the listeners' steps leave to these two.
LEMMA CallsMoveOne ==
  ASSUME PP!IInv, NEW v \in Visits, P!CallStep(v) \/ P!Close(v)
  PROVE  \A u \in Visits :
           /\ Enters(u)' => Enters(u) /\ visit'[u].room = visit[u].room
           /\ Listens(u)' => (Listens(u) \/ Enters(u)) /\ visit'[u].room = visit[u].room
<1> USE DEF Enters, Listens, P!At, P!Room, P!Who, P!Becomes, P!Away, P!excuses, PP!Calls
<1>1. visit \in [Visits -> PP!Calls]
  BY DEF PP!IInv, PP!Typed, PP!PresenceTypeOK
<1>2. CASE P!Subscribe(v) \/ P!Arrive(v) \/ P!Beat(v)
  BY <1>1, <1>2 DEF P!Subscribe, P!Arrive, P!Beat, P!MarksPresent
<1>3. CASE P!ReadyFails(v) \/ P!Close(v) \/ P!Unkept(v) \/ P!Grace(v)
  BY <1>1, <1>3 DEF P!ReadyFails, P!Close, P!Unkept, P!Grace
<1>4. CASE P!MarkLive(v)
  BY <1>1, <1>4 DEF P!MarkLive
<1>5. CASE P!Remove(v)
  BY <1>1, <1>5 DEF P!Remove, P!Left
<1>6. CASE P!Recount(v) \/ P!Extend(v) \/ P!CommitBan(v)
  BY <1>1, <1>6 DEF P!Recount, P!Extend, P!CommitBan, P!Left
<1> QED
  BY <1>2, <1>3, <1>4, <1>5, <1>6 DEF P!CallStep

\* Nobody is held up where nothing holds up.
LEMMA NeverHeldUp == Unhindered /\ stalled = {} /\ [Next]_supervisorVars => stalled' = {}
<1> SUFFICES ASSUME Unhindered, stalled = {}, [Next]_supervisorVars PROVE stalled' = {}
  OBVIOUS
<1>1. ASSUME NEW w \in Workers, WorkerStep(w) PROVE stalled' = {}
  BY <1>1 DEF WorkerStep, SweepStep, RoomStep, BeginSweep, ReadLive, SelectRooms, EndSweep, Acquire,
     Exit, Restart, Resume, Vanishes, Cancelled, CheckHolder, DeleteLock, RenewGet, RenewExpire
<1>2. ASSUME NEW w \in Workers, Mishap(w) PROVE stalled' = {}
  BY <1>2 DEF Unhindered, Mishap, Happens, Vanishes, Terminate, Crash, Stall, SweepFails, PlayerDies, ReleaseFails,
     RenewalFails
<1>3. CASE RoomsAPI \/ LiveChanges \/ Tick \/ FlushLocks
  BY <1>3 DEF RoomsAPI, CreateRoom, DeleteRoom, Touch, SetStream, LiveChanges, Tick, AgeLocks, FlushLocks
<1> QED
  BY <1>1, <1>2, <1>3 DEF Next, supervisorVars

\* Both hold from the start and at every step of the two together.
Spared == PP!IInv /\ SupervisorTypeOK /\ stalled = {} /\ Entered /\ Seen

\* The invariant survives every step of listeners and workers.
LEMMA SparedStep == Unhindered /\ Spared /\ [StreamNext]_streamVars => Spared'
<1> SUFFICES ASSUME Unhindered, Spared, [StreamNext]_streamVars PROVE Spared'
  OBVIOUS
<1>1. PP!IInv'
  BY SamePresence, StreamIsPresence, PP!IInvHolds DEF Spared
<1>2. SupervisorTypeOK' /\ stalled' = {}
  BY <1>1, StreamIsSupervisor, TypeStep, NeverHeldUp DEF Spared
<1>3. /\ visit \in [Visits -> PP!Calls]
      /\ \A v \in Visits : Enters(v) \/ Listens(v) => visit[v].room \in Rooms
  BY DEF Spared, PP!IInv, PP!Typed, PP!PresenceTypeOK, PP!Placed, PP!At, PP!Room, Enters, Listens
<1>4. SupervisorTypeOK /\ stalled = {} /\ Entered /\ Seen
  BY DEF Spared
<1>5. Entered' /\ Seen'
  <2> USE <1>3, <1>4 DEF SupervisorTypeOK, Entered, Seen, Starting, Unhindered
  <2>1. ASSUME NEW w \in Workers, ReadLive(w), UNCHANGED listeners PROVE Entered' /\ Seen'
    <3>1. \A v \in Visits : Listens(v) => live[visit[v].room] > 0
      BY DEF Spared, PP!IInv, PP!Heard, PP!Reaches, PP!Listening, PP!At, PP!Room, Listens
    <3> QED
      BY <2>1, <3>1 DEF ReadLive, rooms, listeners, Enters, Listens
  <2>2. ASSUME NEW w \in Workers, WorkerStep(w) \/ Mishap(w), ~ReadLive(w), UNCHANGED listeners
        PROVE  Entered' /\ Seen'
    <3>1. /\ row' = row /\ touched' = touched
          /\ \A x \in Workers : sweep'[x] = "selecting" => sweep[x] = "selecting" /\ wanted'[x] = wanted[x]
      <4> USE DEF rooms, sweeps
      <4>1. CASE SweepStep(w)
        BY <2>2, <4>1 DEF SweepStep, BeginSweep, SelectRooms, EndSweep, Acquire
      <4>2. CASE Exit(w) \/ Restart(w) \/ Resume(w)
        BY <4>2 DEF Exit, Restart, Resume, Vanishes
      <4>3. ASSUME NEW r \in Rooms, RoomStep(w, r) PROVE <3>1!:
        BY <4>3 DEF RoomStep, Cancelled, CheckHolder, DeleteLock, RenewGet, RenewExpire
      <4>4. CASE Terminate(w) \/ Crash(w) \/ Stall(w) \/ SweepFails(w)
        BY <4>4 DEF Terminate, Crash, Stall, SweepFails, Vanishes
      <4>5. ASSUME NEW r \in Rooms, PlayerDies(w, r) \/ ReleaseFails(w, r) \/ RenewalFails(w, r) PROVE <3>1!:
        BY <4>5 DEF PlayerDies, ReleaseFails, RenewalFails
      <4> QED
        BY <2>2, <4>1, <4>2, <4>3, <4>4, <4>5 DEF WorkerStep, Mishap
    <3> QED
      BY <2>2, <3>1 DEF listeners, Enters, Listens
  <2>3. CASE RoomsAPI /\ UNCHANGED listeners
    <3>1. \A r \in Rooms : Starting(r) => Starting(r)'
      <4>1. PICK r \in Rooms : CreateRoom(r) \/ DeleteRoom(r) \/ Touch(r)
                               \/ \E to \in {"stopped", "on"} : SetStream(r, to)
        BY <2>3 DEF RoomsAPI
      <4>2. /\ \A q \in Rooms \ {r} : row'[q] = row[q] /\ touched'[q] = touched[q]
            /\ row'[r] = "absent" \/ touched'[r] > 0
        BY <4>1 DEF CreateRoom, DeleteRoom, Touch, SetStream, Touched
      <4> QED
        BY <4>2
    <3>2. UNCHANGED <<sweep, wanted, visit, undercut>>
      BY <2>3 DEF RoomsAPI, CreateRoom, DeleteRoom, Touch, SetStream, sweeps, listeners
    <3> QED
      BY <3>1, <3>2 DEF Enters, Listens
  <2>4. ASSUME NEW v \in Visits, NEW kind \in {"page", "socket"}, NEW s \in Sessions, NEW r \in Rooms,
               Visit(v, kind, s, r)
        PROVE  Entered' /\ Seen'
    <3>1. visit' = [visit EXCEPT ![v] = [at |-> "checked", kind |-> kind, who |-> s, room |-> r]]
      BY <2>4 DEF Visit, P!Check
    <3>2. UNCHANGED <<row, sweep, wanted, undercut>> /\ touched' = [touched EXCEPT ![r] = STARTUP_GRACE]
      BY <2>4 DEF Visit, P!Check, Touched, P!excuses, workers, sweeps
    <3> QED
      BY <3>1, <3>2 DEF Enters, Listens
  <2>5. CASE ListenerStep
    <3>1. PICK v \in Visits : (P!CallStep(v) \/ P!Close(v)) /\ UNCHANGED <<row, touched, workers>>
      BY <2>5 DEF ListenerStep
    <3>2. \A u \in Visits :
            /\ Enters(u)' => Enters(u) /\ visit'[u].room = visit[u].room
            /\ Listens(u)' => (Listens(u) \/ Enters(u)) /\ visit'[u].room = visit[u].room
      BY <3>1, CallsMoveOne DEF Spared
    <3> QED
      BY <3>1, <3>2 DEF workers, sweeps
  <2>6. CASE ApiFails
    <3>1. CASE P!ApiCrash
      BY <2>6, <3>1 DEF ApiFails, P!ApiCrash, P!Away, Enters, Listens
    <3>2. ASSUME NEW v \in Visits, P!HeartbeatDies(v) PROVE Entered' /\ Seen'
      <4>1. visit' = [visit EXCEPT ![v] = [@ EXCEPT !.at = "unkept"]] /\ undercut' = undercut \ {v}
        BY <3>2 DEF P!HeartbeatDies, P!Becomes
      <4>2. visit'[v].at = "unkept" /\ \A u \in Visits \ {v} : visit'[u] = visit[u]
        BY <4>1 DEF PP!Calls
      <4> QED
        BY <2>6, <4>1, <4>2 DEF ApiFails, sweeps, Enters, Listens
    <3> QED
      BY <2>6, <3>1, <3>2 DEF ApiFails
  <2>7. CASE Flush
    BY <2>7 DEF Flush, FlushLocks, P!FlushPresence, sweeps, Enters, Listens
  <2>8. CASE StreamTick
    <3>1. \A u \in Visits : ~Enters(u)'
      BY <2>8 DEF StreamTick, P!CallsRest, P!AgePresence, P!At, Enters
    <3>2. ASSUME NEW w \in Workers, NEW r \in Rooms PROVE sweep'[w] # "selecting"
      BY <2>8, <3>2 DEF StreamTick, WorkersRest, Runs, AgeLocks, sweeps
    <3>3. \A u \in Visits : Listens(u)' => visit'[u].room \in Rooms
      BY <1>1 DEF PP!IInv, PP!Typed, PP!Placed, PP!At, PP!Room, Listens
    <3> QED
      BY <3>1, <3>2, <3>3
  <2>9. CASE UNCHANGED streamVars
    BY <2>9 DEF streamVars, supervisorVars, listeners, Enters, Listens
  <2> HIDE <1>3, <1>4 DEF SupervisorTypeOK, Entered, Seen, Starting, Unhindered
  <2> QED
    BY <2>1, <2>2, <2>3, <2>4, <2>5, <2>6, <2>7, <2>8, <2>9 DEF StreamNext
<1> QED
  BY <1>1, <1>2, <1>5 DEF Spared

\* Where the query answers for every room, it answers with every room it matches.
LEMMA AnswersAreAll ==
  ASSUME Unhindered, NEW w \in Workers, NEW rs \in Answers(w)
  PROVE  rs = Matches(w)
<1>1. IsFiniteSet(Matches(w)) /\ Cardinality(Matches(w)) <= Cardinality(Rooms)
  BY FS_Subset DEF Unhindered, Matches
<1>2. Cardinality(Matches(w)) \in Nat /\ Cardinality(Rooms) \in Nat /\ LIMIT \in Nat
  BY <1>1, FS_CardinalityType, SupervisorAssumption DEF Unhindered
<1>3. rs \in SUBSET Matches(w) /\ Cardinality(rs) = Cardinality(Matches(w))
  BY <1>1, <1>2 DEF Unhindered, Answers
<1> QED
  BY <1>1, <1>3, FS_Subset

\* A sweep lets go of a room that is on only when no socket is open in it whose
\* session is still marked present: unless a worker is held up between reading
\* the live rooms and their rows, or there are more rooms than the query answers for.
THEOREM SweepsSpareListenersAlways == Unhindered => (StreamSpec => SweepsSpareListeners)
<1> SUFFICES ASSUME Unhindered PROVE StreamSpec => SweepsSpareListeners
  OBVIOUS
<1> DEFINE Spares ==
      \A w \in Workers, r \in Rooms :
        SelectRooms(w) /\ row[r] = "on" /\ r \in Active(w) \ Active(w)' =>
          \A v \in Visits : P!Listening(v) /\ P!Room(v) = r => v \in undercut
<1>1. ASSUME Spared PROVE Spares
  <2> SUFFICES ASSUME NEW w \in Workers, NEW r \in Rooms, SelectRooms(w), row[r] = "on",
                      r \in Active(w) \ Active(w)',
                      NEW v \in Visits, P!Listening(v), P!Room(v) = r, v \notin undercut
               PROVE  FALSE
    OBVIOUS
  <2>1. Listens(v) /\ visit[v].room = r
    BY DEF Listens, P!Listening, P!At, P!Room
  <2>2. r \in wanted[w] \/ touched[r] > 0
    BY <1>1, <2>1 DEF Spared, Seen, SelectRooms, Starting
  <2>3. r \in Matches(w)
    BY <2>2 DEF Matches
  <2>4. entry'[w][r] = entry[w][r]
    <3>1. PICK rs \in Answers(w) : Pops(w, Active(w) \ rs)
      BY DEF SelectRooms
    <3>2. r \in rs
      BY <1>1, <2>3, AnswersAreAll
    <3> QED
      BY <1>1, <3>1, <3>2 DEF Pops, Spared, SupervisorTypeOK
  <2> QED
    BY <2>4 DEF Active
<1>2. StreamInit => Spared
  BY SamePresence, PP!IInvHolds, TypeInit
  DEF StreamInit, Spared, Init, Entered, Seen, Enters, Listens, P!PresenceInit, P!Away
<1>3. Spared /\ [StreamNext]_streamVars => Spared'
  BY SparedStep
<1> HIDE DEF Spares
<1>4. StreamSpec => [][Spares]_streamVars
  BY <1>1, <1>2, <1>3, PTL DEF StreamSpec
<1> QED
  BY <1>4 DEF Spares, SweepsSpareListeners
=============================================================================
