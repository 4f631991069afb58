----------------------------- MODULE Supervisor -----------------------------
(***************************************************************************)
(* The supervisors of app/worker/supervisor.py: several worker processes,  *)
(* one lock in Redis per room, and at most one of them connected to the     *)
(* room's mount.                                                           *)
(*                                                                         *)
(* A sweep is taken apart at its awaits: release what has died, read the   *)
(* live rooms, read their rows, release what is not wanted, then acquire   *)
(* one room after another.  Renewers and releases run beside it.  Leases   *)
(* are counted down by Tick, one tick being the longest a renewer that is   *)
(* not held up leaves between two renewals.                                *)
(*                                                                         *)
(* Who is live is Presence's subject and `live` its variable; here it is   *)
(* only read.  Stream composes the two.                                    *)
(***************************************************************************)
EXTENDS Naturals, FiniteSets

CONSTANTS
  Workers, Rooms, None,
  Gone,          \* the worker_id of a process that is no more
  LOCK_TTL,      \* worker_lock_ttl_s
  STARTUP_GRACE,
  LiveTimes,     \* what may be left of a room's time in the live rooms
  LIMIT,         \* of _rooms_needing_playback's query
  Mishaps,       \* of "crash", "stall", "flush", "error", "died"
  MaxMishaps     \* bound: how often any of that happens

ASSUME SupervisorAssumption ==
  /\ None \notin Workers /\ Gone \notin Workers /\ None # Gone
  /\ LOCK_TTL \in Nat \ {0, 1} /\ STARTUP_GRACE \in Nat /\ LIMIT \in Nat
  /\ MaxMishaps \in Nat /\ 0 \in LiveTimes

VARIABLES
  \* Redis
  holder, lease,   \* worker_lock_key: whose it is, and the time left
  live,            \* LIVE_ROOMS_KEY
  \* PostgreSQL
  row,             \* "absent", "stopped" (stream_stopped) or "on"
  touched,         \* the time left until last_active_at is out of STARTUP_GRACE
  \* each worker
  sweep,           \* where its sweep is
  wanted,          \* what the sweep has read
  entry,           \* self.active, and a release of it that is going on
  source,          \* the rooms whose player runs, with its encoder on the mount
  renewer,
  stalled,         \* its event loop is held up
  \* bookkeeping
  astray,          \* whose lock is no longer theirs although they play
  mishaps

supervisorVars == <<holder, lease, live, row, touched, sweep, wanted, entry, source,
                    renewer, stalled, astray, mishaps>>
locks == <<holder, lease>>
rooms == <<live, row, touched>>
sweeps == <<sweep, wanted>>
entries == <<entry, source, renewer>>

SupervisorTypeOK ==
  /\ holder \in [Rooms -> Workers \cup {None, Gone}]
  /\ lease \in [Rooms -> 0 .. LOCK_TTL]
  /\ live \in [Rooms -> LiveTimes]
  /\ row \in [Rooms -> {"absent", "stopped", "on"}]
  /\ touched \in [Rooms -> 0 .. STARTUP_GRACE]
  /\ sweep \in [Workers -> {"down", "waiting", "reading", "selecting", "acquiring", "shutdown"}]
  /\ wanted \in [Workers -> SUBSET Rooms]
  /\ entry \in [Workers -> [Rooms -> {"none", "active", "closing", "checking", "deleting"}]]
  /\ source \in [Workers -> SUBSET Rooms]
  /\ renewer \in [Workers -> [Rooms -> {"none", "asleep", "due", "renewing", "done"}]]
  /\ stalled \subseteq Workers
  /\ astray \subseteq Workers \X Rooms
  /\ mishaps \in 0 .. MaxMishaps

Init ==
  /\ holder = [r \in Rooms |-> None] /\ lease = [r \in Rooms |-> 0]
  /\ live = [r \in Rooms |-> 0]
  /\ row = [r \in Rooms |-> "absent"] /\ touched = [r \in Rooms |-> 0]
  /\ sweep = [w \in Workers |-> "waiting"] /\ wanted = [w \in Workers |-> {}]
  /\ entry = [w \in Workers |-> [r \in Rooms |-> "none"]]
  /\ source = [w \in Workers |-> {}]
  /\ renewer = [w \in Workers |-> [r \in Rooms |-> "none"]]
  /\ stalled = {} /\ astray = {} /\ mishaps = 0

Runs(w) == sweep[w] # "down" /\ w \notin stalled
Active(w) == {r \in Rooms : entry[w][r] = "active"}
Releasing(w) == {r \in Rooms : entry[w][r] \in {"closing", "checking", "deleting"}}
Happens(m) == m \in Mishaps /\ mishaps < MaxMishaps /\ mishaps' = mishaps + 1

\* Some of the rooms stop being held by those who play them.
Strays(rs) == astray' = astray \cup {p \in Workers \X Rooms :
                                       p[2] \in rs /\ holder[p[2]] = p[1] /\ p[2] \in source[p[1]]}

-----------------------------------------------------------------------------
(***************************************************************************)
(* The sweep.                                                              *)
(***************************************************************************)
\* Mistake: a renewer that has returned is not taken for a lost room.
PlayerExited(w) == {r \in Active(w) : r \notin source[w]}
\* entry.task.done() or entry.renewer.done().
Crashed(w) == {r \in Active(w) : r \notin source[w] \/ renewer[w][r] = "done"}

\* _release takes the room out of self.active before its first await.
Pops(w, rs) == entry' = [entry EXCEPT ![w] = [r \in Rooms |-> IF r \in rs THEN "closing" ELSE @[r]]]

BeginSweep(w) ==
  /\ Runs(w) /\ sweep[w] = "waiting"
  /\ Pops(w, Crashed(w))
  /\ sweep' = [sweep EXCEPT ![w] = "reading"]
  /\ UNCHANGED <<locks, rooms, wanted, source, renewer, stalled, astray, mishaps>>

\* events.live_room_ids, once the releases are done.
ReadLive(w) ==
  /\ Runs(w) /\ sweep[w] = "reading" /\ Releasing(w) = {}
  /\ wanted' = [wanted EXCEPT ![w] = {r \in Rooms : live[r] > 0}]
  /\ sweep' = [sweep EXCEPT ![w] = "selecting"]
  /\ UNCHANGED <<locks, rooms, entries, stalled, astray, mishaps>>

\* Mistake: a listener keeps a stopped stream running.
IgnoresTheHost(w) == {r \in Rooms : row[r] # "absent" /\ (r \in wanted[w] \/ touched[r] > 0)}
\* The query: any LIMIT of the rooms it matches.
Matches(w) == {r \in Rooms : row[r] = "on" /\ (r \in wanted[w] \/ touched[r] > 0)}
Answers(w) == {rs \in SUBSET Matches(w) :
                 Cardinality(rs) = IF Cardinality(Matches(w)) > LIMIT THEN LIMIT ELSE Cardinality(Matches(w))}

SelectRooms(w) ==
  /\ Runs(w) /\ sweep[w] = "selecting"
  /\ \E rs \in Answers(w) :
       /\ wanted' = [wanted EXCEPT ![w] = rs]
       /\ Pops(w, Active(w) \ rs)
  /\ sweep' = [sweep EXCEPT ![w] = "acquiring"]
  /\ UNCHANGED <<locks, rooms, source, renewer, stalled, astray, mishaps>>

\* Mistake: SET without NX.
Overwrites(r) == TRUE
IsFree(r) == holder[r] = None

\* SET NX EX, once the releases are done; and _start, which has no await.
Acquire(w, r) ==
  /\ Runs(w) /\ sweep[w] = "acquiring" /\ Releasing(w) = {}
  /\ r \in wanted[w] \ Active(w)
  /\ wanted' = [wanted EXCEPT ![w] = @ \ {r}]
  /\ IF IsFree(r)
     THEN /\ holder' = [holder EXCEPT ![r] = w]
          /\ lease' = [lease EXCEPT ![r] = LOCK_TTL]
          /\ entry' = [entry EXCEPT ![w][r] = "active"]
          /\ source' = [source EXCEPT ![w] = @ \cup {r}]
          /\ renewer' = [renewer EXCEPT ![w][r] = "asleep"]
     ELSE UNCHANGED <<locks, entries>>
  /\ UNCHANGED <<rooms, sweep, stalled, astray, mishaps>>

\* A sweep ends; the next is a wake-up or five seconds away.
EndSweep(w) ==
  /\ Runs(w) /\ sweep[w] = "acquiring" /\ Releasing(w) = {} /\ wanted[w] \subseteq Active(w)
  /\ sweep' = [sweep EXCEPT ![w] = "waiting"]
  /\ wanted' = [wanted EXCEPT ![w] = {}]
  /\ UNCHANGED <<locks, rooms, entries, stalled, astray, mishaps>>

-----------------------------------------------------------------------------
(***************************************************************************)
(* _release and _renew.                                                    *)
(***************************************************************************)
\* The player is cancelled and awaited, then the renewer.
Cancelled(w, r) ==
  /\ Runs(w) /\ entry[w][r] = "closing"
  /\ source' = [source EXCEPT ![w] = @ \ {r}]
  /\ renewer' = [renewer EXCEPT ![w][r] = "none"]
  /\ entry' = [entry EXCEPT ![w][r] = "checking"]
  /\ astray' = astray \ {<<w, r>>}
  /\ UNCHANGED <<locks, rooms, sweeps, stalled, mishaps>>

\* "Only drop the lock if it is still ours": the GET.
Ours(w, r) == holder[r] = w

CheckHolder(w, r) ==
  /\ Runs(w) /\ entry[w][r] = "checking"
  /\ entry' = [entry EXCEPT ![w][r] = IF Ours(w, r) THEN "deleting" ELSE "none"]
  /\ UNCHANGED <<locks, rooms, sweeps, source, renewer, stalled, astray, mishaps>>

\* The DELETE, of whatever is there by now.
DeleteLock(w, r) ==
  /\ Runs(w) /\ entry[w][r] = "deleting"
  /\ entry' = [entry EXCEPT ![w][r] = "none"]
  /\ holder' = [holder EXCEPT ![r] = None]
  /\ lease' = [lease EXCEPT ![r] = 0]
  /\ Strays({r})
  /\ UNCHANGED <<rooms, sweeps, source, renewer, stalled, mishaps>>

RenewGet(w, r) ==
  /\ Runs(w) /\ renewer[w][r] = "due"
  /\ renewer' = [renewer EXCEPT ![w][r] = IF Ours(w, r) THEN "renewing" ELSE "done"]
  /\ UNCHANGED <<locks, rooms, sweeps, entry, source, stalled, astray, mishaps>>

\* Mistake: what is left of the lease counts as well.
AddsUp(r) == lease[r] + LOCK_TTL
Renewed(r) == IF holder[r] = None THEN 0 ELSE LOCK_TTL

\* EXPIRE, of whatever is there by now.
RenewExpire(w, r) ==
  /\ Runs(w) /\ renewer[w][r] = "renewing"
  /\ renewer' = [renewer EXCEPT ![w][r] = "asleep"]
  /\ lease' = [lease EXCEPT ![r] = Renewed(r)]
  /\ UNCHANGED <<holder, rooms, sweeps, entry, source, stalled, astray, mishaps>>

-----------------------------------------------------------------------------
(***************************************************************************)
(* A worker stops, dies, is held up; Redis fails or is cleared.            *)
(***************************************************************************)
\* SIGTERM: the sweep is cancelled, and with it the releases it waits for that
\* are at a command of Redis; then every room that is left is released.
Terminate(w) ==
  /\ Runs(w) /\ sweep[w] \notin {"shutdown"}
  /\ Happens("crash")
  /\ sweep' = [sweep EXCEPT ![w] = "shutdown"]
  /\ wanted' = [wanted EXCEPT ![w] = {}]
  /\ entry' = [entry EXCEPT ![w] = [r \in Rooms |->
                 CASE @[r] \in {"active", "closing"} -> "closing" [] OTHER -> "none"]]
  /\ UNCHANGED <<locks, rooms, source, renewer, stalled, astray>>

\* What a process that ends leaves behind: locks of a worker_id that is never used again.
Vanishes(w) ==
  /\ sweep' = [sweep EXCEPT ![w] = "down"]
  /\ wanted' = [wanted EXCEPT ![w] = {}]
  /\ entry' = [entry EXCEPT ![w] = [r \in Rooms |-> "none"]]
  /\ source' = [source EXCEPT ![w] = {}]
  /\ renewer' = [renewer EXCEPT ![w] = [r \in Rooms |-> "none"]]
  /\ holder' = [r \in Rooms |-> IF holder[r] = w THEN Gone ELSE holder[r]]
  /\ stalled' = stalled \ {w}
  /\ astray' = {p \in astray : p[1] # w}
  /\ UNCHANGED <<lease, rooms>>

Exit(w) == sweep[w] = "shutdown" /\ Runs(w) /\ Releasing(w) = {} /\ Vanishes(w) /\ UNCHANGED mishaps

Crash(w) == sweep[w] # "down" /\ Happens("crash") /\ Vanishes(w)

\* restart: unless-stopped.
Restart(w) ==
  /\ sweep[w] = "down"
  /\ sweep' = [sweep EXCEPT ![w] = "waiting"]
  /\ UNCHANGED <<locks, rooms, wanted, entries, stalled, astray, mishaps>>

Stall(w) ==
  /\ Runs(w) /\ Happens("stall")
  /\ stalled' = stalled \cup {w}
  /\ UNCHANGED <<locks, rooms, sweeps, entries, astray>>

Resume(w) ==
  /\ w \in stalled
  /\ stalled' = stalled \ {w}
  /\ UNCHANGED <<locks, rooms, sweeps, entries, astray, mishaps>>

\* The player's coroutine ends with an error of its own.
PlayerDies(w, r) ==
  /\ Runs(w) /\ r \in source[w] /\ Happens("died")
  /\ source' = [source EXCEPT ![w] = @ \ {r}]
  /\ astray' = astray \ {<<w, r>>}
  /\ UNCHANGED <<locks, rooms, sweeps, entry, renewer, stalled>>

\* Redis or PostgreSQL fails under a sweep: the rest of it is left out.
SweepFails(w) ==
  /\ Runs(w) /\ sweep[w] \in {"reading", "selecting", "acquiring"}
  /\ Happens("error")
  /\ sweep' = [sweep EXCEPT ![w] = "waiting"]
  /\ wanted' = [wanted EXCEPT ![w] = {}]
  /\ UNCHANGED <<locks, rooms, entries, stalled, astray>>

\* Redis fails under a release or a renewal.
ReleaseFails(w, r) ==
  /\ Runs(w) /\ entry[w][r] \in {"checking", "deleting"} /\ Happens("error")
  /\ entry' = [entry EXCEPT ![w][r] = "none"]
  /\ sweep' = [sweep EXCEPT ![w] = IF @ = "shutdown" THEN @ ELSE "waiting"]
  /\ wanted' = [wanted EXCEPT ![w] = {}]
  /\ UNCHANGED <<locks, rooms, source, renewer, stalled, astray>>

RenewalFails(w, r) ==
  /\ Runs(w) /\ renewer[w][r] \in {"due", "renewing"} /\ Happens("error")
  /\ renewer' = [renewer EXCEPT ![w][r] = "done"]
  /\ UNCHANGED <<locks, rooms, sweeps, entry, source, stalled, astray>>

FlushLocks ==
  /\ Happens("flush")
  /\ holder' = [r \in Rooms |-> None]
  /\ lease' = [r \in Rooms |-> 0]
  /\ Strays(Rooms)
  /\ UNCHANGED <<row, touched, sweeps, entries, stalled>>

-----------------------------------------------------------------------------
(***************************************************************************)
(* The rooms API, and time.                                                *)
(***************************************************************************)
\* Every request that finds the room touches it.
Touched(r) == touched' = [touched EXCEPT ![r] = STARTUP_GRACE]

\* Any other request, with or without a page of somebody present behind it.
Touch(r) ==
  /\ row[r] # "absent"
  /\ Touched(r)
  /\ UNCHANGED <<locks, live, row, sweeps, entries, stalled, astray, mishaps>>

\* create: off the air until the host says otherwise.
CreateRoom(r) ==
  /\ row[r] = "absent"
  /\ row' = [row EXCEPT ![r] = "stopped"]
  /\ Touched(r)
  /\ UNCHANGED <<locks, live, sweeps, entries, stalled, astray, mishaps>>

\* update: "Start stream" and "Stop stream".
SetStream(r, to) ==
  /\ row[r] \in {"stopped", "on"} \ {to}
  /\ to \in {"stopped", "on"}
  /\ row' = [row EXCEPT ![r] = to]
  /\ Touched(r)
  /\ UNCHANGED <<locks, live, sweeps, entries, stalled, astray, mishaps>>

\* destroy, and prune_idle_rooms of a room nobody has touched for days.
DeleteRoom(r) ==
  /\ row[r] # "absent"
  /\ row' = [row EXCEPT ![r] = "absent"]
  /\ touched' = [touched EXCEPT ![r] = 0]
  /\ UNCHANGED <<locks, live, sweeps, entries, stalled, astray, mishaps>>

Less(n) == IF n = 0 THEN 0 ELSE n - 1

\* A worker that is not held up renews in time, and does not take a tick over
\* the GET and the DELETE of a release or the two reads of a sweep.
WorkersRest == \A w \in Workers, r \in Rooms : Runs(w) =>
  /\ sweep[w] # "selecting"
  /\ renewer[w][r] \notin {"due", "renewing"}
  /\ entry[w][r] \notin {"checking", "deleting"}

\* Mistake: SET without EX.
NeverExpires == {}
Expired == {r \in Rooms : lease[r] = 1}

AgeLocks ==
  /\ lease' = [r \in Rooms |-> Less(lease[r])]
  /\ holder' = [r \in Rooms |-> IF r \in Expired THEN None ELSE holder[r]]
  /\ Strays(Expired)
  /\ touched' = [r \in Rooms |-> Less(touched[r])]
  /\ renewer' = [w \in Workers |-> [r \in Rooms |->
                   IF renewer[w][r] = "asleep" THEN "due" ELSE renewer[w][r]]]
  /\ UNCHANGED <<row, sweeps, entry, source, stalled, mishaps>>

-----------------------------------------------------------------------------
SweepStep(w) ==
  \/ BeginSweep(w) \/ ReadLive(w) \/ SelectRooms(w) \/ EndSweep(w)
  \/ \E r \in Rooms : Acquire(w, r)

RoomStep(w, r) == Cancelled(w, r) \/ CheckHolder(w, r) \/ DeleteLock(w, r)
                    \/ RenewGet(w, r) \/ RenewExpire(w, r)

WorkerStep(w) ==
  \/ SweepStep(w) \/ Exit(w) \/ Restart(w) \/ Resume(w)
  \/ \E r \in Rooms : RoomStep(w, r)

Mishap(w) ==
  \/ Terminate(w) \/ Crash(w) \/ Stall(w) \/ SweepFails(w)
  \/ \E r \in Rooms : PlayerDies(w, r) \/ ReleaseFails(w, r) \/ RenewalFails(w, r)

\* All that leaves the sorted sets of Presence alone.
RoomsAPI == \E r \in Rooms :
  \/ CreateRoom(r) \/ DeleteRoom(r) \/ Touch(r)
  \/ \E to \in {"stopped", "on"} : SetStream(r, to)

\* Presence, as a supervisor sees it: the live rooms change, when the API dies
\* and at any other time, with the request that touches the room or without.
LiveChanges ==
  /\ live' \in [Rooms -> LiveTimes]
  /\ touched' = touched \/ \E r \in Rooms : row[r] # "absent" /\ Touched(r)
  /\ mishaps' = mishaps \/ Happens("api")
  /\ UNCHANGED <<locks, row, sweeps, entries, stalled, astray>>

Tick == AgeLocks /\ WorkersRest /\ live' \in [Rooms -> LiveTimes]

Next ==
  \/ \E w \in Workers : WorkerStep(w) \/ Mishap(w)
  \/ RoomsAPI
  \/ LiveChanges
  \/ Tick
  \/ FlushLocks /\ live' \in [Rooms -> LiveTimes]

Spec == Init /\ [][Next]_supervisorVars

\* Every coroutine of a worker that runs gets on, a process that ends is started
\* again, one that is held up goes on, and time passes: the workers are not for
\* ever, in turns, inside the steps that take no time to speak of.
Fairness ==
  /\ \A w \in Workers :
       /\ WF_supervisorVars(SweepStep(w))
       /\ WF_supervisorVars(Exit(w) \/ Restart(w) \/ Resume(w))
       /\ \A r \in Rooms :
            /\ WF_supervisorVars(Cancelled(w, r) \/ CheckHolder(w, r) \/ DeleteLock(w, r))
            /\ WF_supervisorVars(RenewGet(w, r) \/ RenewExpire(w, r))
  /\ []<>WorkersRest
  /\ SF_supervisorVars(Tick)

FairSpec == Spec /\ Fairness

-----------------------------------------------------------------------------
(***************************************************************************)
(* Properties.                                                             *)
(***************************************************************************)

\* "The one thing the lock exists to prevent" (_sweep): two workers encoding
\* one mount.  At any time at most one of a room's sources has not lost its
\* lock, and it holds it: a second source there can only be while the first is
\* one whose lock ran out, or was flushed or deleted, under it; and that takes
\* a failure: sweeps, renewals and releases among themselves never come to it.
OneSource ==
  /\ \A r \in Rooms, w \in Workers : r \in source[w] => holder[r] = w \/ <<w, r>> \in astray
  /\ mishaps = 0 => astray = {}

\* A worker that has lost a room's lock finds out, from its renewer or when it
\* is running again, and stops playing ("lost the lock", _sweep and _renew).
AstrayEnds == \A w \in Workers, r \in Rooms : <<w, r>> \in astray ~> <<w, r>> \notin astray

\* "It runs while somebody is in the room" (_rooms_needing_playback): a room
\* that is on and has listeners from some time on has exactly one source from
\* some time on, whatever crashed, failed, was flushed or held up before: locks
\* left behind expire, and two sources become one.
RoomIsServed ==
  \A r \in Rooms : <>[](row[r] = "on" /\ live[r] > 0) =>
                     <>[](\E w \in Workers : {v \in Workers : r \in source[v]} = {w})

\* "Stop stream" and deleting a room take it off the air, listeners or not.
RoomIsDropped ==
  \A r \in Rooms : row[r] # "on" ~> row[r] = "on" \/ \A w \in Workers : r \notin source[w]
=============================================================================
