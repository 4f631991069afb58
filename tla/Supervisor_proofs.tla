-------------------------- MODULE Supervisor_proofs --------------------------
(***************************************************************************)
(* Proofs about Supervisor, for any workers, any rooms and any lease of    *)
(* two renewals or more.                                                   *)
(***************************************************************************)
EXTENDS Supervisor, TLAPS

\* Counting down stays in range.
LEMMA LessInRange ==
  ASSUME NEW m \in Nat, NEW n \in 0 .. m
  PROVE  Less(n) \in 0 .. m
  BY DEF Less

\* Nothing runs or is live as a system starts.
LEMMA TypeInit == Init => SupervisorTypeOK
  BY SupervisorAssumption DEF Init, SupervisorTypeOK

\* Every action assigns every variable a value of its type.
LEMMA TypeStep == SupervisorTypeOK /\ [Next]_supervisorVars => SupervisorTypeOK'
<1> SUFFICES ASSUME SupervisorTypeOK, [Next]_supervisorVars PROVE SupervisorTypeOK'
  OBVIOUS
<1> USE SupervisorAssumption DEF SupervisorTypeOK, locks, rooms, sweeps, entries
<1>1. ASSUME NEW w \in Workers, BeginSweep(w) PROVE SupervisorTypeOK'
  BY <1>1 DEF BeginSweep, Pops
<1>2. ASSUME NEW w \in Workers, ReadLive(w) PROVE SupervisorTypeOK'
  BY <1>2 DEF ReadLive
<1>3. ASSUME NEW w \in Workers, SelectRooms(w) PROVE SupervisorTypeOK'
  BY <1>3 DEF SelectRooms, Pops, Answers, Matches
<1>4. ASSUME NEW w \in Workers, EndSweep(w) PROVE SupervisorTypeOK'
  BY <1>4 DEF EndSweep
<1>5. ASSUME NEW w \in Workers, NEW r \in Rooms, Acquire(w, r) PROVE SupervisorTypeOK'
  <2>1. wanted' \in [Workers -> SUBSET Rooms]
    BY <1>5 DEF Acquire
  <2>2. CASE IsFree(r)
    <3>1. holder' = [holder EXCEPT ![r] = w] /\ lease' = [lease EXCEPT ![r] = LOCK_TTL]
      BY <1>5, <2>2 DEF Acquire
    <3>2. entry' = [entry EXCEPT ![w][r] = "active"] /\ renewer' = [renewer EXCEPT ![w][r] = "asleep"]
      BY <1>5, <2>2 DEF Acquire
    <3>3. source' = [source EXCEPT ![w] = @ \cup {r}]
      BY <1>5, <2>2 DEF Acquire
    <3> QED
      BY <1>5, <2>1, <3>1, <3>2, <3>3 DEF Acquire
  <2>3. CASE ~IsFree(r)
    BY <1>5, <2>1, <2>3 DEF Acquire
  <2> QED
    BY <2>2, <2>3
<1>6. ASSUME NEW w \in Workers, Exit(w) PROVE SupervisorTypeOK'
  BY <1>6 DEF Exit, Vanishes
<1>7. ASSUME NEW w \in Workers, Restart(w) PROVE SupervisorTypeOK'
  BY <1>7 DEF Restart
<1>8. ASSUME NEW w \in Workers, Resume(w) PROVE SupervisorTypeOK'
  BY <1>8 DEF Resume
<1>9. ASSUME NEW w \in Workers, NEW r \in Rooms, Cancelled(w, r) PROVE SupervisorTypeOK'
  BY <1>9 DEF Cancelled
<1>10. ASSUME NEW w \in Workers, NEW r \in Rooms, CheckHolder(w, r) PROVE SupervisorTypeOK'
  BY <1>10 DEF CheckHolder
<1>11. ASSUME NEW w \in Workers, NEW r \in Rooms, DeleteLock(w, r) PROVE SupervisorTypeOK'
  BY <1>11 DEF DeleteLock, Strays
<1>12. ASSUME NEW w \in Workers, NEW r \in Rooms, RenewGet(w, r) PROVE SupervisorTypeOK'
  BY <1>12 DEF RenewGet
<1>13. ASSUME NEW w \in Workers, NEW r \in Rooms, RenewExpire(w, r) PROVE SupervisorTypeOK'
  BY <1>13 DEF RenewExpire, Renewed
<1>14. ASSUME NEW w \in Workers, Terminate(w) PROVE SupervisorTypeOK'
  BY <1>14 DEF Terminate, Happens
<1>15. ASSUME NEW w \in Workers, Crash(w) PROVE SupervisorTypeOK'
  BY <1>15 DEF Crash, Vanishes, Happens
<1>16. ASSUME NEW w \in Workers, Stall(w) PROVE SupervisorTypeOK'
  BY <1>16 DEF Stall, Happens
<1>17. ASSUME NEW w \in Workers, SweepFails(w) PROVE SupervisorTypeOK'
  BY <1>17 DEF SweepFails, Happens
<1>18. ASSUME NEW w \in Workers, NEW r \in Rooms, PlayerDies(w, r) PROVE SupervisorTypeOK'
  BY <1>18 DEF PlayerDies, Happens
<1>19. ASSUME NEW w \in Workers, NEW r \in Rooms, ReleaseFails(w, r) PROVE SupervisorTypeOK'
  BY <1>19 DEF ReleaseFails, Happens
<1>20. ASSUME NEW w \in Workers, NEW r \in Rooms, RenewalFails(w, r) PROVE SupervisorTypeOK'
  BY <1>20 DEF RenewalFails, Happens
<1>21. ASSUME NEW r \in Rooms, CreateRoom(r) PROVE SupervisorTypeOK'
  BY <1>21 DEF CreateRoom, Touched
<1>22. ASSUME NEW r \in Rooms, DeleteRoom(r) PROVE SupervisorTypeOK'
  BY <1>22 DEF DeleteRoom
<1>23. ASSUME NEW r \in Rooms, Touch(r) PROVE SupervisorTypeOK'
  BY <1>23 DEF Touch, Touched
<1>24. ASSUME NEW r \in Rooms, NEW to \in {"stopped", "on"}, SetStream(r, to) PROVE SupervisorTypeOK'
  BY <1>24 DEF SetStream, Touched
<1>25. CASE LiveChanges
  BY <1>25 DEF LiveChanges, Touched, Happens
<1>26. CASE Tick
  <2>1. \A r \in Rooms : Less(lease[r]) \in 0 .. LOCK_TTL /\ Less(touched[r]) \in 0 .. STARTUP_GRACE
    BY LessInRange
  <2>2. holder' \in [Rooms -> Workers \cup {None, Gone}]
    BY <1>26 DEF Tick, AgeLocks
  <2>3. renewer' \in [Workers -> [Rooms -> {"none", "asleep", "due", "renewing", "done"}]]
    BY <1>26 DEF Tick, AgeLocks
  <2>4. astray' \subseteq Workers \X Rooms
    BY <1>26 DEF Tick, AgeLocks, Strays
  <2> QED
    BY <1>26, <2>1, <2>2, <2>3, <2>4 DEF Tick, AgeLocks
<1>27. CASE FlushLocks /\ live' \in [Rooms -> LiveTimes]
  BY <1>27 DEF FlushLocks, Strays, Happens
<1>28. CASE UNCHANGED supervisorVars
  BY <1>28 DEF supervisorVars
<1> HIDE SupervisorAssumption DEF SupervisorTypeOK, locks, rooms, sweeps, entries
<1> QED
  BY <1>1, <1>2, <1>3, <1>4, <1>5, <1>6, <1>7, <1>8, <1>9, <1>10,
     <1>11, <1>12, <1>13, <1>14, <1>15, <1>16, <1>17, <1>18, <1>19, <1>20,
     <1>21, <1>22, <1>23, <1>24, <1>25, <1>26, <1>27, <1>28
  DEF Next, WorkerStep, SweepStep, RoomStep, Mishap, RoomsAPI

\* Every variable keeps its type.
THEOREM TypeCorrect == Spec => []SupervisorTypeOK
  BY TypeInit, TypeStep, PTL DEF Spec

-----------------------------------------------------------------------------
(***************************************************************************)
(* One source for each room.                                               *)
(***************************************************************************)

\* A source holds its room's lock, or has lost it.
Sources == \A r \in Rooms, w \in Workers : r \in source[w] => holder[r] = w \/ <<w, r>> \in astray

\* As long as nothing has gone wrong: who plays holds the lock and renews it, a
\* lease that a renewer sleeps on is whole, and a release deletes its own lock.
Calm ==
  mishaps = 0 =>
    /\ stalled = {} /\ astray = {}
    /\ \A w \in Workers : sweep[w] \notin {"down", "shutdown"}
    /\ \A w \in Workers, r \in Rooms :
         /\ r \in source[w] => /\ holder[r] = w
                               /\ entry[w][r] \in {"active", "closing"}
                               /\ renewer[w][r] \in {"asleep", "due", "renewing"}
                               /\ renewer[w][r] = "asleep" => lease[r] = LOCK_TTL
         /\ entry[w][r] = "deleting" => holder[r] = w

\* A lock is taken only when it is free, and let go of only with a note of it.
LEMMA SourcesStep == SupervisorTypeOK /\ Sources /\ [Next]_supervisorVars => Sources'
<1> SUFFICES ASSUME SupervisorTypeOK, Sources, [Next]_supervisorVars PROVE Sources'
  OBVIOUS
<1> USE SupervisorAssumption DEF SupervisorTypeOK, Sources, locks, rooms, sweeps, entries
<1>1. ASSUME NEW w \in Workers, BeginSweep(w) PROVE Sources'
  BY <1>1 DEF BeginSweep, Pops
<1>2. ASSUME NEW w \in Workers, ReadLive(w) PROVE Sources'
  BY <1>2 DEF ReadLive
<1>3. ASSUME NEW w \in Workers, SelectRooms(w) PROVE Sources'
  BY <1>3 DEF SelectRooms, Pops, Answers, Matches
<1>4. ASSUME NEW w \in Workers, EndSweep(w) PROVE Sources'
  BY <1>4 DEF EndSweep
<1>5. ASSUME NEW w \in Workers, NEW r \in Rooms, Acquire(w, r) PROVE Sources'
  <2>1. CASE IsFree(r)
    <3>1. holder' = [holder EXCEPT ![r] = w] /\ lease' = [lease EXCEPT ![r] = LOCK_TTL]
      BY <1>5, <2>1 DEF Acquire
    <3>2. entry' = [entry EXCEPT ![w][r] = "active"] /\ renewer' = [renewer EXCEPT ![w][r] = "asleep"]
      BY <1>5, <2>1 DEF Acquire
    <3>3. source' = [source EXCEPT ![w] = @ \cup {r}]
      BY <1>5, <2>1 DEF Acquire
    <3> QED
      BY <1>5, <2>1, <3>1, <3>2, <3>3 DEF Acquire, IsFree
  <2>2. CASE ~IsFree(r)
    BY <1>5, <2>2 DEF Acquire
  <2> QED
    BY <2>1, <2>2
<1>6. ASSUME NEW w \in Workers, Exit(w) PROVE Sources'
  BY <1>6 DEF Exit, Vanishes
<1>7. ASSUME NEW w \in Workers, Restart(w) PROVE Sources'
  BY <1>7 DEF Restart
<1>8. ASSUME NEW w \in Workers, Resume(w) PROVE Sources'
  BY <1>8 DEF Resume
<1>9. ASSUME NEW w \in Workers, NEW r \in Rooms, Cancelled(w, r) PROVE Sources'
  BY <1>9 DEF Cancelled
<1>10. ASSUME NEW w \in Workers, NEW r \in Rooms, CheckHolder(w, r) PROVE Sources'
  BY <1>10 DEF CheckHolder
<1>11. ASSUME NEW w \in Workers, NEW r \in Rooms, DeleteLock(w, r) PROVE Sources'
  BY <1>11 DEF DeleteLock, Strays
<1>12. ASSUME NEW w \in Workers, NEW r \in Rooms, RenewGet(w, r) PROVE Sources'
  BY <1>12 DEF RenewGet
<1>13. ASSUME NEW w \in Workers, NEW r \in Rooms, RenewExpire(w, r) PROVE Sources'
  BY <1>13 DEF RenewExpire, Renewed
<1>14. ASSUME NEW w \in Workers, Terminate(w) PROVE Sources'
  BY <1>14 DEF Terminate, Happens
<1>15. ASSUME NEW w \in Workers, Crash(w) PROVE Sources'
  BY <1>15 DEF Crash, Vanishes, Happens
<1>16. ASSUME NEW w \in Workers, Stall(w) PROVE Sources'
  BY <1>16 DEF Stall, Happens
<1>17. ASSUME NEW w \in Workers, SweepFails(w) PROVE Sources'
  BY <1>17 DEF SweepFails, Happens
<1>18. ASSUME NEW w \in Workers, NEW r \in Rooms, PlayerDies(w, r) PROVE Sources'
  BY <1>18 DEF PlayerDies, Happens
<1>19. ASSUME NEW w \in Workers, NEW r \in Rooms, ReleaseFails(w, r) PROVE Sources'
  BY <1>19 DEF ReleaseFails, Happens
<1>20. ASSUME NEW w \in Workers, NEW r \in Rooms, RenewalFails(w, r) PROVE Sources'
  BY <1>20 DEF RenewalFails, Happens
<1>21. ASSUME NEW r \in Rooms, CreateRoom(r) PROVE Sources'
  BY <1>21 DEF CreateRoom, Touched
<1>22. ASSUME NEW r \in Rooms, DeleteRoom(r) PROVE Sources'
  BY <1>22 DEF DeleteRoom
<1>23. ASSUME NEW r \in Rooms, Touch(r) PROVE Sources'
  BY <1>23 DEF Touch, Touched
<1>24. ASSUME NEW r \in Rooms, NEW to \in {"stopped", "on"}, SetStream(r, to) PROVE Sources'
  BY <1>24 DEF SetStream, Touched
<1>25. CASE LiveChanges
  BY <1>25 DEF LiveChanges, Touched, Happens
<1>26. CASE Tick
  BY <1>26 DEF Tick, AgeLocks, Strays, Expired, Less
<1>27. CASE FlushLocks /\ live' \in [Rooms -> LiveTimes]
  BY <1>27 DEF FlushLocks, Strays, Happens
<1>28. CASE UNCHANGED supervisorVars
  BY <1>28 DEF supervisorVars
<1> HIDE SupervisorAssumption DEF SupervisorTypeOK, Sources, locks, rooms, sweeps, entries
<1> QED
  BY <1>1, <1>2, <1>3, <1>4, <1>5, <1>6, <1>7, <1>8, <1>9, <1>10,
     <1>11, <1>12, <1>13, <1>14, <1>15, <1>16, <1>17, <1>18, <1>19, <1>20,
     <1>21, <1>22, <1>23, <1>24, <1>25, <1>26, <1>27, <1>28
  DEF Next, WorkerStep, SweepStep, RoomStep, Mishap, RoomsAPI

\* Time does not take a lock from a worker that rests between its renewals.
LEMMA CalmStep == SupervisorTypeOK /\ Calm /\ [Next]_supervisorVars => Calm'
<1> SUFFICES ASSUME SupervisorTypeOK, Calm, [Next]_supervisorVars PROVE Calm'
  OBVIOUS
<1> USE SupervisorAssumption DEF SupervisorTypeOK, Calm, locks, rooms, sweeps, entries
<1>1. ASSUME NEW w \in Workers, BeginSweep(w) PROVE Calm'
  BY <1>1 DEF BeginSweep, Pops
<1>2. ASSUME NEW w \in Workers, ReadLive(w) PROVE Calm'
  BY <1>2 DEF ReadLive
<1>3. ASSUME NEW w \in Workers, SelectRooms(w) PROVE Calm'
  BY <1>3 DEF SelectRooms, Pops, Answers, Matches
<1>4. ASSUME NEW w \in Workers, EndSweep(w) PROVE Calm'
  BY <1>4 DEF EndSweep
<1>5. ASSUME NEW w \in Workers, NEW r \in Rooms, Acquire(w, r) PROVE Calm'
  <2>1. CASE IsFree(r)
    <3>1. holder' = [holder EXCEPT ![r] = w] /\ lease' = [lease EXCEPT ![r] = LOCK_TTL]
      BY <1>5, <2>1 DEF Acquire
    <3>2. entry' = [entry EXCEPT ![w][r] = "active"] /\ renewer' = [renewer EXCEPT ![w][r] = "asleep"]
      BY <1>5, <2>1 DEF Acquire
    <3>3. source' = [source EXCEPT ![w] = @ \cup {r}]
      BY <1>5, <2>1 DEF Acquire
    <3> QED
      BY <1>5, <2>1, <3>1, <3>2, <3>3 DEF Acquire, IsFree
  <2>2. CASE ~IsFree(r)
    BY <1>5, <2>2 DEF Acquire
  <2> QED
    BY <2>1, <2>2
<1>6. ASSUME NEW w \in Workers, Exit(w) PROVE Calm'
  BY <1>6 DEF Exit, Vanishes
<1>7. ASSUME NEW w \in Workers, Restart(w) PROVE Calm'
  BY <1>7 DEF Restart
<1>8. ASSUME NEW w \in Workers, Resume(w) PROVE Calm'
  BY <1>8 DEF Resume
<1>9. ASSUME NEW w \in Workers, NEW r \in Rooms, Cancelled(w, r) PROVE Calm'
  BY <1>9 DEF Cancelled
<1>10. ASSUME NEW w \in Workers, NEW r \in Rooms, CheckHolder(w, r) PROVE Calm'
  BY <1>10 DEF CheckHolder, Ours
<1>11. ASSUME NEW w \in Workers, NEW r \in Rooms, DeleteLock(w, r) PROVE Calm'
  BY <1>11 DEF DeleteLock, Strays
<1>12. ASSUME NEW w \in Workers, NEW r \in Rooms, RenewGet(w, r) PROVE Calm'
  BY <1>12 DEF RenewGet, Ours
<1>13. ASSUME NEW w \in Workers, NEW r \in Rooms, RenewExpire(w, r) PROVE Calm'
  BY <1>13 DEF RenewExpire, Renewed
<1>14. ASSUME NEW w \in Workers, Terminate(w) PROVE Calm'
  BY <1>14 DEF Terminate, Happens
<1>15. ASSUME NEW w \in Workers, Crash(w) PROVE Calm'
  BY <1>15 DEF Crash, Vanishes, Happens
<1>16. ASSUME NEW w \in Workers, Stall(w) PROVE Calm'
  BY <1>16 DEF Stall, Happens
<1>17. ASSUME NEW w \in Workers, SweepFails(w) PROVE Calm'
  BY <1>17 DEF SweepFails, Happens
<1>18. ASSUME NEW w \in Workers, NEW r \in Rooms, PlayerDies(w, r) PROVE Calm'
  BY <1>18 DEF PlayerDies, Happens
<1>19. ASSUME NEW w \in Workers, NEW r \in Rooms, ReleaseFails(w, r) PROVE Calm'
  BY <1>19 DEF ReleaseFails, Happens
<1>20. ASSUME NEW w \in Workers, NEW r \in Rooms, RenewalFails(w, r) PROVE Calm'
  BY <1>20 DEF RenewalFails, Happens
<1>21. ASSUME NEW r \in Rooms, CreateRoom(r) PROVE Calm'
  BY <1>21 DEF CreateRoom, Touched
<1>22. ASSUME NEW r \in Rooms, DeleteRoom(r) PROVE Calm'
  BY <1>22 DEF DeleteRoom
<1>23. ASSUME NEW r \in Rooms, Touch(r) PROVE Calm'
  BY <1>23 DEF Touch, Touched
<1>24. ASSUME NEW r \in Rooms, NEW to \in {"stopped", "on"}, SetStream(r, to) PROVE Calm'
  BY <1>24 DEF SetStream, Touched
<1>25. CASE LiveChanges
  BY <1>25 DEF LiveChanges, Touched, Happens
<1>26. CASE Tick
  <2>1. UNCHANGED <<mishaps, sweep, entry, source, stalled>>
    BY <1>26 DEF Tick, AgeLocks
  <2>2. CASE mishaps # 0
    BY <2>1, <2>2
  <2>3. CASE mishaps = 0
    <3>1. \A w \in Workers : Runs(w)
      BY <2>3 DEF Runs
    <3>2. \A w \in Workers, r \in Rooms : entry[w][r] # "deleting" /\ renewer[w][r] \notin {"due", "renewing"}
      BY <1>26, <3>1 DEF Tick, WorkersRest
    <3>3. \A w \in Workers, r \in Rooms :
            r \in source[w] => holder[r] = w /\ renewer[w][r] = "asleep" /\ lease[r] = LOCK_TTL
      BY <2>3, <3>2
    <3>4. \A w \in Workers, r \in Rooms : r \in source[w] => r \notin Expired
      BY <3>3 DEF Expired
    <3>5. \A w \in Workers, r \in Rooms : r \in source[w] => holder'[r] = w /\ renewer'[w][r] = "due"
      BY <1>26, <3>3, <3>4 DEF Tick, AgeLocks
    <3>6. astray' = {}
      <4>1. {p \in Workers \X Rooms : p[2] \in Expired /\ holder[p[2]] = p[1] /\ p[2] \in source[p[1]]} = {}
        BY <3>4
      <4> QED
        BY <1>26, <2>3, <4>1 DEF Tick, AgeLocks, Strays
    <3> QED
      BY <2>1, <2>3, <3>2, <3>3, <3>5, <3>6
  <2> QED
    BY <2>2, <2>3
<1>27. CASE FlushLocks /\ live' \in [Rooms -> LiveTimes]
  BY <1>27 DEF FlushLocks, Strays, Happens
<1>28. CASE UNCHANGED supervisorVars
  BY <1>28 DEF supervisorVars
<1> HIDE SupervisorAssumption DEF SupervisorTypeOK, Calm, locks, rooms, sweeps, entries
<1> QED
  BY <1>1, <1>2, <1>3, <1>4, <1>5, <1>6, <1>7, <1>8, <1>9, <1>10,
     <1>11, <1>12, <1>13, <1>14, <1>15, <1>16, <1>17, <1>18, <1>19, <1>20,
     <1>21, <1>22, <1>23, <1>24, <1>25, <1>26, <1>27, <1>28
  DEF Next, WorkerStep, SweepStep, RoomStep, Mishap, RoomsAPI

\* At most one of a room's sources has not lost the lock, and none has unless
\* something has gone wrong.
THEOREM OneSourceAlways == Spec => []OneSource
<1>1. Init => Sources /\ Calm
  BY DEF Init, Sources, Calm
<1>2. Sources /\ Calm => OneSource
  BY DEF Sources, Calm, OneSource
<1>3. SupervisorTypeOK /\ Sources /\ Calm /\ [Next]_supervisorVars
        => (SupervisorTypeOK /\ Sources /\ Calm)'
  BY TypeStep, SourcesStep, CalmStep
<1> QED
  BY <1>1, <1>2, <1>3, TypeInit, PTL DEF Spec
=============================================================================
