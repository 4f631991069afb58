-------------------------- MODULE Playback_proofs --------------------------
(***************************************************************************)
(* Proofs about Playback, for any set of tracks, any faults and any bound  *)
(* on how often they happen.                                               *)
(***************************************************************************)
EXTENDS Playback, TLAPS

\* Where the player holds a track in its locals.
Holding == {"claiming", "claimed", "fetching", "announcing", "pumping", "closing",
            "finish_read", "finish_write", "requeue_write"}

\* Where that track is also the one in _current_track_id.
OnAir == {"fetching", "announcing", "pumping", "closing", "finish_read", "finish_write"}

\* What the row of a claimed track can have become, the host being who they are.
Begun == {"playing", "skipped", "removed"}

\* The locals of _play_track agree with _current_track_id, and what is decoded
\* is the track they name.
LocalsAgree ==
  /\ pc \in Holding => pick \in Tracks
  /\ pc \in OnAir => current = pick
  /\ pc \in {"claiming", "claimed"} => current # pick
  /\ pc = "requeue_write" => current = None
  /\ decoder \in Tracks => pc \in {"announcing", "pumping"} /\ decoder = pick
  /\ decoder = News => pc = "bulletin"

\* The key is written before anything is heard.
AirAgrees ==
  /\ pc = "pumping" => air = pick
  /\ pc = "bulletin" => air = News

\* A row that a host is skipping is there until the skip is committed.
SkipsARow == skipping # None => Exists(skipping)

\* The row of a track that was claimed, until the player lets go of it.
ClaimedBegun ==
  /\ pc \in {"claimed", "requeue_write"} => state[pick] \in Begun
  /\ current \in Tracks => state[current] \in Begun

\* The lookahead runs only under a pump, or until its failure is cleaned up.
LookaheadConfined ==
  /\ looking => pc \in {"pumping", "closing", "bulletin", "erring", "stopping"}
  /\ peeked # None => looking

\* A verdict is given up only for a row that had one already.
KeptIsOver ==
  verdict = "kept" => pc \in {"finish_write", "erring"} /\ (pc = "finish_write" => ~Playing(pick))

\* What the claims about the player rest on, each part needed by another: the
\* orphans by the locals and the verdict, the decoders by the lookahead's reach.
Strengthening ==
  /\ LocalsAgree
  /\ AirAgrees
  /\ SkipsARow
  /\ ClaimedBegun
  /\ LookaheadConfined
  /\ KeptIsOver
  /\ NoSecondDecoder
  /\ OrphansOnlyByFaults

IInv == TypeOK /\ Strengthening

-----------------------------------------------------------------------------
(***************************************************************************)
(* Type correctness.  The flags are apart from the rest because a flag is  *)
(* a formula as well as a value.                                           *)
(***************************************************************************)
Flags ==
  /\ flushed \in BOOLEAN /\ skip \in BOOLEAN /\ ready \in BOOLEAN
  /\ control \in BOOLEAN /\ looking \in BOOLEAN

Values ==
  /\ state \in [Tracks -> {"absent", "queued", "playing", "played", "skipped", "failed", "removed"}]
  /\ skipping \in Tracks \cup {None}
  /\ channel \subseteq Tracks \cup {News}
  /\ air \in Tracks \cup {News, None}
  /\ pc \in Labels
  /\ pick \in Tracks \cup {None}
  /\ verdict \in {"played", "skipped", "failed", "kept"}
  /\ current \in Tracks \cup {None}
  /\ decoder \in Tracks \cup {News, None}
  /\ peeked \in Tracks \cup {None}
  /\ prepared \in Tracks \cup {None}
  /\ orphaned \subseteq Tracks
  /\ faults \in 0 .. MaxFaults
  /\ bulletins \in 0 .. MaxNews

\* TypeOK is its two parts.
LEMMA TypeSplit == TypeOK <=> Flags /\ Values
  BY DEF TypeOK, Flags, Values

\* A room starts with every variable of its type.
LEMMA TypeInit == Init => TypeOK
<1>1. Init => Flags
  BY DEF Init, Flags
<1>2. Init => Values
  BY BoundsAssumption DEF Init, Values, Labels
<1> QED
  BY <1>1, <1>2, TypeSplit

\* A flag is only ever assigned another flag or a truth value.
LEMMA FlagsStep == Flags /\ [Next]_vars => Flags'
<1> SUFFICES ASSUME Flags, [Next]_vars PROVE Flags'
  OBVIOUS
<1> USE DEF Flags, requestVars, lookVars, bounds
<1>1. ASSUME NEW t \in Tracks, AddTrack(t) PROVE Flags'
  BY <1>1 DEF AddTrack, SetState
<1>2. ASSUME NEW t \in Tracks, RemoveTrack(t) PROVE Flags'
  BY <1>2 DEF RemoveTrack, Exists, RowLocked, SetState
<1>3. ASSUME NEW t \in Tracks, SkipRead(t) PROVE Flags'
  BY <1>3 DEF SkipRead, CurrentTrack, Playing
<1>4. ASSUME NEW e \in Tracks \cup {News}, DeliverSkip(e) PROVE Flags'
  BY <1>4 DEF DeliverSkip
<1>5. ASSUME NEW e \in Tracks \cup {News}, LoseEvent(e) PROVE Flags'
  BY <1>5 DEF LoseEvent, Happens
<1>6. CASE SkipPublish
  BY <1>6 DEF SkipPublish, Exists
<1>7. CASE SkipCommit
  BY <1>7 DEF SkipCommit, SetState
<1>8. CASE SkipBulletin
  BY <1>8 DEF SkipBulletin, Playing
<1>9. CASE StartPlayer
  BY <1>9 DEF StartPlayer
<1>10. CASE Tick
  BY <1>10 DEF Tick, TakeReadyBulletin, Queued
<1>11. CASE CommitClaim
  BY <1>11 DEF CommitClaim, RowLocked, Exists, SetState
<1>12. CASE BeginPlay
  BY <1>12 DEF BeginPlay, IsWarm, Playing
<1>13. CASE Fetch
  BY <1>13 DEF Fetch
<1>14. CASE Announce
  BY <1>14 DEF Announce
<1>15. CASE PumpEnds
  BY <1>15 DEF PumpEnds
<1>16. CASE EndPlay
  BY <1>16 DEF EndPlay, StopLookahead
<1>17. CASE FinishRead
  BY <1>17 DEF FinishRead, Exists, Playing, ForgetLocals, ForgetCurrent
<1>18. CASE FinishWrite
  BY <1>18 DEF FinishWrite, RowLocked, Exists, EndTrack, SetState, ForgetLocals, ForgetCurrent
<1>19. CASE Idle
  BY <1>19 DEF Idle
<1>20. CASE StartBulletin
  BY <1>20 DEF StartBulletin
<1>21. CASE EndBulletin
  BY <1>21 DEF EndBulletin, StopLookahead
<1>22. CASE Recover
  BY <1>22 DEF Recover, ForgetLocals
<1>23. CASE CleanUp
  BY <1>23 DEF CleanUp, Playing
<1>24. CASE RequeueRead
  BY <1>24 DEF RequeueRead, ForgetCurrent, Unfinished, Playing
<1>25. CASE RequeueWrite
  BY <1>25 DEF RequeueWrite, RowLocked, Exists, SetState
<1>26. CASE ClearNowPlaying
  BY <1>26 DEF ClearNowPlaying
<1>27. CASE TickFails
  BY <1>27 DEF TickFails, Happens, Running
<1>28. CASE Cancel
  BY <1>28 DEF Cancel, Happens, Running, ForgetLocals, Playing
<1>29. CASE Crash
  BY <1>29 DEF Crash, Happens, ForgetLocals, Playing
<1>30. CASE NewsReady
  BY <1>30 DEF NewsReady, Happens, Running
<1>31. CASE ControlDies
  BY <1>31 DEF ControlDies, Happens
<1>32. CASE Peek
  BY <1>32 DEF Peek, Queued
<1>33. CASE Prepare
  BY <1>33 DEF Prepare
<1>34. CASE UNCHANGED vars
  BY <1>34 DEF vars
<1> QED
  BY <1>1, <1>2, <1>3, <1>4, <1>5, <1>6, <1>7, <1>8, <1>9, <1>10, <1>11,
     <1>12, <1>13, <1>14, <1>15, <1>16, <1>17, <1>18, <1>19, <1>20, <1>21,
     <1>22, <1>23, <1>24, <1>25, <1>26, <1>27, <1>28, <1>29, <1>30, <1>31,
     <1>32, <1>33, <1>34 DEF Next, PlayerStep

\* Every action assigns every other variable a value of its type.
LEMMA ValuesStep == Values /\ [Next]_vars => Values'
<1> SUFFICES ASSUME Values, [Next]_vars PROVE Values'
  OBVIOUS
<1> USE TracksAssumption, BoundsAssumption DEF Values, Labels, requestVars, lookVars, bounds
<1>1. ASSUME NEW t \in Tracks, AddTrack(t) PROVE Values'
  BY <1>1 DEF AddTrack, SetState
<1>2. ASSUME NEW t \in Tracks, RemoveTrack(t) PROVE Values'
  BY <1>2 DEF RemoveTrack, Exists, RowLocked, SetState
<1>3. ASSUME NEW t \in Tracks, SkipRead(t) PROVE Values'
  BY <1>3 DEF SkipRead, CurrentTrack, Playing
<1>4. ASSUME NEW e \in Tracks \cup {News}, DeliverSkip(e) PROVE Values'
  BY <1>4 DEF DeliverSkip
<1>5. ASSUME NEW e \in Tracks \cup {News}, LoseEvent(e) PROVE Values'
  BY <1>5 DEF LoseEvent, Happens
<1>6. CASE SkipPublish
  BY <1>6 DEF SkipPublish, Exists
<1>7. CASE SkipCommit
  BY <1>7 DEF SkipCommit, SetState
<1>8. CASE SkipBulletin
  BY <1>8 DEF SkipBulletin, Playing
<1>9. CASE StartPlayer
  BY <1>9 DEF StartPlayer
<1>10. CASE Tick
  BY <1>10 DEF Tick, TakeReadyBulletin, Queued
<1>11. CASE CommitClaim
  BY <1>11 DEF CommitClaim, RowLocked, Exists, SetState
<1>12. CASE BeginPlay
  BY <1>12 DEF BeginPlay, IsWarm, Playing
<1>13. CASE Fetch
  BY <1>13 DEF Fetch
<1>14. CASE Announce
  BY <1>14 DEF Announce
<1>15. CASE PumpEnds
  BY <1>15 DEF PumpEnds
<1>16. CASE EndPlay
  BY <1>16 DEF EndPlay, StopLookahead
<1>17. CASE FinishRead
  BY <1>17 DEF FinishRead, Exists, Playing, ForgetLocals, ForgetCurrent
<1>18. CASE FinishWrite
  BY <1>18 DEF FinishWrite, RowLocked, Exists, EndTrack, SetState, ForgetLocals, ForgetCurrent
<1>19. CASE Idle
  BY <1>19 DEF Idle
<1>20. CASE StartBulletin
  BY <1>20 DEF StartBulletin
<1>21. CASE EndBulletin
  BY <1>21 DEF EndBulletin, StopLookahead
<1>22. CASE Recover
  BY <1>22 DEF Recover, ForgetLocals
<1>23. CASE CleanUp
  BY <1>23 DEF CleanUp, Playing
<1>24. CASE RequeueRead
  BY <1>24 DEF RequeueRead, ForgetCurrent, Unfinished, Playing
<1>25. CASE RequeueWrite
  BY <1>25 DEF RequeueWrite, RowLocked, Exists, SetState
<1>26. CASE ClearNowPlaying
  BY <1>26 DEF ClearNowPlaying
<1>27. CASE TickFails
  BY <1>27 DEF TickFails, Happens, Running
<1>28. CASE Cancel
  BY <1>28 DEF Cancel, Happens, Running, ForgetLocals, Playing
<1>29. CASE Crash
  BY <1>29 DEF Crash, Happens, ForgetLocals, Playing
<1>30. CASE NewsReady
  BY <1>30 DEF NewsReady, Happens, Running
<1>31. CASE ControlDies
  BY <1>31 DEF ControlDies, Happens
<1>32. CASE Peek
  BY <1>32 DEF Peek, Queued
<1>33. CASE Prepare
  BY <1>33 DEF Prepare
<1>34. CASE UNCHANGED vars
  BY <1>34 DEF vars
<1> QED
  BY <1>1, <1>2, <1>3, <1>4, <1>5, <1>6, <1>7, <1>8, <1>9, <1>10, <1>11,
     <1>12, <1>13, <1>14, <1>15, <1>16, <1>17, <1>18, <1>19, <1>20, <1>21,
     <1>22, <1>23, <1>24, <1>25, <1>26, <1>27, <1>28, <1>29, <1>30, <1>31,
     <1>32, <1>33, <1>34 DEF Next, PlayerStep

\* Together the two steps keep the types.
LEMMA TypeStep == TypeOK /\ [Next]_vars => TypeOK'
<1>1. TypeOK' <=> Flags' /\ Values'
  BY DEF TypeOK, Flags, Values
<1> QED
  BY <1>1, TypeSplit, FlagsStep, ValuesStep

\* Every variable keeps its type.
THEOREM TypeCorrect == Spec => []TypeOK
  BY TypeInit, TypeStep, PTL DEF Spec

-----------------------------------------------------------------------------
(***************************************************************************)
(* The inductive invariant.                                                *)
(***************************************************************************)
\* A room with no player and no rows satisfies it.
LEMMA InvInit == Init => IInv
<1> SUFFICES ASSUME Init PROVE Strengthening
  BY TypeInit DEF IInv
<1> USE TracksAssumption DEF Init
<1>1. LocalsAgree
  BY DEF LocalsAgree, Holding, OnAir
<1>2. ClaimedBegun /\ AirAgrees /\ SkipsARow
  BY DEF ClaimedBegun, AirAgrees, SkipsARow
<1>3. LookaheadConfined
  BY DEF LookaheadConfined
<1>4. KeptIsOver
  BY DEF KeptIsOver
<1>5. NoSecondDecoder
  BY DEF NoSecondDecoder
<1>6. OrphansOnlyByFaults
  BY DEF OrphansOnlyByFaults, Playing
<1> QED
  BY <1>1, <1>2, <1>3, <1>4, <1>5, <1>6 DEF Strengthening

\* Every action of the API, the player, the control task and the lookahead
\* preserves it.
LEMMA InvStep == IInv /\ [Next]_vars => IInv'
<1> SUFFICES ASSUME IInv, [Next]_vars PROVE Strengthening'
  BY TypeStep DEF IInv, Strengthening
<1>0. Values
  BY TypeSplit DEF IInv
<1> USE <1>0, TracksAssumption
    DEF Values, Labels, IInv, Strengthening, LocalsAgree, AirAgrees, SkipsARow, Exists, ClaimedBegun, LookaheadConfined,
        KeptIsOver, NoSecondDecoder, OrphansOnlyByFaults, Holding, OnAir, Begun, Playing,
        requestVars, lookVars, bounds
<1>1. ASSUME NEW t \in Tracks, AddTrack(t) PROVE Strengthening'
  BY <1>1 DEF AddTrack, SetState
<1>2. ASSUME NEW t \in Tracks, RemoveTrack(t) PROVE Strengthening'
  BY <1>2 DEF RemoveTrack, Exists, RowLocked, SetState
<1>3. ASSUME NEW t \in Tracks, SkipRead(t) PROVE Strengthening'
  BY <1>3 DEF SkipRead, CurrentTrack
<1>4. ASSUME NEW e \in Tracks \cup {News}, DeliverSkip(e) PROVE Strengthening'
  BY <1>4 DEF DeliverSkip
<1>5. ASSUME NEW e \in Tracks \cup {News}, LoseEvent(e) PROVE Strengthening'
  BY <1>5 DEF LoseEvent, Happens
<1>6. CASE SkipPublish
  BY <1>6 DEF SkipPublish, Exists
<1>7. CASE SkipCommit
  BY <1>7 DEF SkipCommit, SetState
<1>8. CASE SkipBulletin
  BY <1>8 DEF SkipBulletin
<1>9. CASE StartPlayer
  BY <1>9 DEF StartPlayer
<1>10. CASE Tick
  BY <1>10 DEF Tick, TakeReadyBulletin, Queued
<1>11. CASE CommitClaim
  BY <1>11 DEF CommitClaim, RowLocked, Exists, SetState
<1>12. CASE BeginPlay
  BY <1>12 DEF BeginPlay, IsWarm
<1>13. CASE Fetch
  BY <1>13 DEF Fetch
<1>14. CASE Announce
  BY <1>14 DEF Announce
<1>15. CASE PumpEnds
  BY <1>15 DEF PumpEnds
<1>16. CASE EndPlay
  BY <1>16 DEF EndPlay, StopLookahead
<1>17. CASE FinishRead
  BY <1>17 DEF FinishRead, Exists, ForgetLocals, ForgetCurrent
<1>18. CASE FinishWrite
  BY <1>18 DEF FinishWrite, RowLocked, Exists, EndTrack, SetState, ForgetLocals, ForgetCurrent
<1>19. CASE Idle
  BY <1>19 DEF Idle
<1>20. CASE StartBulletin
  BY <1>20 DEF StartBulletin
<1>21. CASE EndBulletin
  BY <1>21 DEF EndBulletin, StopLookahead
<1>22. CASE Recover
  BY <1>22 DEF Recover, ForgetLocals
<1>23. CASE CleanUp
  BY <1>23 DEF CleanUp
<1>24. CASE RequeueRead
  BY <1>24 DEF RequeueRead, ForgetCurrent, Unfinished
<1>25. CASE RequeueWrite
  BY <1>25 DEF RequeueWrite, RowLocked, Exists, SetState
<1>26. CASE ClearNowPlaying
  BY <1>26 DEF ClearNowPlaying
<1>27. CASE TickFails
  BY <1>27 DEF TickFails, Happens, Running
<1>28. CASE Cancel
  BY <1>28 DEF Cancel, Happens, Running, ForgetLocals
<1>29. CASE Crash
  BY <1>29 DEF Crash, Happens, ForgetLocals
<1>30. CASE NewsReady
  BY <1>30 DEF NewsReady, Happens, Running
<1>31. CASE ControlDies
  BY <1>31 DEF ControlDies, Happens
<1>32. CASE Peek
  BY <1>32 DEF Peek, Queued
<1>33. CASE Prepare
  BY <1>33 DEF Prepare
<1>34. CASE UNCHANGED vars
  BY <1>34 DEF vars
<1> QED
  BY <1>1, <1>2, <1>3, <1>4, <1>5, <1>6, <1>7, <1>8, <1>9, <1>10, <1>11,
     <1>12, <1>13, <1>14, <1>15, <1>16, <1>17, <1>18, <1>19, <1>20, <1>21,
     <1>22, <1>23, <1>24, <1>25, <1>26, <1>27, <1>28, <1>29, <1>30, <1>31,
     <1>32, <1>33, <1>34 DEF Next, PlayerStep

\* So it always holds.
LEMMA Invariance == Spec => []IInv
  BY InvInit, InvStep, PTL DEF Spec

-----------------------------------------------------------------------------
(***************************************************************************)
(* What follows from it.                                                   *)
(***************************************************************************)

\* What is heard is the track that was claimed and is remembered as current.
THEOREM HeardIsClaimedAlways == Spec => []HeardIsClaimed
<1>1. IInv => HeardIsClaimed
  BY DEF IInv, Strengthening, TypeOK, LocalsAgree, ClaimedBegun, OnAir, Begun, HeardIsClaimed
<1> QED
  BY <1>1, Invariance, PTL

\* The track the player holds is not waiting to be claimed a second time.
THEOREM OnAirNeverWaitsAlways == Spec => []OnAirNeverWaits
<1>1. IInv => OnAirNeverWaits
  BY DEF IInv, Strengthening, ClaimedBegun, Begun, OnAirNeverWaits
<1> QED
  BY <1>1, Invariance, PTL

\* The lookahead never works for the track that is already on air.
THEOREM NoSecondDecoderAlways == Spec => []NoSecondDecoder
<1>1. IInv => NoSecondDecoder
  BY DEF IInv, Strengthening
<1> QED
  BY <1>1, Invariance, PTL

\* A row is left playing only in the four ways that OrphansOnlyByFaults names.
THEOREM OrphansOnlyByFaultsAlways == Spec => []OrphansOnlyByFaults
<1>1. IInv => OrphansOnlyByFaults
  BY DEF IInv, Strengthening
<1> QED
  BY <1>1, Invariance, PTL
\* While nothing is orphaned, the page shows what is on air.
THEOREM ShowsWhatIsHeardAlways == Spec => []ShowsWhatIsHeard
<1>1. IInv => ShowsWhatIsHeard
  <2> SUFFICES ASSUME IInv, orphaned = {} PROVE ShowsWhatIsHeard
    BY DEF ShowsWhatIsHeard
  <2>0. Values
    BY TypeSplit DEF IInv
  <2> USE <2>0, TracksAssumption
      DEF Values, IInv, Strengthening, LocalsAgree, AirAgrees, Holding, OnAir,
          OrphansOnlyByFaults, Playing
  <2>1. ASSUME pc = "pumping"
        PROVE  Shown = IF Playing(pick) THEN {pick} ELSE {None}
    BY <2>1 DEF Shown, CurrentTrack
  <2>2. ASSUME pc = "bulletin", current = None
        PROVE  Shown = {News}
    BY <2>2 DEF Shown, CurrentTrack
  <2> QED
    BY <2>1, <2>2 DEF ShowsWhatIsHeard
<1> QED
  BY <1>1, Invariance, PTL

-----------------------------------------------------------------------------
(***************************************************************************)
(* The refinement: every step of the player, of its tasks, of the host and *)
(* of a fault is a step of Broadcast, or changes nothing there.            *)
(***************************************************************************)

\* A room without rows is a broadcast without tracks.
LEMMA BroadcastInitially == Init => B!BroadcastInit
  BY DEF Init, B!BroadcastInit, Stages, Stage

\* A step that leaves every track at its stage, and what is heard alone.
Quiet == UNCHANGED <<Stages, decoder>>

\* Tracks that change their stage without starting are let go of, all at once.
Leaving ==
  /\ \A t \in Tracks :
       Stage(t)' = Stage(t) \/ (Stage(t) \in {"waiting", "claimed", "started"} /\ Stage(t)' = "over")
  /\ decoder' \in {decoder, None}
  /\ \A t \in Tracks : decoder' = t => Stage(t)' = Stage(t)

\* Tracks that leave, several at once or none, are let go.
LEMMA LeavingIsLetGo == Leaving => B!BroadcastNext \/ Quiet
<1> SUFFICES ASSUME Leaving PROVE B!BroadcastNext \/ Quiet
  OBVIOUS
<1> DEFINE gone == {t \in Tracks : Stage(t)' # Stage(t)}
<1>1. CASE gone = {}
  <2>1. Stages' = Stages
    BY <1>1 DEF Stages
  <2> QED
    BY <2>1 DEF Leaving, Quiet, B!BroadcastNext, B!End
<1>2. CASE gone # {}
  <2>1. \A t \in gone : Stages[t] \in {"waiting", "claimed", "started"}
    BY DEF Leaving, Stages
  <2>2. Stages' = [t \in Tracks |-> IF t \in gone THEN "over" ELSE Stages[t]]
    BY DEF Leaving, Stages
  <2>3. decoder' \in {decoder, None} \ gone \/ (decoder' = None /\ None \in Tracks)
    BY DEF Leaving
  <2>4. B!LetGo(gone)
    BY <1>2, <2>1, <2>2, <2>3, TracksAssumption DEF B!LetGo, B!Move
  <2>5. gone \in SUBSET Tracks
    OBVIOUS
  <2> QED
    BY <2>4, <2>5 DEF B!BroadcastNext
<1> QED
  BY <1>1, <1>2

\* Every step is a step of the broadcast.
LEMMA BroadcastStep == IInv /\ [Next]_vars => B!BroadcastNext \/ Quiet
<1> SUFFICES ASSUME IInv, [Next]_vars PROVE B!BroadcastNext \/ Quiet
  OBVIOUS
<1>0. Values
  BY TypeSplit DEF IInv
<1> USE <1>0, TracksAssumption
    DEF Values, Labels, IInv, Strengthening, LocalsAgree, SkipsARow, ClaimedBegun, Holding, OnAir, Begun,
        Stages, Stage, Held, Waiting, Queued, Exists, requestVars, lookVars, bounds, B!Move
<1>1. ASSUME NEW t \in Tracks, AddTrack(t) PROVE B!BroadcastNext
  BY <1>1 DEF AddTrack, SetState, B!BroadcastNext, B!Submit
<1>2. ASSUME NEW t \in Tracks, RemoveTrack(t) PROVE B!BroadcastNext \/ Quiet
  <2>1. Leaving
    BY <1>2 DEF RemoveTrack, SetState, Leaving
  <2> QED
    BY <2>1, LeavingIsLetGo
<1>3. ASSUME NEW t \in Tracks, SkipRead(t) PROVE Quiet
  BY <1>3 DEF SkipRead, Quiet
<1>4. ASSUME NEW e \in Tracks \cup {News}, DeliverSkip(e) PROVE Quiet
  BY <1>4 DEF DeliverSkip, Quiet
<1>5. ASSUME NEW e \in Tracks \cup {News}, LoseEvent(e) PROVE Quiet
  BY <1>5 DEF LoseEvent, Quiet
<1>6. CASE SkipPublish
  BY <1>6 DEF SkipPublish, Quiet
<1>7. CASE SkipCommit
  <2>1. Leaving
    BY <1>7 DEF SkipCommit, SetState, Leaving
  <2> QED
    BY <2>1, LeavingIsLetGo
<1>8. CASE SkipBulletin
  BY <1>8 DEF SkipBulletin, Quiet
<1>9. CASE StartPlayer
  BY <1>9 DEF StartPlayer, Quiet
<1>10. CASE Tick
  BY <1>10 DEF Tick, TakeReadyBulletin, Quiet
<1>11. CASE CommitClaim
  <2>1. decoder = None
    BY <1>11 DEF CommitClaim
  <2>2. CASE Exists(pick)
    <3>1. Stages' = [t \in Tracks |-> IF t \in {pick} THEN "claimed" ELSE Stages[t]]
      BY <1>11, <2>2 DEF CommitClaim, SetState
    <3> QED
      BY <1>11, <2>1, <2>2, <3>1 DEF CommitClaim, B!BroadcastNext, B!Claim
  <2>3. CASE ~Exists(pick)
    BY <1>11, <2>3 DEF CommitClaim, Quiet
  <2> QED
    BY <2>2, <2>3
<1>12. CASE BeginPlay
  <2>1. decoder = None /\ Stages[pick] = "claimed"
    BY <1>12 DEF BeginPlay
  <2>2. CASE IsWarm(pick)
    <3> DEFINE old == {u \in Tracks : u = current}
    <3>1. old \in SUBSET {u \in Tracks : Stages[u] = "started"}
      BY <1>12 DEF BeginPlay
    <3>2. Stages' = [u \in Tracks |-> IF u = pick THEN "started"
                                     ELSE IF u \in old THEN "over" ELSE Stages[u]]
      BY <1>12, <2>2 DEF BeginPlay, IsWarm
    <3>3. decoder' = pick
      BY <1>12, <2>2 DEF BeginPlay, IsWarm
    <3>4. B!Start(pick)
      BY <2>1, <3>1, <3>2, <3>3 DEF B!Start
    <3>5. pick \in Tracks
      BY <1>12 DEF BeginPlay
    <3> QED
      BY ONLY <3>4, <3>5 DEF B!BroadcastNext, B!Start
  <2>3. CASE ~IsWarm(pick)
    <3>1. Leaving
      BY <1>12, <2>1, <2>3 DEF BeginPlay, Leaving
    <3> QED
      BY <3>1, LeavingIsLetGo
  <2> QED
    BY <2>2, <2>3
<1>13. CASE Fetch
  <2>1. decoder = None /\ Stages[pick] = "claimed"
    BY <1>13 DEF Fetch
  <2>2. Stages' = [u \in Tracks |-> IF u = pick THEN "started" ELSE Stages[u]]
    BY <1>13 DEF Fetch
  <2>3. CASE decoder' = pick
    <3> DEFINE nobody == {u \in {} : Stages[u] = "started"}
    <3>1. nobody \in SUBSET {u \in Tracks : Stages[u] = "started"}
      OBVIOUS
    <3>2. Stages' = [u \in Tracks |-> IF u = pick THEN "started"
                                     ELSE IF u \in nobody THEN "over" ELSE Stages[u]]
      BY <2>2
    <3>3. B!Start(pick)
      BY <2>1, <2>3, <3>1, <3>2 DEF B!Start
    <3>4. pick \in Tracks
      BY <1>13 DEF Fetch
    <3> QED
      BY ONLY <3>3, <3>4 DEF B!BroadcastNext, B!Start
  <2>4. CASE decoder' = None
    BY <1>13, <2>1, <2>2, <2>4 DEF Fetch, B!BroadcastNext, B!Miss
  <2> QED
    BY <1>13, <2>3, <2>4 DEF Fetch
<1>14. CASE Announce
  BY <1>14 DEF Announce, Quiet
<1>15. CASE PumpEnds
  BY <1>15 DEF PumpEnds, B!BroadcastNext, B!End, Quiet
<1>16. CASE EndPlay
  BY <1>16 DEF EndPlay, StopLookahead, Quiet
<1>17. CASE FinishRead
  <2>1. Leaving
    BY <1>17 DEF FinishRead, ForgetLocals, ForgetCurrent, Leaving
  <2> QED
    BY <2>1, LeavingIsLetGo
<1>18. CASE FinishWrite
  <2>1. Leaving
    BY <1>18 DEF FinishWrite, EndTrack, SetState, ForgetLocals, ForgetCurrent, Leaving
  <2> QED
    BY <2>1, LeavingIsLetGo
<1>19. CASE Idle
  BY <1>19 DEF Idle, Quiet
<1>20. CASE StartBulletin
  BY <1>20 DEF StartBulletin, B!BroadcastNext, B!StartNews, Quiet
<1>21. CASE EndBulletin
  BY <1>21 DEF EndBulletin, StopLookahead, B!BroadcastNext, B!End, Quiet
<1>22. CASE Recover
  BY <1>22 DEF Recover, ForgetLocals, Quiet
<1>23. CASE CleanUp
  <2>1. Leaving
    BY <1>23 DEF CleanUp, Leaving
  <2> QED
    BY <2>1, LeavingIsLetGo
<1>24. CASE RequeueRead
  <2>1. Leaving
    BY <1>24 DEF RequeueRead, ForgetCurrent, Unfinished, Playing, Leaving
  <2> QED
    BY <2>1, LeavingIsLetGo
<1>25. CASE RequeueWrite
  <2>1. decoder = None /\ Stages[pick] = "started"
    BY <1>25 DEF RequeueWrite
  <2>2. CASE Exists(pick)
    <3>1. Stages' = [t \in Tracks |-> IF t \in {pick} THEN "waiting" ELSE Stages[t]]
      BY <1>25, <2>2 DEF RequeueWrite, SetState
    <3> QED
      BY <1>25, <2>1, <3>1 DEF RequeueWrite, B!BroadcastNext, B!GiveBack
  <2>3. CASE ~Exists(pick)
    <3>1. Leaving
      BY <1>25, <2>3 DEF RequeueWrite, Leaving
    <3> QED
      BY <3>1, LeavingIsLetGo
  <2> QED
    BY <2>2, <2>3
<1>26. CASE ClearNowPlaying
  BY <1>26 DEF ClearNowPlaying, Quiet
<1>27. CASE TickFails
  <2>1. CASE pc = "fetching"
    <3>1. Stages' = [t \in Tracks |-> IF t \in {pick} THEN "started" ELSE Stages[t]]
      BY <1>27, <2>1 DEF TickFails, Running
    <3> QED
      BY <1>27, <2>1, <3>1 DEF TickFails, Running, B!BroadcastNext, B!Miss
  <2>2. CASE pc # "fetching"
    <3>1. Leaving
      BY <1>27, <2>2 DEF TickFails, Running, Leaving
    <3> QED
      BY <3>1, LeavingIsLetGo
  <2> QED
    BY <2>1, <2>2
<1>28. CASE Cancel
  <2>1. CASE pc = "fetching"
    <3>1. Stages' = [t \in Tracks |-> IF t \in {pick} THEN "started" ELSE Stages[t]]
      BY <1>28, <2>1 DEF Cancel, Running, ForgetLocals
    <3> QED
      BY <1>28, <2>1, <3>1 DEF Cancel, Running, ForgetLocals, B!BroadcastNext, B!Miss
  <2>2. CASE pc # "fetching"
    <3>1. Leaving
      BY <1>28, <2>2 DEF Cancel, Running, ForgetLocals, Leaving
    <3> QED
      BY <3>1, LeavingIsLetGo
  <2> QED
    BY <2>1, <2>2
<1>29. CASE Crash
  <2>1. Leaving
    BY <1>29 DEF Crash, ForgetLocals, Leaving
  <2> QED
    BY <2>1, LeavingIsLetGo
<1>30. CASE NewsReady
  BY <1>30 DEF NewsReady, Quiet
<1>31. CASE ControlDies
  BY <1>31 DEF ControlDies, Quiet
<1>32. CASE Peek
  BY <1>32 DEF Peek, Quiet
<1>33. CASE Prepare
  BY <1>33 DEF Prepare, Quiet
<1>34. CASE UNCHANGED vars
  BY <1>34 DEF vars, Quiet
<1> QED
  BY <1>1, <1>2, <1>3, <1>4, <1>5, <1>6, <1>7, <1>8, <1>9, <1>10, <1>11,
     <1>12, <1>13, <1>14, <1>15, <1>16, <1>17, <1>18, <1>19, <1>20, <1>21,
     <1>22, <1>23, <1>24, <1>25, <1>26, <1>27, <1>28, <1>29, <1>30, <1>31,
     <1>32, <1>33, <1>34 DEF Next, PlayerStep, B!BroadcastNext

\* The player implements the broadcast.
THEOREM ImplementsBroadcastAlways == Spec => ImplementsBroadcast
<1>1. IInv /\ [Next]_vars => [B!BroadcastNext]_(B!broadcastVars)
  BY BroadcastStep DEF Quiet, B!broadcastVars
<1> QED
  BY <1>1, BroadcastInitially, Invariance, PTL DEF Spec, ImplementsBroadcast, B!BroadcastSpec
=============================================================================
