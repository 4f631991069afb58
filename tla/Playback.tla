------------------------------ MODULE Playback ------------------------------
(***************************************************************************)
(* One room's playback: the player coroutine of app/worker/player.py, its  *)
(* control task and its lookahead task, against the rows the API writes at *)
(* the same time.                                                          *)
(*                                                                         *)
(* Every await of the player is a point where the control task, the        *)
(* lookahead, a request handler, a cancellation or a crash can get in, so  *)
(* each stretch between two awaits that touches shared state is an action, *)
(* and pc names the await the player is suspended at.                      *)
(*                                                                         *)
(* Which queued track is first is RoomQueue's subject.  Votes, promotions  *)
(* and additions can change it between any two reads, so here a read of    *)
(* the queue returns any queued track.                                     *)
(*                                                                         *)
(* A definition marked "Mistake" is not the code: it is the mistake that   *)
(* the definition after it avoids, kept to see a property notice it.       *)
(***************************************************************************)
EXTENDS Naturals

CONSTANTS
  Tracks,    \* the rows this room's queue ever gets
  News,      \* the bulletin, which is not a row (news.KIND)
  None,
  Faults,    \* what may happen to the player: of "error", "stop", "crash", "lost"
  MaxFaults, \* bound: how often any of that happens
  MaxNews    \* bound: how many bulletins are fetched

ASSUME TracksAssumption == News \notin Tracks /\ None \notin Tracks /\ News # None
ASSUME BoundsAssumption == MaxFaults \in Nat /\ MaxNews \in Nat

VARIABLES
  \* PostgreSQL
  state,     \* the state column; "absent" before the insert, "removed" after a delete
  \* the host's skip request, and Redis
  skipping,  \* the row the request has read as current, or None
  flushed,   \* its UPDATE is sent and the row locked, the commit still to come
  channel,   \* SONG_SKIPPED events not yet delivered to the control task
  air,       \* the now-playing key
  \* the player
  pc, pick, verdict,   \* where it is, and the locals of _play_track
  current,   \* self._current_track_id
  decoder,   \* what the decoder decodes that is, or is about to be, heard
  skip,      \* self._skip
  ready,     \* self._news_ready
  control,   \* the control task is alive
  \* the lookahead
  looking, peeked,     \* the task runs; the row it has peeked at and is working for
  prepared,  \* self._prepared
  \* bookkeeping
  orphaned,  \* rows left playing by a fault: no player will finish them
  faults, bulletins

requestVars == <<skipping, flushed, channel>>
lookVars == <<looking, peeked, prepared>>
bounds == <<faults, bulletins>>
vars == <<state, requestVars, air, pc, pick, verdict, current, decoder, skip, ready,
          control, lookVars, orphaned, bounds>>

Labels == {"off", "tick", "claiming", "claimed", "fetching", "announcing",
           "pumping", "closing", "finish_read", "finish_write", "idle", "erring",
           "news_claim", "bulletin", "stopping", "requeue_read", "requeue_write", "clearing"}

TypeOK ==
  /\ state \in [Tracks -> {"absent", "queued", "playing", "played", "skipped", "failed", "removed"}]
  /\ skipping \in Tracks \cup {None}
  /\ flushed \in BOOLEAN
  /\ channel \subseteq Tracks \cup {News}
  /\ air \in Tracks \cup {News, None}
  /\ pc \in Labels
  /\ pick \in Tracks \cup {None}
  /\ verdict \in {"played", "skipped", "failed", "kept"}
  /\ current \in Tracks \cup {None}
  /\ decoder \in Tracks \cup {News, None}
  /\ skip \in BOOLEAN
  /\ ready \in BOOLEAN
  /\ control \in BOOLEAN
  /\ looking \in BOOLEAN
  /\ peeked \in Tracks \cup {None}
  /\ prepared \in Tracks \cup {None}
  /\ orphaned \subseteq Tracks
  /\ faults \in 0 .. MaxFaults
  /\ bulletins \in 0 .. MaxNews

Init ==
  /\ state = [t \in Tracks |-> "absent"]
  /\ skipping = None
  /\ flushed = FALSE
  /\ channel = {}
  /\ air = None
  /\ pc = "off"
  /\ pick = None
  /\ verdict = "played"
  /\ current = None
  /\ decoder = None
  /\ skip = FALSE
  /\ ready = FALSE
  /\ control = FALSE
  /\ looking = FALSE
  /\ peeked = None
  /\ prepared = None
  /\ orphaned = {}
  /\ faults = 0
  /\ bulletins = 0

-----------------------------------------------------------------------------
Queued(t) == state[t] = "queued"
Playing(t) == state[t] = "playing"
Exists(t) == state[t] \notin {"absent", "removed"}

\* The host's transaction has the row; a writer of it waits for the commit.
RowLocked(t) == flushed /\ skipping = t

\* current_track: the playing row that started last.  Only after a fault is
\* there more than one, and which of them it is is then left open.
CurrentTrack(t) == Playing(t)

\* _play_track is left: its locals are gone.
ForgetLocals == pick' = None /\ verdict' = "played"

\* Mistake: _current_track_id is not reset when its track is let go of.
ForgetCurrentLate == current' = current
\* self._current_track_id = None
ForgetCurrent == current' = None

SetState(t, s) == state' = [state EXCEPT ![t] = s]

Happens(fault) ==
  /\ fault \in Faults
  /\ faults < MaxFaults
  /\ faults' = faults + 1
  /\ bulletins' = bulletins

-----------------------------------------------------------------------------
(***************************************************************************)
(* The API.                                                                *)
(***************************************************************************)
AddTrack(t) ==
  /\ state[t] = "absent"
  /\ SetState(t, "queued")
  /\ UNCHANGED <<requestVars, air, pc, pick, verdict, current, decoder, skip, ready,
                 control, lookVars, orphaned, bounds>>

(***************************************************************************)
(* remove_track by the host, in any state; a listener's withdrawal, which  *)
(* checks for "queued" before it deletes, may find the row claimed by the  *)
(* time it does; a ban deletes its listener's rows with the listener.      *)
(* Requests of one room take turns (see RoomQueue), so none of this gets   *)
(* inside a skip.                                                          *)
(***************************************************************************)
RemoveTrack(t) ==
  /\ Exists(t) /\ skipping = None
  /\ SetState(t, "removed")
  /\ orphaned' = orphaned \ {t}
  /\ UNCHANGED <<requestVars, air, pc, pick, verdict, current, decoder, skip, ready,
                 control, lookVars, bounds>>

\* skip up to current_track.
SkipRead(t) ==
  /\ skipping = None
  /\ CurrentTrack(t)
  /\ skipping' = t
  /\ UNCHANGED <<state, flushed, channel, air, pc, pick, verdict, current, decoder, skip, ready,
                 control, lookVars, orphaned, bounds>>

\* skip's UPDATE is flushed and its event published: the commit is still to come.
SkipPublish ==
  /\ skipping # None /\ ~flushed
  /\ flushed' = TRUE
  /\ channel' = channel \cup {skipping}
  /\ UNCHANGED <<state, skipping, air, pc, pick, verdict, current, decoder, skip, ready,
                 control, lookVars, orphaned, bounds>>

\* get_db commits when the handler has returned.
SkipCommit ==
  /\ skipping # None /\ flushed
  /\ SetState(skipping, "skipped")
  /\ orphaned' = orphaned \ {skipping}
  /\ skipping' = None
  /\ flushed' = FALSE
  /\ UNCHANGED <<channel, air, pc, pick, verdict, current, decoder, skip, ready,
                 control, lookVars, bounds>>

\* skip while a bulletin is on air: there is no row, the event alone does it.
SkipBulletin ==
  /\ skipping = None
  /\ \A t \in Tracks : ~Playing(t)
  /\ air = News
  /\ channel' = channel \cup {News}
  /\ UNCHANGED <<state, skipping, flushed, air, pc, pick, verdict, current, decoder, skip, ready,
                 control, lookVars, orphaned, bounds>>

-----------------------------------------------------------------------------
(***************************************************************************)
(* The player: RoomPlayer.run, _tick and what they call.                   *)
(***************************************************************************)

\* The supervisor starts a player for a room that has none.
StartPlayer ==
  /\ pc = "off"
  /\ pc' = "tick"
  /\ control' = TRUE
  /\ channel' = {}
  /\ skip' = FALSE
  /\ UNCHANGED <<state, skipping, flushed, air, pick, verdict, current, decoder, ready,
                 lookVars, orphaned, bounds>>

\* Mistake: the bulletin on air is left in _news_ready.
PlayReadyBulletinAgain == ready /\ ready' = ready
\* ready, self._news_ready = self._news_ready, None
TakeReadyBulletin == ready /\ ready' = FALSE

\* _tick: a ready bulletin first, else the first SELECT of _claim_next_track.
\* The radio's pick for an empty queue is an AddTrack before the next round.
Tick ==
  /\ pc = "tick"
  /\ \/ /\ TakeReadyBulletin
        /\ pc' = "news_claim"
        /\ pick' = pick
     \/ /\ ~ready
        /\ \E t \in Tracks : Queued(t) /\ pick' = t
        /\ pc' = "claiming"
        /\ ready' = ready
     \/ /\ ~ready
        /\ \A t \in Tracks : ~Queued(t)
        /\ pc' = "idle"
        /\ UNCHANGED <<pick, ready>>
  /\ UNCHANGED <<state, requestVars, air, verdict, current, decoder, skip,
                 control, lookVars, orphaned, bounds>>

\* The commit of _claim_next_track.  A row deleted since the SELECT makes the
\* UPDATE match nothing, which the ORM raises as an error.
CommitClaim ==
  /\ pc = "claiming"
  /\ ~RowLocked(pick)
  /\ IF Exists(pick)
     THEN /\ pc' = "claimed"
          /\ SetState(pick, "playing")
     ELSE /\ pc' = "erring"
          /\ UNCHANGED state
  /\ UNCHANGED <<requestVars, air, pick, verdict, current, decoder, skip, ready,
                 control, lookVars, orphaned, bounds>>

\* Mistake: whatever decoder is warmed up is taken.
AnyIsWarm(t) == prepared # None
\* What _take_prepared asks of the decoder the lookahead has started.
IsWarm(t) == prepared = t

(***************************************************************************)
(* _play_track and _take_prepared up to their first await: the warmed-up   *)
(* decoder is used if it is for the track that was claimed.  A row that    *)
(* the last tick left behind by failing is forgotten here.                 *)
(***************************************************************************)
BeginPlay ==
  /\ pc = "claimed"
  /\ skip' = FALSE
  /\ current' = pick
  /\ orphaned' = orphaned \cup {t \in Tracks : t = current /\ t # pick /\ Playing(t)}
  /\ prepared' = None
  /\ IF IsWarm(pick)
     THEN decoder' = prepared /\ pc' = "announcing"
     ELSE decoder' = None /\ pc' = "fetching"
  /\ UNCHANGED <<state, requestVars, air, pick, verdict, ready,
                 control, looking, peeked, bounds>>

\* _decoder_for on a cold start: the file arrives, or YouTube refuses it.
Fetch ==
  /\ pc = "fetching"
  /\ \/ pc' = "announcing" /\ decoder' = pick /\ verdict' = verdict
     \/ pc' = "finish_read" /\ decoder' = None /\ verdict' = "failed"
  /\ UNCHANGED <<state, requestVars, air, pick, current, skip, ready,
                 control, lookVars, orphaned, bounds>>

\* set_now_playing and SONG_STARTED, then the lookahead and the pump.
Announce ==
  /\ pc = "announcing"
  /\ air' = pick
  /\ pc' = "pumping"
  /\ looking' = TRUE
  /\ peeked' = None
  /\ UNCHANGED <<state, requestVars, pick, verdict, current, decoder, skip, ready,
                 control, prepared, orphaned, bounds>>

\* _pump returns: the decoder ran out, or the skip flag was seen.
PumpEnds ==
  /\ pc = "pumping"
  /\ \/ verdict' = "played"
     \/ skip /\ verdict' = "skipped"
  /\ decoder' = None
  /\ pc' = "closing"
  /\ UNCHANGED <<state, requestVars, air, pick, current, skip, ready,
                 control, lookVars, orphaned, bounds>>

\* Mistake: the lookahead of one track runs on into the next.
LeaveLookahead == UNCHANGED lookVars

\* _stop_lookahead: what it has prepared stays, what it was working for does not.
StopLookahead ==
  /\ looking' = FALSE
  /\ peeked' = None
  /\ prepared' = prepared

EndPlay ==
  /\ pc = "closing"
  /\ StopLookahead
  /\ pc' = "finish_read"
  /\ UNCHANGED <<state, requestVars, air, pick, verdict, current, decoder, skip, ready,
                 control, orphaned, bounds>>

\* _finish's SELECT.  Only a row seen playing gets a new state; of another
\* only ended_at is written.
FinishRead ==
  /\ pc = "finish_read"
  /\ IF Exists(pick)
     THEN /\ pc' = "finish_write"
          /\ verdict' = IF Playing(pick) THEN verdict ELSE "kept"
          /\ UNCHANGED <<pick, current>>
     ELSE pc' = "tick" /\ ForgetLocals /\ ForgetCurrent
  /\ UNCHANGED <<state, requestVars, air, decoder, skip, ready,
                 control, lookVars, orphaned, bounds>>

\* Mistake: the row is left as it is.
KeepsRow(t) == state' = state
\* Mistake: the state is written whatever the SELECT has seen.
EndWithVerdict(t) == SetState(t, verdict)
\* The states of a row as its track ends.
EndTrack(t) == IF verdict = "kept" THEN state' = state ELSE SetState(t, verdict)

\* _finish's UPDATE, by primary key: it overwrites what was committed since.
FinishWrite ==
  /\ pc = "finish_write"
  /\ ~RowLocked(pick)
  /\ IF Exists(pick)
     THEN EndTrack(pick) /\ pc' = "tick" /\ ForgetLocals /\ ForgetCurrent
     ELSE pc' = "erring" /\ UNCHANGED <<state, pick, verdict, current>>
  /\ UNCHANGED <<requestVars, air, decoder, skip, ready,
                 control, lookVars, orphaned, bounds>>

\* _idle: nothing to play, and nothing worth keeping prepared.
Idle ==
  /\ pc = "idle"
  /\ pc' = "tick"
  /\ air' = None
  /\ looking' = FALSE /\ peeked' = None /\ prepared' = None
  /\ UNCHANGED <<state, requestVars, pick, verdict, current, decoder, skip, ready,
                 control, orphaned, bounds>>

\* _play_bulletin: news.claim, and on the air if the room still wants it.
StartBulletin ==
  /\ pc = "news_claim"
  /\ \/ pc' = "tick" /\ UNCHANGED <<skip, decoder, air, looking, peeked>>
     \/ /\ pc' = "bulletin"
        /\ skip' = FALSE
        /\ decoder' = News
        /\ air' = News
        /\ looking' = TRUE /\ peeked' = None
  /\ UNCHANGED <<state, requestVars, pick, verdict, current, ready,
                 control, prepared, orphaned, bounds>>

\* The bulletin's pump returns, played out or skipped.
EndBulletin ==
  /\ pc = "bulletin"
  /\ pc' = "tick"
  /\ decoder' = None
  /\ StopLookahead
  /\ UNCHANGED <<state, requestVars, air, pick, verdict, current, skip, ready,
                 control, orphaned, bounds>>

(***************************************************************************)
(* Redis, PostgreSQL, the encoder or the disk fails under an await of      *)
(* _tick.  run catches it.                                                 *)
(***************************************************************************)
Running == {"tick", "claiming", "claimed", "fetching", "announcing", "pumping",
            "closing", "finish_read", "finish_write", "idle", "news_claim", "bulletin"}

TickFails ==
  /\ pc \in Running \ {"claimed"}
  /\ Happens("error")
  /\ pc' = "erring"
  /\ decoder' = None
  /\ UNCHANGED <<state, requestVars, air, pick, verdict, current, skip, ready,
                 control, lookVars, orphaned>>

\* run's handler: everything warmed up goes, the encoder is restarted, and
\* the track that was playing stays in _current_track_id.
Recover ==
  /\ pc = "erring"
  /\ pc' = "tick"
  /\ ForgetLocals
  /\ looking' = FALSE /\ peeked' = None /\ prepared' = None
  /\ UNCHANGED <<state, requestVars, air, current, decoder, skip, ready,
                 control, orphaned, bounds>>

\* The supervisor cancels the player at whatever await it is at.  A claim
\* that is committed but not yet in _current_track_id is not remembered.
Cancel ==
  /\ pc \in Running \cup {"erring"}
  /\ Happens("stop")
  /\ pc' = "stopping"
  /\ decoder' = None
  /\ ForgetLocals
  /\ orphaned' = orphaned \cup {t \in Tracks : pc = "claimed" /\ t = pick /\ Playing(t)}
  /\ UNCHANGED <<state, requestVars, air, current, skip, ready,
                 control, lookVars>>

\* run's finally block up to _requeue_current.  A control task that died of
\* an error raises it here, and the rest of the block does not run.
CleanUp ==
  /\ pc = "stopping"
  /\ looking' = FALSE /\ peeked' = None /\ prepared' = None
  /\ ready' = FALSE
  /\ IF control
     THEN pc' = "requeue_read" /\ UNCHANGED <<current, orphaned>>
     ELSE /\ pc' = "off"
          /\ current' = None
          /\ orphaned' = orphaned \cup {t \in Tracks : t = current /\ Playing(t)}
  /\ control' = FALSE
  /\ UNCHANGED <<state, requestVars, air, pick, verdict, decoder, skip, bounds>>

\* Mistake: the now-playing key is taken for what was playing.
Announced == current # None /\ air = current
\* What is given back: a track that is remembered and still playing.
Unfinished == \E t \in Tracks : t = current /\ Playing(t)

\* _requeue_current's SELECT.
RequeueRead ==
  /\ pc = "requeue_read"
  /\ ForgetCurrent
  /\ IF Unfinished
     THEN pc' = "requeue_write" /\ pick' = current
     ELSE pc' = "clearing" /\ pick' = None
  /\ UNCHANGED <<state, requestVars, air, verdict, decoder, skip, ready,
                 control, lookVars, orphaned, bounds>>

\* _requeue_current's UPDATE, by primary key.
RequeueWrite ==
  /\ pc = "requeue_write"
  /\ ~RowLocked(pick)
  /\ IF Exists(pick)
     THEN SetState(pick, "queued") /\ pc' = "clearing"
     ELSE state' = state /\ pc' = "off"
  /\ pick' = None
  /\ UNCHANGED <<requestVars, air, verdict, current, decoder, skip, ready,
                 control, lookVars, orphaned, bounds>>

\* The last line of run: the now-playing key.
ClearNowPlaying ==
  /\ pc = "clearing"
  /\ pc' = "off"
  /\ air' = None
  /\ UNCHANGED <<state, requestVars, pick, verdict, current, decoder, skip, ready,
                 control, lookVars, orphaned, bounds>>

\* The worker process dies: nothing of the player is left, and nothing is told.
Crash ==
  /\ pc # "off"
  /\ Happens("crash")
  /\ pc' = "off"
  /\ ForgetLocals /\ current' = None /\ decoder' = None
  /\ ready' = FALSE /\ control' = FALSE
  /\ looking' = FALSE /\ peeked' = None /\ prepared' = None
  /\ orphaned' = orphaned \cup {t \in Tracks : t \in {pick, current} /\ Playing(t)}
  /\ UNCHANGED <<state, requestVars, air, skip>>

\* _prepare_news has the next bulletin on disk.
NewsReady ==
  /\ pc \in Running \cup {"erring"}
  /\ ~ready
  /\ bulletins < MaxNews
  /\ bulletins' = bulletins + 1
  /\ faults' = faults
  /\ ready' = TRUE
  /\ UNCHANGED <<state, requestVars, air, pc, pick, verdict, current, decoder, skip,
                 control, lookVars, orphaned>>

-----------------------------------------------------------------------------
(***************************************************************************)
(* The control task (_watch_control) and its subscription.                 *)
(***************************************************************************)
DeliverSkip(e) ==
  /\ control
  /\ e \in channel
  /\ channel' = channel \ {e}
  /\ skip' = TRUE
  /\ UNCHANGED <<state, skipping, flushed, air, pc, pick, verdict, current, decoder, ready,
                 control, lookVars, orphaned, bounds>>

\* Redis delivers an event at most once.
LoseEvent(e) ==
  /\ e \in channel
  /\ Happens("lost")
  /\ channel' = channel \ {e}
  /\ UNCHANGED <<state, skipping, flushed, air, pc, pick, verdict, current, decoder, skip, ready,
                 control, lookVars, orphaned>>

\* The subscription's connection fails.  Nothing restarts the task.
ControlDies ==
  /\ control
  /\ Happens("error")
  /\ control' = FALSE
  /\ UNCHANGED <<state, requestVars, air, pc, pick, verdict, current, decoder, skip, ready,
                 lookVars, orphaned>>

(***************************************************************************)
(* The lookahead task (_lookahead_step): peek, then fetch and measure,     *)
(* then start a decoder once the current track is about to end.            *)
(***************************************************************************)
Peek ==
  /\ looking /\ peeked = None
  /\ \/ /\ \E t \in Tracks : /\ Queued(t)
                             /\ peeked' = t
                             /\ prepared' = IF prepared = t THEN t ELSE None
     \/ /\ \A t \in Tracks : ~Queued(t)
        /\ prepared' = None
        /\ peeked' = None
  /\ UNCHANGED <<state, requestVars, air, pc, pick, verdict, current, decoder, skip, ready,
                 control, looking, orphaned, bounds>>

Prepare ==
  /\ looking /\ peeked # None
  /\ peeked' = None
  /\ \/ prepared = None /\ prepared' = peeked
     \/ prepared' = prepared
  /\ UNCHANGED <<state, requestVars, air, pc, pick, verdict, current, decoder, skip, ready,
                 control, looking, orphaned, bounds>>

-----------------------------------------------------------------------------
\* What the player coroutine does by itself.
PlayerStep ==
  \/ Tick \/ CommitClaim \/ BeginPlay \/ Fetch \/ Announce \/ PumpEnds
  \/ EndPlay \/ FinishRead \/ FinishWrite \/ Idle \/ StartBulletin \/ EndBulletin
  \/ Recover \/ CleanUp \/ RequeueRead \/ RequeueWrite \/ ClearNowPlaying

Next ==
  \/ \E t \in Tracks : AddTrack(t) \/ RemoveTrack(t) \/ SkipRead(t)
  \/ SkipPublish \/ SkipCommit \/ SkipBulletin
  \/ StartPlayer
  \/ PlayerStep
  \/ TickFails \/ Cancel \/ Crash \/ NewsReady \/ ControlDies
  \/ \E e \in Tracks \cup {News} : DeliverSkip(e) \/ LoseEvent(e)
  \/ Peek \/ Prepare

Spec == Init /\ [][Next]_vars

(***************************************************************************)
(* The event loop runs every coroutine that can run, a pump ends when its  *)
(* decoder does, a request handler returns, and the supervisor's sweep     *)
(* starts a room that has listeners and no player.                         *)
(***************************************************************************)
Fairness ==
  /\ WF_vars(PlayerStep)
  /\ WF_vars(StartPlayer)
  /\ WF_vars(SkipPublish \/ SkipCommit)

FairSpec == Spec /\ Fairness

-----------------------------------------------------------------------------
(***************************************************************************)
(* What others see of it.                                                  *)
(***************************************************************************)

\* now_playing_state: what the page can show.  A playing row comes before the
\* bulletin, and the key is only asked when there is none.
Shown ==
  LET rows == {t \in Tracks : CurrentTrack(t)} IN
    IF rows # {} THEN rows ELSE IF air = News THEN {News} ELSE {None}

\* What the player has claimed and not let go of.
Held(t) ==
  \/ t = current
  \/ t = pick /\ pc \in {"claimed", "fetching", "announcing", "pumping", "closing",
                         "finish_read", "finish_write", "requeue_write"}

\* What waits to be claimed, or is about to be: a skip or another verdict that
\* comes between the two halves of a claim is overwritten by the second.
Waiting(t) == Queued(t) \/ (t = pick /\ pc = "claiming" /\ Exists(t))

\* The stage of a track, in Broadcast's words.
Stage(t) ==
  IF state[t] = "absent" THEN "outside"
  ELSE IF Held(t) THEN IF t = pick /\ pc \in {"claimed", "fetching"} THEN "claimed" ELSE "started"
  ELSE IF Waiting(t) THEN "waiting" ELSE "over"

Stages == [t \in Tracks |-> Stage(t)]

B == INSTANCE Broadcast WITH stage <- Stages, heard <- decoder

-----------------------------------------------------------------------------
(***************************************************************************)
(* Properties.                                                             *)
(***************************************************************************)

\* What is heard is the track that was claimed and is remembered as current,
\* its row says playing, or skipped or removed since; a decoder warmed up for
\* another track is never the one that is heard (_take_prepared).
HeardIsClaimed ==
  decoder \in Tracks =>
    /\ pc \in {"announcing", "pumping"}
    /\ decoder = pick /\ decoder = current
    /\ state[decoder] \in {"playing", "skipped", "removed"}

\* The track the player holds is not also waiting to be claimed again
\* (_requeue_current lets go of it before it gives it back).
OnAirNeverWaits ==
  current \in Tracks => state[current] \notin {"absent", "queued"}

\* The lookahead never warms up a second decoder for the track on air: what is
\* peeked at or prepared is another track.
NoSecondDecoder ==
  current \in Tracks => /\ peeked # current
                        /\ prepared # current

\* Every row left playing is the player's own, or was orphaned in one of four
\* ways: a crash, a stop right after the claim's commit, a stop after the
\* control task died, an error followed by another claim.
OrphansOnlyByFaults ==
  \A t \in Tracks : Playing(t) =>
    \/ t \in orphaned
    \/ t = current
    \/ t = pick /\ pc \in {"claimed", "requeue_write"}

\* Through errors, stops, crashes and lost events, no queued track waits for
\* ever: the loop of run gets back to the queue from wherever it was.
EveryTrackLeavesTheQueue ==
  \A t \in Tracks : Queued(t) ~> ~Queued(t)

\* The page shows what the room hears (now_playing_state), the database and the
\* key being written apart from each other and from the audio: a track on air
\* alone or, its row skipped or removed already, nothing; and a bulletin on air,
\* unless an error has left a track behind that still says playing.
ShowsWhatIsHeard ==
  orphaned = {} =>
    /\ pc = "pumping" => Shown = IF Playing(pick) THEN {pick} ELSE {None}
    /\ pc = "bulletin" /\ current = None => Shown = {News}

\* The player, with its tasks and through its faults, does nothing that the
\* room's broadcast does not promise: no track is heard unclaimed, twice for one
\* claim, after it is over, or while it waits.
ImplementsBroadcast == B!BroadcastSpec

\* A restart of the worker loses no room state (concept.md): once the player is
\* back at work, the only row that is playing is the one it plays.
RestartLosesNothing ==
  pc = "pumping" => \A t \in Tracks : Playing(t) => t = current

\* "A host skip already wrote SKIPPED; do not overwrite their verdict"
\* (_finish): once the host's skip is committed, the row stays skipped.
VerdictStands ==
  [][\A t \in Tracks : state[t] = "skipped" => state'[t] \in {"skipped", "removed"}]_state

\* The worker notices that its track is no longer playing and tears the pipe
\* down (skip's docstring): when the skip is committed and every event has been
\* handled, the skipped track is not the one being pumped.
SkipIsHeard ==
  pc = "pumping" /\ state[pick] = "skipped" => skip \/ channel # {}
=============================================================================
