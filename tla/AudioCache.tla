----------------------------- MODULE AudioCache -----------------------------
(***************************************************************************)
(* The directory of app/worker/cache.py, which all rooms of a worker share *)
(* although each room's player fetches, plays and releases for itself      *)
(* (Downloads and the lookahead of app/worker/player.py, SharedTasks of    *)
(* app/worker/tasks.py, download_audio of app/worker/download.py).         *)
(*                                                                         *)
(* A file is named by its video.  A player holds one video to play and one *)
(* to play next; what it does with them is Playback's subject.  A decoder  *)
(* opens its file when it is started and needs it no longer: what matters  *)
(* is whether the file is there then.                                      *)
(***************************************************************************)
EXTENDS Naturals, FiniteSets

CONSTANTS
  Players,   \* one per room the worker has
  Keys,      \* the videos
  None,
  Slots,     \* bound: the threads of asyncio.to_thread
  Budget     \* how many files fit the budget

VARIABLES
  disk,      \* the complete files
  thread,    \* yt-dlp at work: for whom, on what, and whether its .part is there
  pending,   \* the keys of Downloads._tasks of each player
  at,        \* what the player does with its current video
  current, next,   \* current_youtube_id, next_youtube_id
  ahead,     \* the lookahead: it waits, fetches, or measures a file it has found
  prepared,  \* the video of _prepared, or None
  \* bookkeeping
  released   \* what another player has released under a player that had found it

CacheAssumption == None \notin Players \cup Keys

cacheVars == <<disk, thread, pending, at, current, next, ahead, prepared, released>>
player == <<at, current>>
look == <<next, ahead, prepared>>

Free == [of |-> None, key |-> None, part |-> FALSE]

CacheTypeOK ==
  /\ disk \subseteq Keys
  /\ thread \in [Slots -> {Free} \cup [of : Players \cup {None}, key : Keys, part : BOOLEAN]]
  /\ pending \in [Players -> SUBSET Keys]
  /\ at \in [Players -> {"idle", "fetching", "opening", "playing"}]
  /\ current \in [Players -> Keys \cup {None}]
  /\ next \in [Players -> Keys \cup {None}]
  /\ ahead \in [Players -> {"waiting", "fetching", "measuring"}]
  /\ prepared \in [Players -> Keys \cup {None}]
  /\ released \subseteq Players \X Keys

CacheInit ==
  /\ disk = {} /\ thread = [i \in Slots |-> Free]
  /\ pending = [p \in Players |-> {}]
  /\ at = [p \in Players |-> "idle"]
  /\ current = [p \in Players |-> None] /\ next = [p \in Players |-> None]
  /\ ahead = [p \in Players |-> "waiting"]
  /\ prepared = [p \in Players |-> None]
  /\ released = {}

\* RoomPlayer.protected_keys, and the supervisor's union of them.
Protected(p) == ({current[p], next[p], prepared[p]} \ {None}) \cup pending[p]
protected_keys == UNION {Protected(p) : p \in Players}

\* Mistake: only the asking room's own keys are spared.
SpareOwn(p, ks) == ks \cup Protected(p)
\* _spared.
Spared(p, ks) == ks \cup protected_keys

\* enforce_budget: as many as it takes of those that are not spared.
Evictions(p, had, ks) ==
  LET loose == had \ Spared(p, ks)
      excess == IF Cardinality(had) > Budget THEN Cardinality(had) - Budget ELSE 0
  IN {gone \in SUBSET loose : Cardinality(gone) = excess \/ (gone = loose /\ Cardinality(loose) < excess)}

\* The keys a player is about to open a decoder on, having found the file.
Located(p) == {k \in Keys : (at[p] = "opening" /\ current[p] = k) \/ (ahead[p] = "measuring" /\ next[p] = k)}

-----------------------------------------------------------------------------
(***************************************************************************)
(* Downloads.                                                              *)
(***************************************************************************)
\* Mistake: whoever asks starts a download.
NobodyElseIs(p, k) == TRUE
\* SharedTasks.run: the second caller of a player waits on the first.
StartsDownload(p, k) == k \notin pending[p]

\* Downloads.fetch of a file that is not there.
Ask(p, k) ==
  IF StartsDownload(p, k)
  THEN \E i \in Slots :
         /\ thread[i] = Free
         /\ thread' = [thread EXCEPT ![i] = [of |-> p, key |-> k, part |-> TRUE]]
         /\ pending' = [pending EXCEPT ![p] = @ \cup {k}]
  ELSE UNCHANGED <<thread, pending>>

\* The play loop and the lookahead of p, if they wait for k, go on.
Answered(p, k, then) ==
  /\ at' = [at EXCEPT ![p] = IF @ = "fetching" /\ current[p] = k THEN then ELSE @]
  /\ current' = [current EXCEPT ![p] = IF at[p] = "fetching" /\ @ = k /\ then = "idle" THEN None ELSE @]
  /\ ahead' = [ahead EXCEPT ![p] = IF @ = "fetching" /\ next[p] = k THEN "waiting" ELSE @]

\* The .part becomes the file; a player that still has the task then fits the
\* directory into the budget.  `keep` is what else it protected when it asked.
Downloaded(i) ==
  LET p == thread[i].of
      k == thread[i].key
  IN /\ thread[i].part
     /\ thread' = [thread EXCEPT ![i] = Free]
     /\ IF p = None
        THEN disk' = disk \cup {k} /\ UNCHANGED <<pending, at, current, ahead>>
        ELSE /\ pending' = [pending EXCEPT ![p] = @ \ {k}]
             /\ \E keep \in SUBSET Keys : \E gone \in Evictions(p, disk \cup {k}, keep \cup {k}) :
                  disk' = (disk \cup {k}) \ gone
             /\ Answered(p, k, "opening")
     /\ UNCHANGED <<next, prepared, released>>

\* YouTubeError: yt-dlp's own, or its .part was unlinked and cannot be renamed.
\* What the play loop waited for has failed; the lookahead asks again.
DownloadFails(i) ==
  LET p == thread[i].of
      k == thread[i].key
  IN /\ thread[i] # Free
     /\ thread' = [thread EXCEPT ![i] = Free]
     /\ IF p = None THEN UNCHANGED <<pending, at, current, ahead>>
        ELSE pending' = [pending EXCEPT ![p] = @ \ {k}] /\ Answered(p, k, "idle")
     /\ UNCHANGED <<disk, next, prepared, released>>

-----------------------------------------------------------------------------
(***************************************************************************)
(* One player.                                                             *)
(***************************************************************************)
\* _play_track up to _take_prepared: a decoder that was prepared for this
\* video is on air at once, one for another is closed and the file fetched.
Start(p, k) ==
  /\ at[p] = "idle"
  /\ current' = [current EXCEPT ![p] = k]
  /\ prepared' = [prepared EXCEPT ![p] = None]
  /\ IF prepared[p] = k
     THEN at' = [at EXCEPT ![p] = "playing"] /\ UNCHANGED <<thread, pending>>
     ELSE IF k \in disk
     THEN at' = [at EXCEPT ![p] = "opening"] /\ UNCHANGED <<thread, pending>>
     ELSE at' = [at EXCEPT ![p] = "fetching"] /\ Ask(p, k)
  /\ UNCHANGED <<disk, next, ahead, released>>

\* _open_decoder, on the path that fetch returned.
Open(p) ==
  /\ at[p] = "opening"
  /\ at' = [at EXCEPT ![p] = "playing"]
  /\ released' = released \ {<<p, current[p]>>}
  /\ UNCHANGED <<disk, thread, pending, current, look>>

\* _lookahead_step up to its first long wait.
LookAhead(p, k) ==
  /\ at[p] = "playing" /\ ahead[p] = "waiting"
  /\ next' = [next EXCEPT ![p] = k]
  /\ prepared' = [prepared EXCEPT ![p] = IF @ = k THEN @ ELSE None]
  /\ IF k = None THEN UNCHANGED <<thread, pending, ahead>>
     ELSE IF k \in disk
     THEN ahead' = [ahead EXCEPT ![p] = "measuring"] /\ UNCHANGED <<thread, pending>>
     ELSE ahead' = [ahead EXCEPT ![p] = "fetching"] /\ Ask(p, k)
  /\ UNCHANGED <<disk, player, released>>

\* measure has returned: a decoder is started on the path found before, if the
\* end of the current track is near and there is none yet.
Measured(p) ==
  /\ ahead[p] = "measuring"
  /\ ahead' = [ahead EXCEPT ![p] = "waiting"]
  /\ \/ UNCHANGED prepared
     \/ prepared[p] = None /\ prepared' = [prepared EXCEPT ![p] = next[p]]
  /\ released' = released \ {<<p, next[p]>>}
  /\ UNCHANGED <<disk, thread, pending, player, next>>

\* The end of _play_track: stop looking ahead and _release, whoever else has the
\* file, and the .part of whoever else is downloading it.
PlayEnds(p) ==
  LET k == current[p] IN
  /\ at[p] = "playing"
  /\ disk' = disk \ {k}
  /\ thread' = [i \in Slots |-> IF thread[i].key = k THEN [thread[i] EXCEPT !.part = FALSE] ELSE thread[i]]
  /\ at' = [at EXCEPT ![p] = "idle"]
  /\ current' = [current EXCEPT ![p] = None]
  /\ ahead' = [ahead EXCEPT ![p] = "waiting"]
  /\ released' = (released \ {<<p, k>>}) \cup {<<q, k>> : q \in {q \in Players \ {p} : k \in Located(q)}}
  /\ UNCHANGED <<pending, next, prepared>>

\* The supervisor drops the room: the player's own tasks are cancelled, the
\* threads are not.
Drop(p) ==
  /\ thread' = [i \in Slots |-> IF thread[i].of = p THEN [thread[i] EXCEPT !.of = None] ELSE thread[i]]
  /\ pending' = [pending EXCEPT ![p] = {}]
  /\ at' = [at EXCEPT ![p] = "idle"] /\ ahead' = [ahead EXCEPT ![p] = "waiting"]
  /\ current' = [current EXCEPT ![p] = None] /\ next' = [next EXCEPT ![p] = None]
  /\ prepared' = [prepared EXCEPT ![p] = None]
  /\ released' = {m \in released : m[1] # p}
  /\ UNCHANGED disk

-----------------------------------------------------------------------------
(***************************************************************************)
(* The directory.                                                          *)
(***************************************************************************)
\* AudioCache.sweep, by every sweep of the supervisor.  A file may be past its
\* ttl_s as soon as it is there: yt-dlp gives it the server's date.
SweepCache ==
  \E gone \in SUBSET (disk \ protected_keys) \ {{}} :
    disk' = disk \ gone /\ UNCHANGED <<thread, pending, player, look, released>>

\* purge: a worker starts with an empty directory and no players.
Purge ==
  /\ disk # {}
  /\ disk' = {} /\ thread' = [i \in Slots |-> Free]
  /\ pending' = [p \in Players |-> {}]
  /\ at' = [p \in Players |-> "idle"] /\ ahead' = [p \in Players |-> "waiting"]
  /\ current' = [p \in Players |-> None] /\ next' = [p \in Players |-> None]
  /\ prepared' = [p \in Players |-> None]
  /\ released' = {}

CacheNext ==
  \/ \E i \in Slots : Downloaded(i) \/ DownloadFails(i)
  \/ \E p \in Players :
       \/ \E k \in Keys : Start(p, k)
       \/ \E k \in Keys \cup {None} : LookAhead(p, k)
       \/ Open(p) \/ Measured(p) \/ PlayEnds(p) \/ Drop(p)
  \/ SweepCache \/ Purge

CacheSpec == CacheInit /\ [][CacheNext]_cacheVars

-----------------------------------------------------------------------------
(***************************************************************************)
(* Properties.                                                             *)
(***************************************************************************)

\* "A busy room's eviction can take the file the room next door is about to
\* play" (AudioCache.protected) does not happen: a player that has found a file
\* and opens a decoder on it some awaits later finds it there, whatever
\* downloads, evictions and sweeps of other rooms came in between, unless
\* another room has played the same video to its end meanwhile.
FoundFilesStay ==
  \A p \in Players : \A k \in Located(p) : k \in disk \/ <<p, k>> \in released

\* "Two yt-dlp processes writing one path would corrupt it" (Downloads): one
\* player's play loop and lookahead never have two at work on one video.
OneWriterPerPlayer ==
  \A i, j \in Slots : i # j /\ thread[i] # Free /\ thread[i].of # None
                       => <<thread[i].of, thread[i].key>> # <<thread[j].of, thread[j].key>>
=============================================================================
