# streamchen in TLA+

streamchen is a collaborative radio. The people in a room queue YouTube tracks,
vote on them and hear one stream; when nobody asks for anything the radio picks,
and on the hour there may be a news bulletin. It is a FastAPI application, a
playback worker (yt-dlp, ffmpeg), PostgreSQL, Redis and Icecast.

This directory holds TLA+ modules translated from that code, the TLC runs that
check them on small instances, and proofs that hold for every size. References
such as `player.py:572` are to `src/app/...`, `README.md` and `concept.md` to `src/`.

- [Inventory](#inventory)
- [Modules](#modules)
- [Runs, bounds and fairness](#runs-bounds-and-fairness)
- [What the code does otherwise than it says](#what-the-code-does-otherwise-than-it-says)
- [Proofs](#proofs)
- [What is not modelled, and the plan](#what-is-not-modelled-and-the-plan)

## Inventory

| Part | State it keeps | Operations | Correct when | Modelled in |
|---|---|---|---|---|
| Play order, `scheduling.py` | none | `order_queue` | nobody's second track before another's first; a total order; promotions on top | `Scheduling` |
| Room queue, `api/routers/queue.py`, `moderation.py`, `service.py` | `tracks`, `votes`, `listeners`, `bans` | add, remove, vote, skip, promote, ban, unban, join | cap and duplicate checks still mean something at the insert; a ban leaves nothing; what is shown is what plays | `RoomQueue` |
| Player, `worker/player.py` | one coroutine and its control, lookahead and news tasks; the `playing` row; the now-playing key | claim, pump, finish, idle, bulletin, requeue | what is heard is what was claimed; no row left behind; skip is heard; always back to the queue; the page shows it | `Playback`, `Broadcast` |
| Supervisor, `worker/supervisor.py` | active rooms, one Redis lock per room | sweep, acquire, renew, release | one source per room; a room with listeners has one in the end | `Supervisor` |
| Presence, `events.py`, `api/routers/ws.py` | two sorted sets with expiry | mark present, mark absent, heartbeat | a room is live while somebody listens | `Presence`, `Stream` |
| Audio cache, `worker/cache.py`, `tasks.py`, `download.py` | one directory for all rooms | find, fetch, release, sweep, evict, purge | no file deleted that somebody opens; one writer per file | `AudioCache` |
| Radio, `autoplay.py` | none of its own | `pick`, `top_up` | only into an empty queue, behind every request; nothing heard again while there is something new; it plays on | `RoomQueue`, `Radio` |
| News, `news.py` | two columns of the room, the player's news task | pending, claim | at most one bulletin per interval; its file protected as long as it is wanted | `Bulletins`, `Playback` |
| Rate limits, `ratelimit.py`, `api/guards.py` | counters and strikes in Redis | check, strike, clear | a refusal ends; only who floods is muted | `Limits` |
| Rooms API, `api/routers/rooms.py`, `api/deps.py` | the room's row, its listeners | create, update, delete, join, me | capacity; who is host | `Admission`, `Supervisor` |
| Chat, `chat.py`, `api/routers/chat.py`, `static/app.js` | a capped list in Redis | post, history, live event | what the history holds is shown | `Chat` |
| YouTube, `youtube.py` | caches in Redis | search, metadata, mixes | ranking; length limit; a mix that does not walk in circles | `Search`, `Mix`, `Radio` |
| Views, pages, avatars, configuration, audio filters, database set-up | little or none | | | see the end |

How they interact: a request handler writes PostgreSQL inside one transaction
and publishes a hint on the room's Redis channel *before* it commits. The player
reads its queue from PostgreSQL, listens on the channel for skips, and writes
its own rows in short transactions of its own. Page views and sockets mark
sessions present in Redis; the supervisor reads which rooms are live there and
which of them are on in PostgreSQL, starts a player for every such room it gets
the lock of, and cancels it otherwise. The radio and the lookahead run inside the
player's process, and the players of a process share a directory of files.

What is hard, with the properties that watch it, is listed line by line under
`hazards` in `PROJECT.json`: reads that are stale after an `await`, two
transactions over one row, events delivered late or never,
cancellation between two awaits, a crash at any of them.

## Modules

| Module | What it is |
|---|---|
| `Scheduling` | the play order, as operators over a finite set of candidates |
| `RoomQueue` | one room's rows and every handler that writes them |
| `MCRoomQueue` | symmetry and views of `RoomQueue` for TLC |
| `Playback` | one room's player against the rows |
| `Broadcast` | what a room's playback promises; `Playback` implements it |
| `Supervisor` | the workers, their locks in Redis and the rooms' rows |
| `Presence` | who is in a room and which rooms are live, one Redis command at a time |
| `Stream`, `MCStream` | `Supervisor` and `Presence` composed |
| `AudioCache` | one directory, several players and their downloads |
| `Bulletins` | how often a room hears the news |
| `Limits` | one listener's windows and strikes |
| `Admission` | seats in a room |
| `Chat` | messages, the history, and one page that reads them |
| `Mix` | the pool behind a mix link |
| `Radio` | how the radio chooses from a pool |
| `Search` | a search, the caches it fills and what may be queued from it |
| `Services`, `MCServices` | the eight before, side by side in one specification for one run, and `Presence` |
| `Scheduling_proofs`, `RoomQueue_proofs`, `Playback_proofs`, `Supervisor_proofs`, `Stream_proofs`, `AudioCache_proofs`, `Services_proofs` | theorems |
| `Presence_proofs` | the lemmas about `Presence` that `Stream_proofs` and `Services_proofs` share |

Some definitions carry the comment "Mistake". They are not the code: each is a
plausible wrong version of the definition below it, and substituting it must
make a named property fail (`mutants` in `PROJECT.json`).

### Scheduling

`order_queue` groups candidates by submitter, sorts each group by `_own_order`,
numbers it, and sorts everything by `(-priority, round, -score, created_at, id)`.
A track's round is the number of its submitter's tracks ahead of it
(`RoundIndex`); the sort keys are tuples, compared as Python compares them
(`TupleLess`). The module never builds the sorted list: `Ahead` is the order and
`Heads` its first entry, which is all anyone asks for.

### RoomQueue

`rows` is the `tracks` table, indexed by id in order of insertion, so the id is
also `created_at`. `votes`, `members` (the `listeners` table), `muted` (a
`shadow_banned_until` in the future) and `banned` are the others. `requests`
holds, for every HTTP request in flight, what it has read so far and will act
on. `checked_at` in a row and `raced` are bookkeeping for the properties.

**The row lock.** The session autoflushes (`database.py:75`). `touch_listener`
and `join_room` write `room.last_active_at`, so the first query of the handler
proper sends `UPDATE rooms`, and the transaction holds that row until `get_db`
commits (`deps.py:34`). Handlers of one room therefore run one after another,
and `Unlocked` is a guard of each. What comes before runs freely: `is_banned`
(`Enter`), then `get_listener` (`LookUp`). The worker and the radio do not wait
either: an insert into `tracks` takes only a key-share lock on the room, which an
update of a non-key column allows.

So a handler is one action, unless a step of the worker or the radio can get
between its reads and its write; then it is `Begin...` and `Commit...`, with the
request carrying what was read: `add_track` (which awaits YouTube in between),
`remove_track`, `promote`. The ORM updates and deletes by primary key, so the
commit acts on the row whatever has become of it.

`Ban` deletes the listener's row. A request of theirs that had read the row
fails on its next flush; one that had found no row, or had only passed the ban
check, goes on and joins again. This is why `Ban` looks at other requests.

`Abandon` stands for every refusal by what the module leaves out: a locked
queue, voting disabled, a full room, a rate limit, YouTube. Refusals only roll
back, so leaving out their conditions adds behaviours and removes none. `Mute`
is the one refusal that writes: it mutes and is committed
(`guards.py:40`). `MuteExpires` may happen at any time.

`ClaimNextTrack`, `Finish` and `Requeue` are what the player does to the rows,
each in one step; `Playback` takes them apart.

### Playback

`pc` names the await the player is suspended at, and each stretch between two
awaits that touches shared state is one action: `Tick`, `CommitClaim`,
`BeginPlay`, ... down to the finally block of `run` (`Cancel`, `CleanUp`,
`RequeueRead`, `RequeueWrite`, `ClearNowPlaying`). `_finish` and
`_requeue_current` are a SELECT and an UPDATE each, with the handlers in between.
`skipping` and `flushed` are the host's request: it has read the current track,
then its UPDATE is sent and the event published, then it commits; while the row
is locked the player's own UPDATE of it waits (`RowLocked`). Only one skip is in
flight at a time because of the room's row lock.

Faults are actions: `TickFails` (an exception under any await), `Cancel` (the
supervisor), `Crash`, `LoseEvent`, `ControlDies` (the control task's connection).

`Shown` is what `now_playing_state` answers (`api/playback.py:99`), from the rows
first and from the now-playing key only when no row is playing.

What it abstracts: which queued track is first, since votes and promotions may
change that between two reads (any read of the queue returns any queued track);
files and downloads, except that one may fail; the encoder.

### Broadcast

What a room may count on: one thing is heard at a time; a track is heard only after
a claim took it from the queue, at most once per claim, never once it is over;
what waits is not heard. `Playback` implements it under the mapping `Stage`: a
track is *waiting* while its row is queued and the player does not hold it,
*claimed* from the commit of the claim to its decoder, *started* from then (or
from the failure that skipped the decoder) until the player lets go of it, *over*
afterwards, whatever its row says; *heard* is the decoder.

### Supervisor

`sweep`, `entry`, `source` and `renewer` are one worker's coroutines, taken apart
at their awaits: a sweep releases what has crashed, reads the live rooms
(`ReadLive`), reads their rows (`SelectRooms`), acquires one room after another
(`Acquire`); a release cancels the player (`Cancelled`), reads the lock's holder
(`CheckHolder`) and deletes the key (`DeleteLock`); a renewer reads the holder
(`RenewGet`) and pushes the expiry on (`RenewExpire`). `source[w]` is the rooms
whose encoder of `w` is on the mount. A worker that dies (`Crash`) or exits
(`Terminate`, `Exit`) comes back under a new id, so its locks are `Gone`'s.

Leases count down in `Tick`. One tick is the longest a renewer leaves between two
renewals, a third of `worker_lock_ttl_s` (`_renew`), so a lease of `LOCK_TTL`
ticks needs `LOCK_TTL >= 2` for what the code relies on (it has 3); the runs use
the hardest case. A tick waits while a worker is in the middle of a renewal, of a
release's GET and DELETE or of the two reads of a sweep (`WorkersRest`), all of
which take far less than ten seconds; but not for one that is held up (`Stall`),
whose steps wait while ticks go by.

`live` is only read here and changes as it likes (`LiveChanges`); the query of
`_rooms_needing_playback` is `Matches` and `Answers`, its limit included.

### Presence and Stream

A *visit* is one call: a page view, the life of a socket (ban check, join,
subscribe, mark present, READY, heartbeats, close), or a ban with its
`mark_absent` and its event. `mark_present` is two commands, `mark_absent` up to
four steps (`Remove`, `Grace`, `Recount`, `Extend`), and other visits get in
between. Scores are times left, counted down by `Tick`.

Faults are actions here too: the API process dies (`ApiCrash`), Redis fails under
a heartbeat (`HeartbeatDies`: nothing restarts the task, and its error keeps the
handler from `mark_absent`), READY cannot be sent (`ReadyFails`), Redis is cleared
(`FlushPresence`).

`Stream` is the two together: one `live`, one clock, page views that need the
room's row and touch its `last_active_at`. It shows that what `Supervisor`
supposes of presence is enough (`SupervisorSpec`: each step of the composition is
a step of `Supervisor`), so that what is proved of `Supervisor` holds of it.

### The services

`Services` is not a system but a list: nine modules that share no state, of which
`focus` picks one at the start. It saves runs, nothing more.

- `AudioCache`: a player fetches, opens and releases its video, its lookahead the
  next one; a player's own two requests share one task (`SharedTasks`), two
  players' do not; a cancelled wait leaves yt-dlp's thread running. A file is
  named by its video, `.part` files are there while a thread writes.
- `Bulletins`: whether a bulletin is due is asked when its fetch begins; on air,
  minutes later, `claim` asks only whether news is on.
- `Limits`: INCR and EXPIRE are two steps; a crash may come between them.
- `Admission`: a newcomer is counted before the await after which it joins.
- `Chat`: a message is stored, then told; the page fetches the history when it
  loads and when its socket reopens, and takes the socket for open before the
  server has subscribed.
- `Mix`: a refresh reads the pool, asks YouTube for the next window, writes back.
- `Radio`: scores are integers, titles are the sum of their penalties. Which pool
  wins (`playlist_share`) and which candidate is drawn are choices.
- `Search`: scores in half points; plays by their number of digits, as the code
  takes their logarithm.

## Runs, bounds and fairness

Deadlock is checked in all of them. Times are for two TLC workers.

| Run | Instance | States | Shows |
|---|---|---|---|
| `queue` | host, one voting guest, 3 tracks, 3 videos, cap 1, one request at a time | 664k, 1.5 min | `TypeOK`, `FirstBeforeSecond`, `PendingBounded`, `SeenIsPlayed` |
| `queue_promote` | no votes, promotions up to priority 2 | 740k, 1 min | `PromotionLeads` |
| `queue_overlap` | two requests at a time, 2 tracks, 1 video | 291k, 40 s | `DuplicatesAreTheRadios`, `BannedLeaveNothing` |
| `queue_turns` | no votes, 3 tracks, cap 2 | stops | `EveryonesTurn` violated |
| `queue_ban` | two requests, 2 tracks, 1 video | stops | `BannedStayOut` violated |
| `playback` | 2 tracks, 1 bulletin, 2 faults of any kind | 515k, 2 min | six invariants, `EveryTrackLeavesTheQueue`, `ImplementsBroadcast` |
| `playback_restart` | one crash | stops | `RestartLosesNothing` violated |
| `playback_skip` | no faults | stops | `SkipIsHeard` violated |
| `playback_verdict` | no faults | stops | `VerdictStands` violated |
| `supervisor` | 2 workers, 1 room, a lease of 2, one mishap of any kind | 55k, 1 min | `OneSource`, `AstrayEnds`, `RoomIsServed`, `RoomIsDropped` |
| `stream` | 1 worker, 1 room, 1 session with 2 calls at a time, one mishap | 348k, 45 s | `SocketIsPresent`, `SweepsSpareListeners`, `SupervisorSpec` |
| `services` | each service by itself | 461k, 1.5 min | sixteen properties, listed below |

Why the bounds are enough. Rounds need a submitter with two tracks and another
with one: three tracks, which also make room for the host, who has no cap. The
cap of one lets it be reached, refused and overrun. Two priorities are needed
for one promotion to top another, and a third value, the radio's -1, is there
anyway. Races between requests need two of them, and the tracks they race over
are two. Two tracks in `Playback` are the one on air and the one prepared; two
faults let one hit the recovery from the other. `MaxTracks`, `MaxPriority`,
`MaxFaults` and `MaxNews` only bound the search, none is in the code; the
theorems hold for every value of them.

`supervisor`: a worker's failure hands the room to another, so two workers; a
lease of two renewals can be lost by one that is late. A second room would only
be another copy: locks, renewers and releases are per room, and `LIMIT` is what
rooms share. It is not reached in the runs, where there are as many rooms as it
allows; past it (`supervisor.py:268`: 200 rooms, in no order) a room with
listeners can drop out of one sweep's answer and be torn down, which no document
excludes. `stream`: two calls at a time are what a reload, two tabs or a ban need;
the room has one session, as `Presence` with two is in `services`. Its ticks keep
the order of the code's times (grace 15 s, heartbeat 30 s, presence 60 s) and not
their ratios.

`services`, by module, with its instance:

| Module | Instance | Properties |
|---|---|---|
| `Presence` | 2 sessions, 2 calls at a time | `LiveOutlastsPresence`: whoever is present, the room is live as long, unless a call was cut off half-way; `BannedAreTold`: a ban's event reaches every socket that had subscribed |
| `AudioCache` | 2 players, 2 videos, 2 threads, room for 1 file | `FoundFilesStay`: a file is there when its decoder opens, unless another room has just ended the same video; `OneWriterPerPlayer`: play loop and lookahead never download one video twice at a time |
| `Bulletins` | intervals of 2 and 3 | `NewsIsSpaced`: two bulletins are the shortest interval set meanwhile apart; `KeyFollowsClip`: a protected file is one that is wanted, unless a start has failed |
| `Limits` | 2 requests at once, limit 1, mute at 3 strikes | `CountersExpire`: a counter has an expiry, unless a request was cut between its two commands; `MutedForFlooding`: three refusals within the strike window, whatever overlapped |
| `Admission` | 4 newcomers, 2 joining at once, limits 1 and 2 | `Overbooking`: hosts and sockets apart, the limit is passed by fewer than there are joins in flight |
| `Chat` | 2 messages, a history of 1 | `PageIsWhole`: a page that waits for nothing shows the history, but for what its gap has swallowed |
| `Mix` | 3 videos, windows of 2, a pool of 2, 2 refreshes | `PoolClimbs`: a refresh that nobody overtook loses nothing of the pool; `LapEnds`: what is walked stays within it |
| `Radio` | 4 videos, by two artists and by somebody unknown, at the extremes of what a title can score | `TiersHold`: no score makes up for a replay or a cooldown; `RadioPlaysOn`: it falls silent only with nothing to play among the first it tries |
| `Search` | a full match, a half match with all the plays, and one too long | `PlaysBuyNothing`: neither plays nor a refused length lift a hit above a better one; `TooLongIsRefused`: what is too long is not queued, unless its own page names no length |

The catalogues in `MCServices` are extremes on purpose: a title has at most a
hundred characters, so its penalties cannot exceed 502, and the best title carries
none.

The two views (`MCRoomQueue`) forget what nothing asks for any more: a track that
is over (but, where requests overlap, whose it was), `started_at`, of
`checked_at` everything but its comparison with the live tracks of its video, and
of the videos everything but who shares one with whom. Where there are two
request slots, symmetry is over them. `EveryonesTurn` reads `started_at` and is
checked without a view. One video is enough where requests overlap: two videos
never meet in a duplicate check, and a listener can still own a track that is
over and one that waits.

Fairness. In `Playback`: the player's steps (the event loop runs what can
run, a pump ends when its decoder does, a row lock ends with its transaction),
`StartPlayer` (the supervisor sweeps every few seconds and the room is taken to
have listeners), and the two remaining steps of a skip (a handler returns).
Nothing is assumed of the control task, the lookahead, votes or event delivery.

In `Supervisor`: weak fairness of each worker's sweep, of its exit, restart and
return from being held up (Compose restarts it), and of each room's release and
renewer: all are coroutines of one event loop. Time passes: `SF(Tick)`, with
`[]<>WorkersRest`, which says that workers are not for ever, in turns, inside
steps that take milliseconds. Nothing is assumed of listeners or of the rooms'
rows; `RoomIsServed` is about a room that stays on and live.

Faults are bounded in both, as liveness under endless faults is not to be had.
The other modules state safety only.

## What the code does otherwise than it says

Each is a run that TLC finds violated, listed in `PROJECT.json` under `findings`.

- **`EveryonesTurn`**. README.md:27: "everyone's first song plays before
  anyone's second, however many they queue". Rounds are counted over what is
  pending *now*. Ann queues two tracks, the first is claimed, so her second is
  in round 0; Bob's first, queued a moment later, loses the tie on creation time.
  What does hold, of every queue at every moment, is `FirstBeforeSecond`.
- **`BannedStayOut`**. A request past `is_banned` and not yet past
  `get_listener` when the ban commits joins again (`deps.py:72-97`) and leaves a
  track in the queue, against moderation.py:93 and models.py:168. What does hold
  is `BannedLeaveNothing`: this is the only way.
- **`RestartLosesNothing`**. A claim is committed before anything else, and after
  a crash no code ever looks at a `playing` row again; concept.md:103 says any
  service may restart without losing room state. `OrphansOnlyByFaults` lists all
  the ways this comes about, some without a crash: a cancellation right after
  the commit (`player.py:572`), an error in mid-track followed by another claim,
  a control task that died and raises its error out of the finally block
  (`player.py:271`).
- **`SkipIsHeard`**. `_skip.clear()` (`player.py:584`) comes after the claim is
  visible: a skip of the new track that is delivered before it is forgotten, and
  the track plays on though its row says skipped.
- **`VerdictStands`**. `_finish` reads the state and then updates by key; a skip
  committed in between is overwritten, against the comment at player.py:782.

Some more was met while modelling. The models have it; the properties name it as
their exception, or it is outside of them:

- The heartbeat of a socket dies on one error of Redis (ws.py:35) and nothing
  restarts it; awaiting it in the finally block raises again, past `mark_absent`
  (ws.py:130). READY is sent before the `try` (ws.py:113): a send that fails
  leaves the session present for its whole time.
- Closing the old socket of a reloaded page, or one of two tabs, marks the
  session absent under the other, until its next heartbeat: `undercut`, the
  exception in `SocketIsPresent`. The room's grace is shorter than that.
- Clearing Redis empties the live rooms, and sweeps tear down rooms with listeners
  until their heartbeats, up to half a minute. The locks go too, so for a moment
  there may be two sources: `astray`, the exception in `OneSource`.
- `cache.release` deletes by id and asks nobody (cache.py:90), although
  cache.py:36 wants keys "nothing may delete, whoever is asking": `released`, the
  exception in `FoundFilesStay`. The glob takes another room's `.part` with it.
- A bulletin whose `claim` or decoder raises leaves `_news_key` set: `slipped`, the
  exception in `KeyFollowsClip`.
- The history of the chat, "fetched once on arrival and again after a dropped
  socket, which is what makes a missed live message cost nothing"
  (api/routers/chat.py:39), is fetched when the browser's socket opens and not
  when the server has subscribed; a message told in between is missed until the
  next reconnect. A fetch that fails is not repeated. `missed` in `PageIsWhole`.
- A mix whose hop fails asks for the same hop again at its next refresh
  (youtube.py:888), and two refreshes at once lose one window (youtube.py:906).
- INCR and EXPIRE are two commands (ratelimit.py:37): a crash between them leaves
  a counter that never expires. Capacity is counted before the join (deps.py:94),
  and a socket joins without counting (ws.py:97).
- playback.py:63 says a playing row and a bulletin "can never both be true": an
  error in mid-track leaves the row, and the bulletin goes out under its title.
- A listener who is muted with a track in the queue silences the radio: the track
  counts as pending in `top_up` (autoplay.py:343) and nobody plays it, until it is
  removed. No property: no document promises a limit to it.
- `update` and `add_track` wake the worker before their transaction commits
  (rooms.py:182, queue.py:206); a sweep that is quicker reads the old row. It costs
  one sweep interval.
- queue.py:88 has a hit the room would refuse "never above one it would accept",
  which the penalty of 45 points does not secure for every pair of hits;
  models.py:94 has the news columns stop an edition from "being played twice",
  which news.py:272 does on purpose.

## Proofs

TLAPS checks them for every set of listeners, videos, tracks and requests, every
cap and every bound. Every safety invariant and every action property that a
passing run checks is a theorem, and so are both refinements; what the runs add
is liveness, and that the interesting states are really reached. Each inductive
invariant was an invariant of a run before it was proved.

What is assumed of the constants is named, and TLC evaluates it on its instances:

| Assumption | Says | Because |
|---|---|---|
| `ListenersAssumption`, `BoundsAssumption`, `NoneAssumption` (`RoomQueue`), `TracksAssumption`, `BoundsAssumption` (`Playback`) | finite sets, natural bounds, `None` is nobody | |
| `SupervisorAssumption` | a lease is two renewals or more | three in the code |
| `PresenceAssumption` | heartbeats come before a mark runs out; the grace is not longer than a mark | 30 s (`ws.py:38`), 60 s and 15 s (`events.py:36,44`) |
| `StreamAssumption` | the supervisor may read any time a room can have left | both read one sorted set |
| `CacheAssumption` | `None` is neither a player nor a video | |
| `BulletinAssumption` | there is a shortest and a longest interval | `schemas.py:39` keeps `news_interval_min` within 15 and 720 |
| `LimitAssumption` | windows and the number of strikes are positive | settings |
| `AdmissionAssumption` | there is a largest limit, and somebody may join | `schemas.py:34` keeps `max_listeners` within 1 and 10000 |
| `RadioAssumption` | a title's penalties add up to 502 at most | YouTube allows a title a hundred characters, which hold no more of the penalised words |
| `SearchAssumption` | a query has a word; a hit cannot contain more than all of them | `youtube.py:709`: an empty query is answered without a search |

**`Scheduling_proofs`.** `FirstsBeforeSeconds`: with an own track ahead of it, a
candidate's round is positive, since `OwnAhead` is finite and not empty; a first
track's round is 0; so of the two keys the second field decides, or the first.
`AheadIsTotal` and `AheadIsTransitive`: the key ends in the id, so the order is
a strict total order and a queue's head does not depend on how its rows were read.
`EveryQueueHasOneHead` then takes the candidate with the fewest before it, for
finite sets are not reached by induction here. `OwnTracksKeepTheirOrder`: what is
ahead of a submitter's earlier track is ahead of their later one too, and so is
the earlier one itself, so the rounds grow along `_own_order`.
`OthersDoNotReorder`: a round counts its own submitter's tracks only.

**`RoomQueue_proofs`.**
- `TypeCorrect` is inductive only together with `Locking`: at most one request
  is inside a handler, which is what a `Commit` relies on when it finds its
  request's phase. `TypeOK /\ Locking` is under everything else.
- `FirstBeforeSecondAlways` then follows from `FirstsBeforeSeconds`, for the
  queue of every listener and the worker's.
- `DuplicatesAreTheRadiosAlways` needs `Checks`: no row has an id that was not
  dealt yet, nothing was checked later than now, and a row of the video that a
  request or the radio is about to insert can only have appeared since its check;
  for a request it is then the radio's, as no other handler can have run.
- `PendingBoundedAlways` needs `OneOnAir` (at most one row is playing) and
  `Capped`: a listener has at most one live row more than the cap, and none more
  while a request of theirs is about to add one.
- `BannedLeaveNothingAlways` needs `Gone`: besides what the property says, a
  banned listener outside `raced` has no request in flight that could still join.
- `SeenIsPlayedAlways` is an action property: only a claim makes a queued track
  playing (`MostStepsAreQuiet` disposes of the other steps), and for a listener
  without muted tracks of their own the two queues are the same set.
- `PromotionLeadsAlways`: only its own commit ends a promotion and changes a row
  (`OnlyItsCommitEndsAPromotion`), and as the maximum it has read still bounds
  what is pending, its track is alone at its priority (`PromotedLeads`).

**`Playback_proofs`.** One inductive invariant, `IInv`, gives all of them. On top
of `TypeOK` and the four properties it says, for each place the player can be
suspended at, what its locals, `current` and the row they name may be
(`LocalsAgree`, `ClaimedBegun`), where the lookahead may run
(`LookaheadConfined`), and that a verdict is only withheld from a row that is
over (`KeptIsOver`).

- `ShowsWhatIsHeardAlways` follows from what `IInv` says of the now-playing key in
  each place, as long as nothing is orphaned.
- `ImplementsBroadcastAlways` is the refinement, for any number of tracks and
  faults: `BroadcastInitially`, and `BroadcastStep`, which goes through the
  actions of `Next` and names for each the step of `Broadcast` it is. Steps in
  which several tracks leave at once (a crash, a ban's cascade) are all `LetGo`,
  by one lemma (`LeavingIsLetGo`).

**`Supervisor_proofs`.** For any number of workers and rooms and any lease of two
renewals or more.
- `TypeCorrect` is inductive by itself.
- `OneSourceAlways` needs two invariants. `Sources`: whoever has a room's source
  holds its lock or is `astray`; every action that takes a lock away adds its
  victims. `Calm`: as long as nothing has gone wrong, a worker with a room's source
  holds its lock and has a renewer, the lease is whole while the renewer sleeps
  (after one tick it is due, and no second tick passes before it has renewed; this
  is where `LOCK_TTL >= 2` is needed), and whoever is about to delete a lock holds
  it.

**`Presence_proofs`.** One inductive invariant, for any rooms, sessions and calls,
over every interleaving of single Redis commands:
- `Kept`: a socket's mark outlasts the wait for its next heartbeat, unless another
  call has taken it out, and then it is out altogether, not merely short.
- `Heard`: a room with such a socket is live beyond that heartbeat, or a
  `mark_absent` that has counted it is about to extend the room.
- `Told`: from its ban check on, a socket of a banned session is sent the event.
- `LiveOutlastsPresence` itself, which is inductive only for rooms that no call
  left half-way. With three sockets the proof found a state the runs are too
  small for: a room that a call has torn stays torn though its marks are renewed
  one after the other, so an undercut socket stays excused for as long as its room
  is torn (`AgePresence`).

**`Stream_proofs`.**
- `StreamRefinesSupervisor`: every step of the composition is one of
  `Supervisor`, where the listeners' commands are its `LiveChanges` and page views
  its `Touch`. So `OneSource` holds of it as well (`StreamHasOneSource`).
- `SocketIsPresentAlways`, from `Presence_proofs`; `FlushPresence`, which only
  `Stream` has, is part of that invariant's step.
- `SweepsSpareListenersAlways` needs two more: whoever is entering a room has
  touched its row within the tick (`Entered`), and so a sweep that has read the
  live rooms has this room among them or will find the row touched (`Seen`). It
  has a hypothesis, `Unhindered`: no worker is held up between the two reads, the
  grace of a touched room is not zero, and the query's 200 rooms are all there
  are. Without the first or the last the sentence is false of the code, and the
  run makes the same choice.

**`AudioCache_proofs`.** `CacheIsSafe`. A player looks ahead only while it plays,
and a thread that still has a player is among that player's tasks
(`WritersPend`): so a second request for the same video finds the first.

**`Services_proofs`.** `StepsOfParts`: a step of one part leaves the others alone.
Each part then has its invariant, and properties from it.
- News (`NewsInv`): a bulletin that is being fetched, ready or claimed was due by
  the shortest interval set since, and none is fetched while one is on the air.
  This gives `NewsIsSpacedAlways` and `KeyFollowsClipAlways`.
- Limits: the counter of strikes never exceeds the refusals since it was set
  (`Counting`), and the request that finds it full has been refused itself
  (`Striking`). This gives `MutedForFloodingAlways`; `Expiring` gives
  `CountersExpireAlways`.
- Admission: seats taken, and joins that have counted and not sat down, together
  stay under the bound (`AdmissionInv`); the count is made with cardinalities.
- Chat: a message that was told is shown, in the page's inbox, in an answer under
  way, still to be read, or missed (`OnItsWay`).
- Mix (`MixInv`): what a refresh holds in its hands is a pool and a walk within
  it; if it is not the pool any more, somebody has written in between.
  `LapEndsAlways`, `PoolClimbsAlways`.
- Radio (`RadioInv`): nothing that could be played outranks the pick by more than
  the draw's band. A rank is a sum between -860 and 32 less 1000 for a cooldown
  and 5000 for a replay (`RankTiers`), so neither tier is bridged. The ranking is
  any sequence sorted by rank and, among equals, by the pool's order; the draw any
  permutation of those that tie (`RankingIsSorted`, `DrawStaysInBand`).
- Search (`Ranked`): an answer is sorted by score. A score is one part for the
  words, one for what two alike hits share, one for the length, and at most 88
  half points for the rest (`ScoreParts`): less than the 90 of a length that is
  refused, and with 100 for half the words less than the 200 for all of them.
  `SearchInv` gives `TooLongIsRefusedAlways`: a length in the cache is the
  listing's own or the page's.
- `ServicesTypeOKAlways` puts the parts together. That a walk is at most one
  longer than a pool can be is counted (`WalkIsShort`).

Only model-checked: the liveness properties (`EveryTrackLeavesTheQueue`,
`AstrayEnds`, `RoomIsServed`, `RoomIsDropped`), which rest on fairness and
ENABLED. That the sorted ranking of `Radio` and `Search` exists for every pool is
induction over data; that it is never missing in the instances is what the runs
show, for otherwise the search or the pick would be stuck. The violated properties
have counterexamples and need no proof.

## What is not modelled, and the plan

Left out of the modules above, deliberately:
- `RoomQueue`: the capacity of a room, the two switches and the rate limits
  (they only refuse); deletion of a room; ties of `created_at` are by insertion.
- `Playback`: shadow rows; the order of the queue; with several `playing` rows
  after a fault, which of them `current_track` returns; after a dead control
  task, what the old player's lookahead and encoder go on doing; how long
  `news.claim` waits for the room's row, which it updates; the seconds into a
  track.
- `Supervisor`: what a player does (a room's source is there or not), and
  wake-ups, which only make a sweep come early. Pruning of idle rooms is
  `DeleteRoom`, which the API can do at any time as well.
- `Presence`: `LISTENER_JOINED` and `LISTENER_LEFT` of others, which pages only
  show.
- `AudioCache`: sizes and ages: as many files go as the budget asks for, any but
  the spared, and a sweep takes any of the unprotected. A decoder needs its file
  when it opens it and not later, an open file outliving its name.
- `Chat`: `chat_enabled` off, where the history is empty, and muted senders, whose
  messages go nowhere.
- `Search` and `Mix`: one query, one link. Links, titles and durations are not
  parsed, and playlists behind a plain cache of an hour are not there.

Not modelled at all, and why:
- ffmpeg's command lines, Icecast and the loudness measurement: subprocesses whose
  behaviour is outside this code; that a measurement is shared by those who ask
  for it at once is the same `SharedTasks` as in `AudioCache`.
- Connection pools, the additive schema reconciliation at start-up, settings:
  they run once, before anything else does. What the session's autoflush means
  for concurrency is in `RoomQueue`.
- Templates, rendering, and the browser client but for its socket and its chat.
- Parsing of feeds and of yt-dlp's answers: strings in, records out.
- Names, avatars, the contact form, text helpers, the session cookie, assembly of
  the application: no state that a step could break.

What is left: larger instances, namely more rooms than the supervisor's query
answers with, and two sessions in `Stream`; and of the proofs, that `Presence`,
the cache and the other services keep their promises when they are composed with
the player, which they share no variable with yet.
