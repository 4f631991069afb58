----------------------------- MODULE Bulletins -----------------------------
(***************************************************************************)
(* How often a room hears the news: app/news.py, and the player's task that *)
(* fetches a bulletin long before _tick puts it on air.                    *)
(*                                                                         *)
(* Whether a bulletin is due is asked when the fetch begins; when it goes   *)
(* on air, claim asks only whether the host still wants news.  What else a  *)
(* player does is Playback's subject.  Times count what has passed, up to   *)
(* the longest interval.                                                   *)
(***************************************************************************)
EXTENDS Naturals

CONSTANTS
  Intervals,     \* what news_interval_min may be, in ticks: a bulletin takes less
  NEWS_RETRY

Longest == CHOOSE n \in Intervals : \A m \in Intervals : m <= n
Shortest == CHOOSE n \in Intervals : \A m \in Intervals : n <= m

VARIABLES
  \* the room's row
  enabled, every,  \* news_enabled, news_interval_min
  since,           \* the time since news_last_played_at
  \* the player
  phase,           \* what _tick is doing
  news_at,         \* the time until it may ask again
  task,            \* _news_task
  ready,           \* _news_ready
  key,             \* _news_key is set, and its file protected
  \* bookkeeping
  least,           \* the shortest interval the room has had since its last bulletin
  slipped          \* a start has failed and left the key set

BulletinAssumption ==
  /\ Intervals \subseteq Nat \ {0}
  /\ \E n \in Intervals : \A m \in Intervals : m <= n
  /\ \E n \in Intervals : \A m \in Intervals : n <= m
  /\ NEWS_RETRY \in Nat

bulletinVars == <<enabled, every, since, phase, news_at, task, ready, key, least, slipped>>
host == <<enabled, every>>
clip == <<task, ready, key>>
past == <<since, least>>

BulletinTypeOK ==
  /\ enabled \in BOOLEAN /\ every \in Intervals
  /\ since \in 0 .. Longest /\ least \in Intervals
  /\ phase \in {"between", "choosing", "track", "claiming", "opening", "bulletin"}
  /\ news_at \in 0 .. NEWS_RETRY
  /\ task \in {"none", "asking", "fetching"}
  /\ ready \in BOOLEAN /\ key \in BOOLEAN /\ slipped \in BOOLEAN

BulletinInit ==
  /\ enabled = FALSE /\ every = Longest
  /\ since = Longest /\ least = Longest  \* it has never had one
  /\ phase = "between" /\ news_at = 0
  /\ task = "none" /\ ready = FALSE /\ key = FALSE /\ slipped = FALSE

-----------------------------------------------------------------------------
\* due: a room that has never had one is owed one.
due == enabled /\ since >= every

\* Mistake: a bulletin that waits for its turn does not stop the next question.
ForgetsReady == task = "none" /\ news_at = 0
\* _news_due.
NewsDue == ~ready /\ task = "none" /\ news_at = 0

\* _tick and the lookahead.
RequestNews ==
  /\ phase \in {"choosing", "track", "bulletin"}
  /\ NewsDue
  /\ news_at' = NEWS_RETRY
  /\ task' = "asking"
  /\ UNCHANGED <<host, past, phase, ready, key, slipped>>

\* _prepare_news up to the download.  Nobody is there, or the feed is down, or
\* its newest edition too long or too old.
Prepare ==
  /\ task = "asking"
  /\ \/ task' = "none" /\ UNCHANGED <<key, slipped>>
     \/ due /\ task' = "fetching" /\ key' = TRUE /\ slipped' = FALSE
  /\ UNCHANGED <<host, past, phase, news_at, ready>>

\* The download, which may fail, and the measurement.
Fetched ==
  /\ task = "fetching"
  /\ task' = "none"
  /\ \/ ready' = TRUE /\ UNCHANGED key
     \/ key' = FALSE /\ UNCHANGED ready
  /\ UNCHANGED <<host, past, phase, news_at, slipped>>

\* The top of _tick.
TickBegins ==
  /\ phase = "between"
  /\ phase' = IF ready THEN "claiming" ELSE "choosing"
  /\ ready' = FALSE
  /\ UNCHANGED <<host, past, news_at, task, key, slipped>>

PlayTrack == phase = "choosing" /\ phase' = "track"
                /\ UNCHANGED <<host, past, news_at, clip, slipped>>

\* claim, in _play_bulletin.
Claim ==
  /\ phase = "claiming"
  /\ IF enabled
     THEN phase' = "opening" /\ since' = 0 /\ least' = every /\ UNCHANGED key
     ELSE phase' = "between" /\ key' = FALSE /\ UNCHANGED past
  /\ UNCHANGED <<host, news_at, task, ready, slipped>>

Open == phase = "opening" /\ phase' = "bulletin" /\ UNCHANGED <<host, past, news_at, clip, slipped>>

\* The database, or the start of ffmpeg: run logs it and goes on.
PlayFails ==
  /\ phase \in {"claiming", "opening"}
  /\ phase' = "between"
  /\ slipped' = TRUE
  /\ UNCHANGED <<host, past, news_at, clip>>

PlayEnds ==
  /\ phase \in {"track", "bulletin"}
  /\ phase' = "between"
  /\ key' = (key /\ phase = "track")
  /\ UNCHANGED <<host, past, news_at, task, ready, slipped>>

\* _discard_news as the room is let go, or the worker's end; then a new player.
NewPlayer ==
  /\ phase' = "between" /\ news_at' = 0
  /\ task' = "none" /\ ready' = FALSE /\ key' = FALSE /\ slipped' = FALSE
  /\ UNCHANGED <<host, past>>

\* update.  ROOM_UPDATED makes the player ask again, unless it is lost.
SetNews ==
  /\ enabled' \in BOOLEAN /\ every' \in Intervals
  /\ least' = IF every' < least THEN every' ELSE least
  /\ news_at' \in {news_at, 0}
  /\ UNCHANGED <<since, phase, clip, slipped>>

\* NEWS_MAX_DURATION_S is 11 minutes, and no interval is under 15 (schemas.py).
Tick ==
  /\ phase # "claiming"
  /\ phase \in {"opening", "bulletin"} => since + 1 < Shortest
  /\ since' = IF since < Longest THEN since + 1 ELSE since
  /\ news_at' = IF news_at > 0 THEN news_at - 1 ELSE 0
  /\ UNCHANGED <<host, least, phase, clip, slipped>>

BulletinNext ==
  \/ RequestNews \/ Prepare \/ Fetched
  \/ TickBegins \/ PlayTrack \/ Claim \/ Open \/ PlayFails \/ PlayEnds
  \/ NewPlayer \/ SetNews \/ Tick

BulletinSpec == BulletinInit /\ [][BulletinNext]_bulletinVars

-----------------------------------------------------------------------------
\* The timestamp of claim "is the cadence" (news.py), though claim does not ask
\* whether the bulletin is due: two bulletins never start closer to each other
\* than the shortest interval the host has set in between.
NewsIsSpaced == [][Claim /\ phase' = "opening" => since >= least]_bulletinVars

\* A bulletin's file is protected from its fetch to its end and no longer,
\* unless a start that failed has left the key behind.
KeyFollowsClip ==
  LET wanted == task = "fetching" \/ ready \/ phase \in {"claiming", "opening", "bulletin"}
  IN (wanted => key) /\ (key => wanted \/ slipped)
=============================================================================
