-------------------------------- MODULE Radio --------------------------------
(***************************************************************************)
(* How the radio chooses from a pool: song_score (app/youtube.py), and      *)
(* rank_pool, draw and pick (app/autoplay.py).  What runs beside a pick is   *)
(* RoomQueue's subject.                                                     *)
(*                                                                         *)
(* A candidate is what its title and its listing say of it: the sum of the  *)
(* penalties of the words and phrases in its title, a few marks, and who it *)
(* is by (artist_key), None if nobody can say.                             *)
(***************************************************************************)
EXTENDS Integers, Sequences, FiniteSets, SequencesExt, Functions

CONSTANTS
  Videos, Artists, None,
  Histories,       \* bound: how many tracks recent_tracks gives
  Outings,         \* bound: how many of them are by one artist
  Catalogue,       \* [words, dated, catalog, topic, verified, over, clip, artist] of each video
  PICK_FROM_TOP, MAX_CANDIDATES

ARTIST_REPEAT_PENALTY == 25
ARTIST_REPEAT_CAP == 250
COOLDOWN_PENALTY == 1000
REPLAY_PENALTY == 5000
DRAW_BAND == 40
ARTIST_COOLDOWN == 8
PLAYLIST_ONLY_UNTIL == 5
PLAYLIST_SETTLES_AFTER == 20
PLAYLIST_SHARE_FLOOR == 70

\* A title of a hundred characters cannot hold more penalties than 502.
RadioAssumption ==
  /\ None \notin Artists \cup Videos \cup {"no pool", "nothing yet"}
  /\ {"no pool", "nothing yet"} \cap Videos = {}
  /\ Catalogue \in [Videos -> [words : 0 .. 502, dated : BOOLEAN, catalog : BOOLEAN, topic : BOOLEAN,
                               verified : BOOLEAN, over : BOOLEAN, clip : BOOLEAN,
                               artist : Artists \cup {None}]]
  /\ Outings \subseteq Nat
  /\ PICK_FROM_TOP \in Nat /\ MAX_CANDIDATES \in Nat

VARIABLES
  candidates,   \* the pool, in the order upstream gave it
  source,       \* "playlist" or "mix"
  queued,       \* queued_youtube_ids
  recent,       \* ids of the last HISTORY_WINDOW tracks
  outings,      \* artist_counts
  blocked,      \* who is on cooldown
  dead,         \* which of them the metadata turns down
  picked        \* "no pool", "nothing yet", a video, or None

radioVars == <<candidates, source, queued, recent, outings, blocked, dead, picked>>

If(b, n) == IF b THEN n ELSE 0

song_score(v) ==
  LET c == Catalogue[v] IN
    If(c.catalog, 14) + If(c.topic, 14) + If(c.verified, 4)
      - c.words - If(c.dated, 18) - If(c.over, 60) - If(c.clip, 30)

Repeats(n) == IF n * ARTIST_REPEAT_PENALTY < ARTIST_REPEAT_CAP THEN n * ARTIST_REPEAT_PENALTY ELSE ARTIST_REPEAT_CAP

OnCooldown(v) == Catalogue[v].artist \in blocked

\* rank_pool: rank.
Rank(v) ==
  LET artist == Catalogue[v].artist IN
    song_score(v) - If(artist # None, Repeats(outings[artist]))
      - If(OnCooldown(v), COOLDOWN_PENALTY) - If(v \in recent, REPLAY_PENALTY)

\* Mistake: what the room has heard is left out.
OnlyUnheard(v) == v \notin queued \cup recent
Eligible(v) == v \notin queued

\* rank_pool, one sequence: the best first, and the pool's order among equals.
Better(i, j) == \/ Rank(candidates[i]) > Rank(candidates[j])
                \/ Rank(candidates[i]) = Rank(candidates[j]) /\ i < j
rank_pool ==
  LET those == {i \in DOMAIN candidates : Eligible(candidates[i])}
      orders == {o \in [1 .. Cardinality(those) -> those] :
                   Range(o) = those /\ \A i, j \in DOMAIN o : i < j => Better(o[i], o[j])}
  IN {[i \in DOMAIN o |-> candidates[o[i]]] : o \in orders}

Top == IF source = "playlist" THEN Len(candidates) ELSE PICK_FROM_TOP

\* Mistake: all of the top is shuffled.
AnyOfTop(ranked, i) == i <= Top
InBand(ranked, i) == i <= Top /\ Rank(ranked[1]) - Rank(ranked[i]) <= DRAW_BAND

\* draw: those that tie for best in any order, then the rest.
Draws(ranked) ==
  LET tied == {i \in DOMAIN ranked : InBand(ranked, i)}
  IN {[i \in DOMAIN ranked |-> ranked[IF i \in tied THEN p[i] ELSE i]] :
        p \in {f \in [tied -> tied] : Range(f) = tied}}

-----------------------------------------------------------------------------
RadioInit ==
  /\ candidates = <<>> /\ source = "mix"
  /\ queued = {} /\ recent = {} /\ blocked = {} /\ dead = {}
  /\ outings = [a \in Artists |-> 0]
  /\ picked = "no pool"

\* _playlist_pool and _mix_pool: a link or a seed that fails is left out, and a
\* pool all of whose links or seeds fail is not there.  A mix needs a history.
Pools(played) == {pools \in SUBSET {"playlist", "mix"} : played = 0 => "mix" \notin pools}

\* How many picks of a hundred are the playlist's.
playlist_share(played) ==
  CASE played <= PLAYLIST_ONLY_UNTIL -> 100
    [] played >= PLAYLIST_SETTLES_AFTER -> PLAYLIST_SHARE_FLOOR
    [] OTHER -> 100 - ((100 - PLAYLIST_SHARE_FLOOR) * (played - PLAYLIST_ONLY_UNTIL))
                        \div (PLAYLIST_SETTLES_AFTER - PLAYLIST_ONLY_UNTIL)

\* pick: the pool it draws from, whichever way random.random() falls.
Source(pools, played) ==
  IF "mix" \in pools /\ playlist_share(played) < 100 THEN pools
  ELSE IF "playlist" \in pools THEN {"playlist"} ELSE pools

\* What a history can say of the artists: nobody is counted more often than
\* tracks were played, and a short one is all on cooldown.
Consistent(played) ==
  /\ SumFunction(outings') <= played
  /\ blocked' = {a \in Artists : outings'[a] > 0} \/ played > ARTIST_COOLDOWN
  /\ \A a \in Artists : Cardinality({v \in recent' : Catalogue[v].artist = a}) <= outings'[a]

\* pick, down to the call of rank_pool.
Fetch ==
  /\ picked = "no pool"
  /\ candidates' \in {s \in [1 .. 3 -> Videos] : IsInjective(s)}
  /\ queued' \in {{candidates'[1]}, {}}
  /\ recent' \in SUBSET (Range(candidates') \ queued')
  /\ outings' \in [Artists -> Outings]
  /\ blocked' \in SUBSET Artists
  /\ \E played \in Histories :
       /\ Consistent(played)
       /\ \E pools \in Pools(played) : source' \in Source(pools, played)
  /\ picked' = "nothing yet"
  /\ UNCHANGED dead

\* Neither has anything, and the radio has no pick.
NoPool ==
  /\ picked = "no pool"
  /\ picked' = None
  /\ UNCHANGED <<candidates, source, queued, recent, outings, blocked, dead>>

\* pick: the first of MAX_CANDIDATES that YouTube knows and the room accepts.
Pick ==
  /\ picked = "nothing yet"
  /\ dead' \in SUBSET Range(candidates)
  /\ \E ranked \in rank_pool : \E drawn \in Draws(ranked) :
       LET n == IF Len(drawn) < MAX_CANDIDATES THEN Len(drawn) ELSE MAX_CANDIDATES
           alive == {i \in 1 .. n : drawn[i] \notin dead'}
       IN picked' = IF alive = {} THEN None ELSE drawn[CHOOSE i \in alive : \A j \in alive : i <= j]
  /\ UNCHANGED <<candidates, source, queued, recent, outings, blocked>>

\* The pick is queued; what the room comes to by the next one is open.
Done ==
  /\ picked \in Videos \cup {None}
  /\ candidates' = <<>> /\ source' = "mix"
  /\ queued' = {} /\ recent' = {} /\ blocked' = {} /\ dead' = {}
  /\ outings' = [a \in Artists |-> 0]
  /\ picked' = "no pool"

RadioNext == Fetch \/ NoPool \/ Pick \/ Done

RadioSpec == RadioInit /\ [][RadioNext]_radioVars

-----------------------------------------------------------------------------
Alive == {v \in Range(candidates) : v \notin queued \cup dead}

\* The penalties are tiers (autoplay.py): "anything not heard yet, then a band the
\* room has just had, then an outright replay", and neither the scores nor the
\* draw reaches across one: a replay is picked only when nothing else can be
\* played, and somebody on cooldown only when all else is a replay.
TiersHold ==
  picked \in Videos =>
    /\ picked \in recent => Alive \subseteq recent
    /\ OnCooldown(picked) /\ picked \notin recent => \A v \in Alive \ recent : OnCooldown(v)

\* "A ten-song playlist has to be allowed to come round again rather than fall
\* silent" (rank_pool): with something to play among the first it tries of the
\* pool it has chosen, the radio plays.
RadioPlaysOn ==
  picked = None => Alive = {} \/ Len(candidates) > MAX_CANDIDATES
=============================================================================
