-------------------------------- MODULE Search --------------------------------
(***************************************************************************)
(* Looking for a song and queueing it: score_candidate, rank_candidates,    *)
(* search_music and fetch_metadata (app/youtube.py) for one query, and the  *)
(* two caches in Redis they share with add_track (app/api/routers/queue.py) *)
(* and the radio.                                                          *)
(*                                                                         *)
(* A hit is what its listing says of it; scores are in half points, and     *)
(* plays are counted by their digits.                                      *)
(***************************************************************************)
EXTENDS Integers, Sequences, SequencesExt

CONSTANTS
  Found,    \* the videos YouTube answers the query with
  Listings, \* bound: the orders it lists them in
  Hits,     \* [words, titled, phrase, extra, official, variant, byArtist, topic,
            \*  verified, length, plays] of each
  WORDS,    \* how many words the query has
  RESULTS   \* search_results

Lengths == {"unknown", "clip", "song", "long"}

SearchAssumption ==
  /\ WORDS \in Nat \ {0} /\ RESULTS \in Nat
  /\ Hits \in [Found -> [words : 0 .. WORDS, titled : 0 .. WORDS, phrase : BOOLEAN, extra : Nat,
                         official : BOOLEAN, variant : Nat, byArtist : BOOLEAN, topic : BOOLEAN,
                         verified : BOOLEAN, length : Lengths, plays : Nat]]
  /\ Listings \subseteq Seq(Found)

VARIABLES
  answer,     \* _search_key: a list of [id, length], or "none"
  meta,       \* _metadata_key: the length that is cached for each video, or "none"
  catalogue,  \* which of them the music search has named
  tracks,     \* what has been queued
  \* bookkeeping
  unsaid      \* videos whose own page has named no length

searchVars == <<answer, meta, catalogue, tracks, unsaid>>
NoAnswer == <<"none">>

SearchInit ==
  /\ answer = NoAnswer
  /\ meta = [v \in Found |-> "none"]
  /\ catalogue = {} /\ tracks = {} /\ unsaid = {}

-----------------------------------------------------------------------------
Points(b, n) == IF b THEN n ELSE 0

\* Mistake: plays count by their number.
CountsPlays(digits) == 10 ^ digits
\* min(12, max(0, log10 - 4) * 1.5).
Popularity(digits) ==
  CASE digits <= 4 -> 0 [] digits >= 12 -> 24 [] OTHER -> 3 * (digits - 4)

\* A hit as its listing gives it, which may name no length.
score_candidate(hit, named) ==
  LET h == Hits[hit.id] IN
    (200 * h.words) \div WORDS + (40 * h.titled) \div WORDS - 60 * (WORDS - h.words)
      + Points(h.phrase, 24) - h.extra + Points(h.official, 16) - h.variant
      + Points(hit.id \in named, 28) + Points(h.byArtist, 32) + Points(h.topic, 24) + Points(h.verified, 12)
      - Points(hit.length = "long", 90) - Points(hit.length = "clip", 50)
      + Popularity(h.plays)

\* One answer: the best first, and the listing's order among equals, RESULTS of
\* them at most.
rank_candidates(hits, named) ==
  LET Score(i) == score_candidate(hits[i], named)
      Better(i, j) == Score(i) > Score(j) \/ (Score(i) = Score(j) /\ i < j)
      orders == {o \in [DOMAIN hits -> DOMAIN hits] :
                   Range(o) = DOMAIN hits /\ \A i, j \in DOMAIN o : i < j => Better(o[i], o[j])}
  IN {[i \in {n \in DOMAIN o : n <= RESULTS} |-> hits[o[i]]] : o \in orders}

\* Mistake: a result is kept for add_track with or without a length.
KeepsAll(length) == TRUE
\* "Only where the listing was complete".
Complete(length) == length # "unknown"

\* What a video's own page has not said, as long as that matters.
Still(vs) == unsaid' = {v \in vs : v \in tracks' \/ meta'[v] = "unknown"}

\* A hit of the listing; `gaps` are listed without a length.
Listed(v, gaps) == [id |-> v, length |-> IF v \in gaps THEN "unknown" ELSE Hits[v].length]

\* _gather_candidates: the videos in their order.  The music search, which may
\* fail by itself, names some of them, or none.
Gathered(gaps) == {[i \in DOMAIN found |-> Listed(found[i], gaps)] : found \in Listings}
Named == SUBSET Found

\* search_music of a query nobody has asked for a while.
Search ==
  /\ answer = NoAnswer
  /\ catalogue' \in Named
  /\ \E gaps \in SUBSET Found : \E hits \in Gathered(gaps) : \E ranked \in rank_candidates(hits, catalogue') :
       /\ answer' = ranked
       /\ meta' = [v \in Found |->
                     LET hit == Listed(v, gaps) IN
                     IF hit \in Range(ranked) /\ Complete(hit.length) THEN hit.length ELSE meta[v]]
  /\ UNCHANGED tracks
  /\ Still(unsaid)

\* add_track and the radio: fetch_metadata, from the cache or from the video's
\* own page, and then the room's limit.  A page that cannot be read changes nothing.
Add(v) ==
  /\ v \notin tracks
  /\ \E length \in IF meta[v] # "none" THEN {meta[v]} ELSE {Hits[v].length, "unknown"} :
       /\ meta' = [meta EXCEPT ![v] = length]
       /\ tracks' = IF length = "long" THEN tracks ELSE tracks \cup {v}
       /\ Still(IF meta[v] = "none" THEN unsaid \cup {v} ELSE unsaid)
  /\ UNCHANGED <<answer, catalogue>>

\* The tracks have been played.
Played == tracks # {} /\ tracks' = {} /\ UNCHANGED <<answer, meta, catalogue>> /\ Still(unsaid)

AnswerExpires ==
  /\ answer # NoAnswer
  /\ answer' = NoAnswer /\ catalogue' = {}
  /\ UNCHANGED <<meta, tracks, unsaid>>

MetadataExpires(v) ==
  /\ meta[v] # "none"
  /\ meta' = [meta EXCEPT ![v] = "none"]
  /\ UNCHANGED <<answer, catalogue, tracks>>
  /\ Still(unsaid)

SearchNext ==
  \/ Search \/ Played \/ AnswerExpires
  \/ \E v \in Found : Add(v) \/ MetadataExpires(v)

SearchSpec == SearchInit /\ [][SearchNext]_searchVars

-----------------------------------------------------------------------------
\* Two hits that differ in their words, their length and their plays only.
Alike(v, w) ==
  LET Rest(u) == [Hits[u] EXCEPT !.words = 0, !.titled = 0, !.phrase = FALSE,
                                 !.length = "song", !.plays = 0]
  IN Rest(v) = Rest(w) /\ (v \in catalogue) = (w \in catalogue)

\* "A hit missing half the words of the query cannot climb back with view counts"
\* (score_candidate), and of two that are otherwise alike the one the room would
\* refuse for its length is not above (rank_candidates).
PlaysBuyNothing ==
  answer # NoAnswer =>
    \A i, j \in DOMAIN answer : i < j /\ Alike(answer[i].id, answer[j].id) =>
      LET above == Hits[answer[i].id]
          below == Hits[answer[j].id]
      IN /\ ~(2 * above.words <= WORDS /\ below.words = WORDS /\ answer[i].length = answer[j].length)
         /\ ~(answer[i].length = "long" /\ answer[j].length = "song" /\ above.words = below.words)

\* No track that is too long gets into the queue by way of a search that did not
\* know its length (search_music keeps complete entries only), nor otherwise,
\* unless the video's own page names no length.
TooLongIsRefused ==
  \A v \in tracks : Hits[v].length = "long" => v \in unsaid
=============================================================================
