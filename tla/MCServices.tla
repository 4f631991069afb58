----------------------------- MODULE MCServices -----------------------------
(***************************************************************************)
(* Services for TLC.                                                       *)
(***************************************************************************)
EXTENDS Services, TLC

\* A title of a hundred characters cannot hold more penalties than 502: the best
\* and the worst of an artist, and somebody unknown.
MCVideos == {"bestA", "bestB", "worstB", "unknown"}

Entry(words, good, artist) ==
  [words |-> words, dated |-> ~good, catalog |-> good, topic |-> good, verified |-> good,
   over |-> ~good, clip |-> ~good, artist |-> artist]

MCCatalogue == [v \in MCVideos |->
  CASE v = "bestA" -> Entry(0, TRUE, "A")
    [] v = "bestB" -> Entry(0, TRUE, "B")
    [] v = "worstB" -> Entry(502, FALSE, "B")
    [] v = "unknown" -> Entry(16, TRUE, None)]

\* A full match nobody has played, a half match everybody has, and one too long.
MCFound == {"all", "half", "long"}

Hit(words, length, plays) ==
  [words |-> words, titled |-> words, phrase |-> words = 2, extra |-> 6, official |-> FALSE,
   variant |-> 0, byArtist |-> FALSE, topic |-> FALSE, verified |-> FALSE,
   length |-> length, plays |-> plays]

MCListings == {<<"all", "half", "long">>, <<"long", "half", "all">>}

MCHits == [v \in MCFound |->
  CASE v = "all" -> Hit(2, "song", 3)
    [] v = "half" -> Hit(1, "song", 9)
    [] v = "long" -> Hit(2, "long", 9)]

\* Nothing tells these apart.
Alike == Permutations(Players) \cup Permutations(Keys) \cup Permutations(Slots)
=============================================================================
