-------------------------------- MODULE Mix --------------------------------
(***************************************************************************)
(* A station behind a mix link (mix_candidates, app/youtube.py): a pool in  *)
(* Redis that refreshes widen by one window each, walking from video to     *)
(* video.  Any number of rooms may have pasted the same link, and a refresh *)
(* reads the pool, asks YouTube, and writes the pool back.                 *)
(***************************************************************************)
EXTENDS Naturals, Sequences, SequencesExt

CONSTANTS
  Videos, Seed,   \* Seed: the video the link names
  Callers,        \* bound: refreshes at one time
  MIX_WINDOW, MIX_POOL_CAP

VARIABLES
  pool, walked,   \* _mix_key
  fresh,          \* _mix_fresh_key
  refresh,        \* what each caller has read, while it waits for YouTube
  \* bookkeeping
  overtaken       \* callers whose read is older than the last write

mixVars == <<pool, walked, fresh, refresh, overtaken>>

Idle == [hop |-> Seed, pool |-> <<>>, walked |-> <<>>, at |-> "idle"]

Distinct(n) == {s \in UNION {[1 .. k -> Videos] : k \in 0 .. n} : IsInjective(s)}

MixTypeOK ==
  /\ pool \in Distinct(MIX_POOL_CAP) /\ walked \in Distinct(MIX_POOL_CAP + 1)
  /\ fresh \in BOOLEAN
  /\ \A c \in Callers : refresh[c].at \in {"idle", "asking"} /\ refresh[c].hop \in Videos
  /\ overtaken \subseteq Callers

MixInit ==
  /\ pool = <<>> /\ walked = <<>> /\ fresh = FALSE
  /\ refresh = [c \in Callers |-> Idle]
  /\ overtaken = {}

-----------------------------------------------------------------------------
\* _next_hop: the first of the pool that has not been a seed, or another lap.
Frontier == {i \in DOMAIN pool : pool[i] \notin Range(walked)}
Hop == IF Frontier = {} THEN Seed ELSE pool[CHOOSE i \in Frontier : \A j \in Frontier : i <= j]
Walk == IF Frontier = {} THEN <<Seed>> ELSE Append(walked, Hop)

\* mix_candidates up to its await.  A pool that is fresh is returned as it is.
Ask(c) ==
  /\ refresh[c].at = "idle"
  /\ pool = <<>> \/ ~fresh
  /\ refresh' = [refresh EXCEPT ![c] = [hop |-> Hop, pool |-> pool, walked |-> Walk, at |-> "asking"]]
  /\ overtaken' = overtaken \ {c}
  /\ UNCHANGED <<pool, walked, fresh>>

\* Mistakes: nothing is cut off; the newest of the pool are kept.
Uncapped(s) == s
KeepNewest(s) == SubSeq(s, IF Len(s) > MIX_POOL_CAP THEN Len(s) - MIX_POOL_CAP + 1 ELSE 1, Len(s))
\* pool[:MIX_POOL_CAP].
Capped(s) == SubSeq(s, 1, IF Len(s) > MIX_POOL_CAP THEN MIX_POOL_CAP ELSE Len(s))

\* What a window can hold, less what the pool has, in the order it came.
Windows(s) == {window \in Distinct(MIX_WINDOW) : Range(window) \cap Range(s) = {}}
Merged(s, window) == Capped(s \o window)

Answered(c) ==
  /\ refresh[c].at = "asking"
  /\ \E window \in Windows(refresh[c].pool) : pool' = Merged(refresh[c].pool, window)
  /\ walked' = refresh[c].walked
  /\ fresh' = TRUE
  /\ refresh' = [refresh EXCEPT ![c] = Idle]
  /\ overtaken' = {d \in Callers \ {c} : refresh[d].at = "asking"}

\* A hop that fails leaves the pool, and another try to the next refresh.
HopFails(c) ==
  /\ refresh[c].at = "asking"
  /\ fresh' = (fresh \/ refresh[c].pool # <<>>)
  /\ refresh' = [refresh EXCEPT ![c] = Idle]
  /\ overtaken' = overtaken \ {c}
  /\ UNCHANGED <<pool, walked>>

\* MIX_REFRESH_S and MIX_POOL_TTL_S, and Redis cleared.
Stale == fresh /\ fresh' = FALSE /\ UNCHANGED <<pool, walked, refresh, overtaken>>

Forget ==
  /\ pool # <<>>
  /\ pool' = <<>> /\ walked' = <<>>
  /\ fresh' \in {fresh, FALSE}
  /\ overtaken' = {d \in Callers : refresh[d].at = "asking"}
  /\ UNCHANGED refresh

MixNext ==
  \/ \E c \in Callers : Ask(c) \/ Answered(c) \/ HopFails(c)
  \/ Stale \/ Forget

MixSpec == MixInit /\ [][MixNext]_mixVars

-----------------------------------------------------------------------------
\* "The pool climbs to its ceiling" (Mixes): a refresh loses nothing the pool had
\* and reorders nothing, unless it began before another one wrote, in which
\* case it writes back what it had read itself.
PoolClimbs ==
  [][\A c \in Callers :
       Answered(c) => (IF c \in overtaken THEN IsPrefix(refresh[c].pool, pool') ELSE IsPrefix(pool, pool'))]_mixVars

\* "Seeding twice from the same place asks the same question twice" (_next_hop):
\* what is walked stays within the pool and the seed, so that a lap ends, and
\* does not repeat itself, whoever else walks.
LapEnds == walked # <<>> => Range(walked) \subseteq Range(pool) \cup {Seed}
=============================================================================
