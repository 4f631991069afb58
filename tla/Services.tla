------------------------------ MODULE Services ------------------------------
(***************************************************************************)
(* The parts around the queue, the player and the stream, which share no   *)
(* state with each other: each behaviour is one of one of them, the others  *)
(* stay as they began.  Together they are small enough for one run.         *)
(***************************************************************************)
EXTENDS Naturals

CONSTANTS
  None,
  Rooms, Sessions, Visits, PRESENCE_TTL, LAST_LISTENER_GRACE, HEARTBEAT,  \* Presence
  Players, Keys, Slots, Budget,                                          \* AudioCache
  Intervals, NEWS_RETRY,                                                 \* Bulletins
  Requests, LIMIT, WINDOW, STRIKES, STRIKE_WINDOW,                       \* Limits
  Newcomers, Joins, MaxListeners,                                        \* Admission
  Messages, HISTORY_LIMIT,                                               \* Chat
  Station, Seed, Callers, MIX_WINDOW, MIX_POOL_CAP,                      \* Mix
  Videos, Artists, Histories, Outings, Catalogue, PICK_FROM_TOP, MAX_CANDIDATES, \* Radio
  Found, Listings, Hits, WORDS, RESULTS                                            \* Search

VARIABLES
  focus,    \* the part that moves
  present, live, banned, visit, beat, kicked, undercut, late, torn,
  disk, thread, pending, at, current, next, ahead, prepared, released,
  enabled, every, since, phase, news_at, task, ready, key, least, slipped,
  guarded, count, ttl, request, muted, refusals, cut,
  rows, hosts, max_listeners, join, byway,
  message, history, page, server, again, get, inbox, shown, missed,
  pool, walked, fresh, refresh, overtaken,
  candidates, source, queued, recent, outings, blocked, dead, picked,
  answer, meta, catalogue, tracks, unsaid

presence == <<present, live, banned, visit, beat, kicked, undercut, late, torn>>
cache == <<disk, thread, pending, at, current, next, ahead, prepared, released>>
news == <<enabled, every, since, phase, news_at, task, ready, key, least, slipped>>
limits == <<guarded, count, ttl, request, muted, refusals, cut>>
admission == <<rows, hosts, max_listeners, join, byway>>
chat == <<message, history, page, server, again, get, inbox, shown, missed>>
mix == <<pool, walked, fresh, refresh, overtaken>>
radio == <<candidates, source, queued, recent, outings, blocked, dead, picked>>
search == <<answer, meta, catalogue, tracks, unsaid>>
servicesVars == <<focus, presence, cache, news, limits, admission, chat, mix, radio, search>>

P == INSTANCE Presence
C == INSTANCE AudioCache
B == INSTANCE Bulletins
L == INSTANCE Limits
A == INSTANCE Admission WITH Sessions <- Newcomers
T == INSTANCE Chat
M == INSTANCE Mix WITH Videos <- Station
R == INSTANCE Radio
S == INSTANCE Search

Parts == {"presence", "cache", "news", "limits", "admission", "chat", "mix", "radio", "search"}

ASSUME ServicesAssumption ==
  /\ P!PresenceAssumption /\ C!CacheAssumption /\ B!BulletinAssumption /\ L!LimitAssumption
  /\ A!AdmissionAssumption /\ R!RadioAssumption /\ S!SearchAssumption
  /\ HISTORY_LIMIT \in Nat /\ MIX_POOL_CAP \in Nat /\ MIX_WINDOW \in Nat /\ Seed \in Station

ServicesTypeOK ==
  /\ P!PresenceTypeOK /\ C!CacheTypeOK /\ B!BulletinTypeOK /\ L!LimitTypeOK
  /\ T!ChatTypeOK /\ M!MixTypeOK

Init ==
  /\ focus \in Parts
  /\ P!PresenceInit /\ C!CacheInit /\ B!BulletinInit /\ A!AdmissionInit
  /\ T!ChatInit /\ M!MixInit /\ R!RadioInit /\ S!SearchInit
  /\ L!LimitInit /\ (guarded \/ focus = "limits")

\* What a step of one part leaves alone.
Only(part) ==
  /\ focus = part /\ UNCHANGED focus
  /\ part # "presence" => UNCHANGED presence
  /\ part # "cache" => UNCHANGED cache
  /\ part # "news" => UNCHANGED news
  /\ part # "limits" => UNCHANGED limits
  /\ part # "admission" => UNCHANGED admission
  /\ part # "chat" => UNCHANGED chat
  /\ part # "mix" => UNCHANGED mix
  /\ part # "radio" => UNCHANGED radio
  /\ part # "search" => UNCHANGED search

Next ==
  \/ Only("presence") /\ P!PresenceNext
  \/ Only("cache") /\ C!CacheNext
  \/ Only("news") /\ B!BulletinNext
  \/ Only("limits") /\ L!LimitNext
  \/ Only("admission") /\ A!AdmissionNext
  \/ Only("chat") /\ T!ChatNext
  \/ Only("mix") /\ M!MixNext
  \/ Only("radio") /\ R!RadioNext
  \/ Only("search") /\ S!SearchNext

Spec == Init /\ [][Next]_servicesVars

-----------------------------------------------------------------------------
(***************************************************************************)
(* Properties, each stated with its part.                                  *)
(***************************************************************************)

\* Nobody stays present in a room for longer than the room is live.
LiveOutlastsPresence == P!LiveOutlastsPresence

\* A banned session has no socket open that has not been sent the event.
BannedAreTold == P!BannedAreTold

\* No other room takes the file from under a player that has found it.
FoundFilesStay == C!FoundFilesStay

\* One player never downloads a video twice at one time.
OneWriterPerPlayer == C!OneWriterPerPlayer

\* Bulletins keep the distance the host has set.
NewsIsSpaced == B!NewsIsSpaced

\* A bulletin's file is protected for as long as it is wanted.
KeyFollowsClip == B!KeyFollowsClip

\* No listener is refused for ever.
CountersExpire == L!CountersExpire

\* Only a listener who has flooded the room is muted.
MutedForFlooding == L!MutedForFlooding

\* Requests that overlap overbook a room by fewer than there are of them.
Overbooking == A!Overbooking

\* A page that is connected again has shown all that the history holds.
PageIsWhole == T!PageIsWhole

\* A refresh of a mix loses nothing the pool had.
PoolClimbs == M!PoolClimbs

\* A lap of a mix stays within its pool, so it ends.
LapEnds == M!LapEnds

\* No score makes up for having been heard already.
TiersHold == R!TiersHold

\* The radio plays something while there is something to play.
RadioPlaysOn == R!RadioPlaysOn

\* Neither plays nor a length the room refuses lift a hit above a better one.
PlaysBuyNothing == S!PlaysBuyNothing

\* What is too long stays out of the queue, whatever the search knew of it.
TooLongIsRefused == S!TooLongIsRefused
=============================================================================
