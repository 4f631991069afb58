---------------------------- MODULE Services_proofs ----------------------------
(***************************************************************************)
(* Proofs about Services: what each part promises, for any constants.       *)
(***************************************************************************)
EXTENDS Services, FiniteSetTheorems, SequenceTheorems, TLAPS

PP == INSTANCE Presence_proofs
CC == INSTANCE AudioCache_proofs

USE ServicesAssumption

-----------------------------------------------------------------------------
\* A step of one part is one of it to that part, and none to the others.
LEMMA StepsOfParts ==
  ASSUME [Next]_servicesVars
  PROVE  /\ [P!PresenceNext]_(P!presenceVars)
         /\ [C!CacheNext]_(C!cacheVars)
         /\ [B!BulletinNext]_(B!bulletinVars)
         /\ [L!LimitNext]_(L!limitVars)
         /\ [A!AdmissionNext]_(A!admissionVars)
         /\ [T!ChatNext]_(T!chatVars)
         /\ [M!MixNext]_(M!mixVars)
         /\ [R!RadioNext]_(R!radioVars)
         /\ [S!SearchNext]_(S!searchVars)
  BY DEF Next, Only, servicesVars, presence, cache, news, limits, admission, chat, mix, radio, search,
         P!presenceVars, P!excuses, C!cacheVars, B!bulletinVars, L!limitVars, A!admissionVars,
         T!chatVars, M!mixVars, R!radioVars, S!searchVars

-----------------------------------------------------------------------------
(***************************************************************************)
(* Presence and AudioCache, from the modules of their own.                 *)
(***************************************************************************)
\* The module that Services names P is the one the lemmas are about.
LEMMA SamePresence ==
  /\ P!PresenceAssumption <=> PP!PresenceAssumption
  /\ P!PresenceInit <=> PP!PresenceInit
  /\ P!PresenceNext <=> PP!PresenceNext
  /\ UNCHANGED P!presenceVars <=> UNCHANGED PP!presenceVars
  /\ P!PresenceTypeOK <=> PP!PresenceTypeOK
  /\ P!LiveOutlastsPresence <=> PP!LiveOutlastsPresence
  /\ P!BannedAreTold <=> PP!BannedAreTold
  BY DEF P!PresenceAssumption, P!excuses, P!presenceVars, P!Away, P!Calls, P!PresenceTypeOK,
         P!PresenceInit, P!At, P!Room, P!Who, P!Becomes, P!Present, P!Sockets, P!Listening,
         P!Check, P!Subscribe, P!MarksPresent, P!Arrive, P!ReadyFails, P!Beat, P!NextBeat,
         P!MarkLive, P!Close, P!BeginBan, P!Left, P!Remove, P!Grace, P!SomebodyArrived,
         P!Recount, P!Extend, P!CommitBan, P!Unban, P!Cut, P!ApiCrash, P!HeartbeatDies,
         P!Unkept, P!Less, P!CallsRest, P!AgePresence, P!Tick, P!CallStep, P!VisitStep,
         P!PresenceNext, P!LiveOutlastsPresence, P!BannedAreTold,
         PP!PresenceAssumption, PP!excuses, PP!presenceVars, PP!Away, PP!Calls, PP!PresenceTypeOK,
         PP!PresenceInit, PP!At, PP!Room, PP!Who, PP!Becomes, PP!Present, PP!Sockets,
         PP!Listening, PP!Check, PP!Subscribe, PP!MarksPresent, PP!Arrive, PP!ReadyFails,
         PP!Beat, PP!NextBeat, PP!MarkLive, PP!Close, PP!BeginBan, PP!Left, PP!Remove,
         PP!Grace, PP!SomebodyArrived, PP!Recount, PP!Extend, PP!CommitBan, PP!Unban,
         PP!Cut, PP!ApiCrash, PP!HeartbeatDies, PP!Unkept, PP!Less, PP!CallsRest,
         PP!AgePresence, PP!Tick, PP!CallStep, PP!VisitStep, PP!PresenceNext,
         PP!LiveOutlastsPresence, PP!BannedAreTold

\* And so is C.
LEMMA SameCache ==
  /\ C!CacheAssumption <=> CC!CacheAssumption
  /\ C!CacheInit <=> CC!CacheInit
  /\ C!CacheNext <=> CC!CacheNext
  /\ UNCHANGED C!cacheVars <=> UNCHANGED CC!cacheVars
  /\ C!CacheTypeOK <=> CC!CacheTypeOK
  /\ C!FoundFilesStay <=> CC!FoundFilesStay
  /\ C!OneWriterPerPlayer <=> CC!OneWriterPerPlayer
<1> USE DEF C!Free, C!player, C!look, CC!Free, CC!player, CC!look
<1>1. /\ C!CacheAssumption <=> CC!CacheAssumption
      /\ C!CacheInit <=> CC!CacheInit
      /\ UNCHANGED C!cacheVars <=> UNCHANGED CC!cacheVars
      /\ C!CacheTypeOK <=> CC!CacheTypeOK
  BY DEF C!CacheAssumption, C!CacheInit, C!cacheVars, C!CacheTypeOK, CC!CacheAssumption, CC!CacheInit,
         CC!cacheVars, CC!CacheTypeOK
<1>2. /\ C!FoundFilesStay <=> CC!FoundFilesStay
      /\ C!OneWriterPerPlayer <=> CC!OneWriterPerPlayer
  BY DEF C!FoundFilesStay, C!OneWriterPerPlayer, C!Located, CC!FoundFilesStay, CC!OneWriterPerPlayer,
         CC!Located
<1>3. /\ C!SweepCache <=> CC!SweepCache
      /\ C!Purge <=> CC!Purge
  BY DEF C!SweepCache, C!Purge, C!Protected, C!protected_keys, CC!SweepCache, CC!Purge, CC!Protected,
         CC!protected_keys
<1>4. ASSUME NEW i \in Slots PROVE (C!Downloaded(i) <=> CC!Downloaded(i)) /\ (C!DownloadFails(i) <=> CC!DownloadFails(i))
  <2>1. C!protected_keys = CC!protected_keys
    BY DEF C!protected_keys, C!Protected, CC!protected_keys, CC!Protected
  <2>2. \A p, had, ks : C!Evictions(p, had, ks) = CC!Evictions(p, had, ks)
    <3>1. \A X : C!Cardinality(X) = CC!Cardinality(X)
      BY DEF C!Cardinality, CC!Cardinality
    <3> QED
      BY <2>1, <3>1 DEF C!Evictions, C!Spared, CC!Evictions, CC!Spared
  <2>3. \A p, k, then : C!Answered(p, k, then) <=> CC!Answered(p, k, then)
    BY DEF C!Answered, CC!Answered
  <2> QED
    BY <2>2, <2>3 DEF C!Downloaded, C!DownloadFails, CC!Downloaded, CC!DownloadFails
<1>5. ASSUME NEW p \in Players, NEW k \in Keys \cup {None}
      PROVE  (C!Start(p, k) <=> CC!Start(p, k)) /\ (C!LookAhead(p, k) <=> CC!LookAhead(p, k))
  BY DEF C!Start, C!LookAhead, C!Ask, C!StartsDownload, CC!Start, CC!LookAhead, CC!Ask, CC!StartsDownload
<1>6. ASSUME NEW p \in Players
      PROVE  /\ C!Open(p) <=> CC!Open(p)
             /\ C!Measured(p) <=> CC!Measured(p)
             /\ C!PlayEnds(p) <=> CC!PlayEnds(p)
             /\ C!Drop(p) <=> CC!Drop(p)
  BY DEF C!Open, C!Measured, C!PlayEnds, C!Drop, C!Located, CC!Open, CC!Measured, CC!PlayEnds, CC!Drop,
         CC!Located
<1> QED
  BY <1>1, <1>2, <1>3, <1>4, <1>5, <1>6 DEF C!CacheNext, CC!CacheNext

\* Presence's invariant is kept, whatever the other parts do.
LEMMA PresenceStays == Spec => []PP!IInv
<1>1. Init => PP!IInv
  BY SamePresence, PP!IInvHolds DEF Init
<1>2. PP!IInv /\ [Next]_servicesVars => PP!IInv'
  BY SamePresence, StepsOfParts, PP!IInvHolds DEF PP!AnyNext
<1> QED
  BY <1>1, <1>2, PTL DEF Spec

\* So is the cache's.
LEMMA CacheStays == Spec => []CC!IInv
<1>1. Init => CC!IInv
  BY SameCache, CC!IInvInit DEF Init
<1>2. CC!IInv /\ [Next]_servicesVars => CC!IInv'
  BY SameCache, StepsOfParts, CC!IInvStep
<1> QED
  BY <1>1, <1>2, PTL DEF Spec

\* Once no call is between two of its commands, a room is live for as long as
\* anybody is present in it.
THEOREM LiveOutlastsPresenceAlways == Spec => []LiveOutlastsPresence
<1>1. PP!IInv => LiveOutlastsPresence
  BY SamePresence, PP!IInvSuffices DEF LiveOutlastsPresence
<1> QED
  BY <1>1, PresenceStays, PTL

\* Every open socket of a banned session has been sent the event, or subscribed after it.
THEOREM BannedAreToldAlways == Spec => []BannedAreTold
<1>1. PP!IInv => BannedAreTold
  BY SamePresence, PP!IInvSuffices DEF BannedAreTold
<1> QED
  BY <1>1, PresenceStays, PTL

\* A file that a player has found is there when it opens it, unless another room
\* has played the same video to its end.
THEOREM FoundFilesStayAlways == Spec => []FoundFilesStay
<1>1. CC!IInv => FoundFilesStay
  BY SameCache DEF CC!IInv, FoundFilesStay
<1> QED
  BY <1>1, CacheStays, PTL

\* No player has two downloads of one video at work.
THEOREM OneWriterPerPlayerAlways == Spec => []OneWriterPerPlayer
<1>1. CC!IInv => OneWriterPerPlayer
  BY SameCache DEF CC!IInv, OneWriterPerPlayer
<1> QED
  BY <1>1, CacheStays, PTL
-----------------------------------------------------------------------------
(***************************************************************************)
(* Bulletins.  A bulletin that is fetched, waits or is claimed was due and *)
(* nothing has been on the air since; while one is on the air, the time    *)
(* since its claim is too short for the next one to be due.                *)
(***************************************************************************)
NewsInv ==
  /\ B!BulletinTypeOK
  /\ least <= every
  /\ ready => task = "none" /\ phase \in {"between", "choosing", "track"}
  /\ phase \in {"claiming", "opening"} => task = "none"
  /\ phase \in {"opening", "bulletin"} => since < B!Shortest /\ task # "fetching"
  /\ task = "fetching" \/ ready \/ phase = "claiming" => since >= least
  /\ B!KeyFollowsClip

\* There is a shortest and a longest interval, and each is a positive number of ticks.
LEMMA NewsTimes ==
  /\ B!Longest \in Intervals /\ \A n \in Intervals : n <= B!Longest
  /\ B!Shortest \in Intervals /\ \A n \in Intervals : B!Shortest <= n
  /\ Intervals \subseteq Nat \ {0} /\ NEWS_RETRY \in Nat
  BY DEF B!BulletinAssumption, B!Longest, B!Shortest

\* The invariant survives every step of the host, the clock and the player.
LEMMA NewsInvStep ==
  ASSUME NewsInv, [B!BulletinNext]_(B!bulletinVars)
  PROVE  NewsInv'
<1> USE NewsTimes DEF NewsInv, B!BulletinTypeOK, B!KeyFollowsClip, B!host, B!clip, B!past
<1> HIDE DEF B!Longest, B!Shortest
<1>1. CASE B!RequestNews
  BY <1>1 DEF B!RequestNews, B!NewsDue
<1>2. CASE B!Prepare
  <2>1. CASE task' = "none" /\ UNCHANGED <<key, slipped>>
    BY <1>2, <2>1 DEF B!Prepare
  <2>2. CASE B!due /\ task' = "fetching" /\ key' = TRUE /\ slipped' = FALSE
    <3>1. since >= every /\ every >= B!Shortest
      BY <2>2 DEF B!due
    <3>2. phase \notin {"claiming", "opening", "bulletin"} /\ ~ready /\ since >= least
      BY <1>2, <3>1 DEF B!Prepare
    <3> QED
      BY <1>2, <2>2, <3>2 DEF B!Prepare
  <2> QED
    BY <1>2, <2>1, <2>2 DEF B!Prepare
<1>3. CASE B!Fetched
  <2>1. CASE ready' = TRUE /\ UNCHANGED key
    BY <1>3, <2>1 DEF B!Fetched
  <2>2. CASE key' = FALSE /\ UNCHANGED ready
    BY <1>3, <2>2 DEF B!Fetched
  <2> QED
    BY <1>3, <2>1, <2>2 DEF B!Fetched
<1>4. CASE B!TickBegins
  BY <1>4 DEF B!TickBegins
<1>5. CASE B!PlayTrack
  BY <1>5 DEF B!PlayTrack
<1>6. CASE B!Claim
  <2>1. CASE enabled
    BY <1>6, <2>1 DEF B!Claim
  <2>2. CASE ~enabled
    BY <1>6, <2>2 DEF B!Claim
  <2> QED
    BY <2>1, <2>2
<1>7. CASE B!Open
  BY <1>7 DEF B!Open
<1>8. CASE B!PlayFails
  BY <1>8 DEF B!PlayFails
<1>9. CASE B!PlayEnds
  BY <1>9 DEF B!PlayEnds
<1>10. CASE B!NewPlayer
  <2>1. /\ phase' = "between" /\ task' = "none" /\ news_at' = 0
        /\ ~ready' /\ ~key' /\ ~slipped' /\ ready' \in BOOLEAN /\ key' \in BOOLEAN /\ slipped' \in BOOLEAN
        /\ UNCHANGED <<enabled, every, since, least>>
    BY <1>10 DEF B!NewPlayer
  <2> QED
    BY <2>1
<1>11. CASE B!SetNews
  BY <1>11 DEF B!SetNews
<1>12. CASE B!Tick
  BY <1>12 DEF B!Tick
<1>13. CASE UNCHANGED B!bulletinVars
  BY <1>13 DEF B!bulletinVars
<1> QED
  BY <1>1, <1>2, <1>3, <1>4, <1>5, <1>6, <1>7, <1>8, <1>9, <1>10, <1>11, <1>12, <1>13 DEF B!BulletinNext

\* So it always holds, whichever part moves.
LEMMA NewsStays == Spec => []NewsInv
<1>1. Init => NewsInv
  <2> SUFFICES ASSUME B!BulletinInit PROVE NewsInv
    BY DEF Init
  <2>1. /\ phase = "between" /\ task = "none" /\ news_at = 0 /\ ~ready /\ ~key
        /\ ready \in BOOLEAN /\ key \in BOOLEAN /\ slipped \in BOOLEAN /\ enabled \in BOOLEAN
        /\ every = B!Longest /\ since = B!Longest /\ least = B!Longest
    BY DEF B!BulletinInit
  <2> QED
    BY <2>1, NewsTimes DEF NewsInv, B!BulletinTypeOK, B!KeyFollowsClip
<1>2. NewsInv /\ [Next]_servicesVars => NewsInv'
  BY StepsOfParts, NewsInvStep
<1> QED
  BY <1>1, <1>2, PTL DEF Spec

\* A bulletin's file is protected from its fetch to its end, and no longer unless
\* a start has failed.
THEOREM KeyFollowsClipAlways == Spec => []KeyFollowsClip
<1>1. NewsInv => KeyFollowsClip
  BY DEF NewsInv, KeyFollowsClip
<1> QED
  BY <1>1, NewsStays, PTL

\* Two bulletins never start closer to each other than the shortest interval that
\* the host has set in between, although claim does not ask whether one is due.
THEOREM NewsIsSpacedAlways == Spec => NewsIsSpaced
<1> DEFINE Spaced == B!Claim /\ phase' = "opening" => since >= least
<1>1. NewsInv => [Spaced]_(B!bulletinVars)
  BY DEF NewsInv, B!Claim
<1>2. Spec => [][Spaced]_(B!bulletinVars)
  <2> HIDE DEF Spaced
  <2> QED
    BY <1>1, NewsStays, PTL
<1> QED
  BY <1>2 DEF NewsIsSpaced, B!NewsIsSpaced

-----------------------------------------------------------------------------
(***************************************************************************)
(* Limits.                                                                 *)
(***************************************************************************)
\* The refusals that the counter of strikes has counted: no older than itself.
Since(age) == {r \in refusals : r[1] <= age}
StrikesSpent == IF ttl["strikes"] = 0 THEN 0 ELSE STRIKE_WINDOW - ttl["strikes"]

LimitTyped ==
  /\ count \in [L!Counters -> Nat] /\ ttl \in [L!Counters -> Nat]
  /\ L!LimitTypeOK

\* A counter that Redis holds has an expiry, or a request is about to set it.
Expiring ==
  /\ L!CountersExpire
  /\ \A c \in L!Counters : count[c] = 0 => ttl[c] = 0

\* Whoever is on the counter of strikes was refused, in this tick.
Striking ==
  \A i \in Requests : request[i].on = "strikes" =>
     /\ guarded /\ request[i].at # "away"
     /\ request[i].at = "first" => ttl["strikes"] \in {0, STRIKE_WINDOW}

\* The counter of strikes never says more than there were.
Counting ==
  \/ "strikes" \in cut
  \/ /\ count["strikes"] <= Cardinality(Since(StrikesSpent))
     /\ \A i \in Requests : request[i].on = "strikes" => request[i].n <= Cardinality(refusals)

LimitInv == LimitTyped /\ Expiring /\ Striking /\ Counting

\* What the limits and windows are.
LEMMA LimitConstants ==
  LIMIT \in Nat /\ STRIKES \in Nat \ {0} /\ WINDOW \in Nat \ {0} /\ STRIKE_WINDOW \in Nat \ {0}
  BY DEF L!LimitAssumption

\* No step leaves the types, nor takes a counter past what it may show.
LEMMA LimitTypedStep ==
  ASSUME LimitTyped, [L!LimitNext]_(L!limitVars)
  PROVE  LimitTyped'
<1> USE LimitConstants DEF LimitTyped, L!LimitTypeOK, L!Counters, L!Most, L!Window, L!Nobody, L!Ages
<1>1. ASSUME NEW i \in Requests, NEW c \in L!Counters, L!Bump(i, c)
      PROVE  /\ count' \in [L!Counters -> Nat] /\ \A d \in L!Counters : count'[d] \in 0 .. L!Most(d)
             /\ request' \in [Requests -> [at : {"away", "first", "counted"}, on : L!Counters, n : 0 .. STRIKES + LIMIT + 1]]
  <2> DEFINE n == L!OneMore(count[c], L!Most(c))
  <2>1. n \in 0 .. L!Most(c) /\ n \in 0 .. STRIKES + LIMIT + 1
    BY DEF L!OneMore
  <2> HIDE DEF n
  <2>2. count' = [count EXCEPT ![c] = n]
    BY <1>1 DEF L!Bump, n
  <2>3. \E w \in {"first", "counted"} : request' = [request EXCEPT ![i] = [at |-> w, on |-> c, n |-> n]]
    BY <1>1 DEF L!Bump, n
  <2> QED
    BY <2>1, <2>2, <2>3
<1>2. ASSUME NEW i \in Requests, L!Ask(i) PROVE LimitTyped'
  BY <1>1, <1>2 DEF L!Ask
<1>3. ASSUME NEW i \in Requests, L!Expire(i) PROVE LimitTyped'
  BY <1>3 DEF L!Expire
<1>4. ASSUME NEW i \in Requests, L!Answer(i) PROVE LimitTyped'
  BY <1>4 DEF L!Answer
<1>5. ASSUME NEW i \in Requests, L!Forgive(i) PROVE LimitTyped'
  <2>1. count' = [count EXCEPT !["strikes"] = 0] /\ ttl' = [ttl EXCEPT !["strikes"] = 0]
    BY <1>5 DEF L!Forgive
  <2>2. request' = [request EXCEPT ![i] = [at |-> "away", on |-> "requests", n |-> 0]]
    BY <1>5 DEF L!Forgive
  <2>3. cut' \subseteq cut /\ UNCHANGED <<guarded, muted, refusals>>
    BY <1>5 DEF L!Forgive
  <2>4. \A c \in L!Counters : count'[c] \in 0 .. L!Most(c) /\ ttl'[c] \in 0 .. L!Window(c)
    BY <2>1
  <2>5. request' \in [Requests -> [at : {"away", "first", "counted"}, on : L!Counters, n : 0 .. STRIKES + LIMIT + 1]]
    BY <2>2
  <2>6. count' \in [L!Counters -> Nat] /\ ttl' \in [L!Counters -> Nat]
    BY <2>1
  <2> QED
    BY <2>3, <2>4, <2>5, <2>6
<1>6. ASSUME NEW i \in Requests, L!Strike(i) PROVE LimitTyped'
  <2>1. refusals' \subseteq L!Ages \X (1 .. STRIKES)
    <3> DEFINE free == {m \in 1 .. STRIKES : <<0, m>> \notin refusals}
    <3>1. free # {} => (CHOOSE n \in free : TRUE) \in 1 .. STRIKES
      OBVIOUS
    <3>2. refusals' = refusals \cup (IF free = {} THEN {} ELSE {<<0, CHOOSE n \in free : TRUE>>})
      BY <1>6 DEF L!Strike, L!Refused
    <3> HIDE DEF free
    <3>3. 0 \in L!Ages
      OBVIOUS
    <3>4. \A m \in 1 .. STRIKES : <<0, m>> \in L!Ages \X (1 .. STRIKES)
      BY <3>3
    <3> QED
      BY <3>1, <3>2, <3>4
  <2> QED
    BY <1>1, <1>6, <2>1 DEF L!Strike
<1>7. ASSUME NEW i \in Requests, L!Judge(i) PROVE LimitTyped'
  BY <1>7 DEF L!Judge
<1>8. CASE L!MuteEnds
  BY <1>8 DEF L!MuteEnds
<1>9. CASE L!RequestsFail
  <2>1. cut' \subseteq L!Counters
    BY <1>9 DEF L!RequestsFail
  <2>2. request' \in [Requests -> [at : {"away", "first", "counted"}, on : L!Counters, n : 0 .. STRIKES + LIMIT + 1]]
    BY <1>9 DEF L!RequestsFail
  <2>3. UNCHANGED <<guarded, count, ttl, muted, refusals>>
    BY <1>9 DEF L!RequestsFail
  <2> QED
    BY <2>1, <2>2, <2>3
<1>10. CASE L!Flush
  BY <1>10 DEF L!Flush
<1>11. CASE L!Tick
  <2>1. /\ ttl' = [c \in L!Counters |-> IF ttl[c] > 0 THEN ttl[c] - 1 ELSE 0]
        /\ count' = [c \in L!Counters |-> IF ttl[c] = 1 THEN 0 ELSE count[c]]
    BY <1>11 DEF L!Tick
  <2>2. refusals' \subseteq L!Ages \X (1 .. STRIKES) /\ cut' \subseteq cut /\ UNCHANGED <<guarded, request, muted>>
    BY <1>11 DEF L!Tick
  <2>3. \A c \in L!Counters : count'[c] \in 0 .. L!Most(c) /\ ttl'[c] \in 0 .. L!Window(c)
    BY <2>1
  <2>4. count' \in [L!Counters -> Nat] /\ ttl' \in [L!Counters -> Nat]
    BY <2>1
  <2> QED
    BY <2>2, <2>3, <2>4
<1>12. CASE UNCHANGED L!limitVars
  BY <1>12 DEF L!limitVars
<1> QED
  BY <1>2, <1>3, <1>4, <1>5, <1>6, <1>7, <1>8, <1>9, <1>10, <1>11, <1>12 DEF L!LimitNext

\* No step leaves a counter without an expiry, but a request that is cut off.
LEMMA ExpiringStep ==
  ASSUME LimitTyped, Expiring, [L!LimitNext]_(L!limitVars)
  PROVE  Expiring'
<1> USE LimitConstants DEF LimitTyped, L!LimitTypeOK, L!Counters, L!Most, L!Window, L!Nobody, Expiring, L!CountersExpire
<1>1. ASSUME NEW i \in Requests, NEW c \in L!Counters, L!Bump(i, c), request[i].at # "first", UNCHANGED <<ttl, cut>>
      PROVE  Expiring'
  <2> DEFINE n == L!OneMore(count[c], L!Most(c))
  <2>1. n \in Nat \ {0}
    BY DEF L!OneMore
  <2>2. count[c] = 0 => L!SetsExpiry(count[c] + 1)
    BY DEF L!SetsExpiry
  <2> HIDE DEF n
  <2>3. count' = [count EXCEPT ![c] = n]
    BY <1>1 DEF L!Bump, n
  <2>4. request' = [request EXCEPT ![i] = [at |-> IF L!SetsExpiry(count[c] + 1) THEN "first" ELSE "counted", on |-> c, n |-> n]]
    BY <1>1 DEF L!Bump, n
  <2>5. \A j \in Requests \ {i} : request'[j] = request[j]
    BY <2>4
  <2>6. count[c] = 0 => request'[i].at = "first" /\ request'[i].on = c
    BY <2>2, <2>4
  <2> QED
    BY <1>1, <2>1, <2>3, <2>5, <2>6
<1>2. ASSUME NEW i \in Requests, L!Ask(i) PROVE Expiring'
  BY <1>1, <1>2 DEF L!Ask
<1>3. ASSUME NEW i \in Requests, L!Expire(i) PROVE Expiring'
  BY <1>3 DEF L!Expire
<1>4. ASSUME NEW i \in Requests, L!Answer(i) PROVE Expiring'
  BY <1>4 DEF L!Answer
<1>5. ASSUME NEW i \in Requests, L!Forgive(i) PROVE Expiring'
  BY <1>5 DEF L!Forgive
<1>6. ASSUME NEW i \in Requests, L!Strike(i) PROVE Expiring'
  BY <1>1, <1>6 DEF L!Strike
<1>7. ASSUME NEW i \in Requests, L!Judge(i) PROVE Expiring'
  BY <1>7 DEF L!Judge
<1>8. CASE L!MuteEnds
  BY <1>8 DEF L!MuteEnds
<1>9. CASE L!RequestsFail
  BY <1>9 DEF L!RequestsFail
<1>10. CASE L!Flush
  BY <1>10 DEF L!Flush
<1>11. CASE L!Tick
  BY <1>11 DEF L!Tick
<1>12. CASE UNCHANGED L!limitVars
  BY <1>12 DEF L!limitVars
<1> QED
  BY <1>2, <1>3, <1>4, <1>5, <1>6, <1>7, <1>8, <1>9, <1>10, <1>11, <1>12 DEF L!LimitNext

\* The refusals are as finite as their ages and numbers, and so are those of some ages.
LEMMA RefusalsFinite ==
  ASSUME NEW all \in SUBSET (L!Ages \X (1 .. STRIKES))
  PROVE  /\ IsFiniteSet(all) /\ Cardinality(all) \in Nat
         /\ \A age : LET those == {r \in all : r[1] <= age}
                     IN  IsFiniteSet(those) /\ Cardinality(those) \in Nat /\ Cardinality(those) <= Cardinality(all)
<1>1. IsFiniteSet(L!Ages) /\ IsFiniteSet(1 .. STRIKES)
  BY LimitConstants, FS_Interval DEF L!Ages
<1>2. IsFiniteSet(all)
  BY <1>1, FS_Product, FS_Subset
<1> QED
  BY <1>2, FS_Subset, FS_CardinalityType

\* The refusals are finitely many, and so are those since any instant.
LEMMA SinceFinite ==
  ASSUME LimitTyped
  PROVE  /\ IsFiniteSet(refusals) /\ Cardinality(refusals) \in Nat
         /\ \A age : /\ IsFiniteSet(Since(age)) /\ Cardinality(Since(age)) \in Nat
                     /\ Cardinality(Since(age)) <= Cardinality(refusals)
  BY RefusalsFinite DEF Since, LimitTyped, L!LimitTypeOK

\* A strike is one refusal more, of this tick, or there have been enough already.
LEMMA RefusedCounts ==
  ASSUME LimitTyped, refusals' = L!Refused, NEW age \in Nat
  PROVE  /\ refusals \subseteq refusals'
         /\ \/ Cardinality(Since(age)') = Cardinality(Since(age)) + 1
            \/ Cardinality(Since(age)') >= STRIKES /\ Cardinality(Since(age)') >= Cardinality(Since(age))
<1> DEFINE free == {n \in 1 .. STRIKES : <<0, n>> \notin refusals}
<1>1. refusals' = refusals \cup (IF free = {} THEN {} ELSE {<<0, CHOOSE n \in free : TRUE>>})
  BY DEF L!Refused
<1>2. IsFiniteSet(Since(age)) /\ Cardinality(Since(age)) \in Nat
  BY SinceFinite
<1>3. CASE free = {}
  <2>1. refusals' = refusals /\ Since(age)' = Since(age)
    BY <1>1, <1>3 DEF Since
  <2> DEFINE f == [n \in 1 .. STRIKES |-> <<0, n>>]
  <2>2. f \in Injection(1 .. STRIKES, Since(age))
    BY <1>3, LimitConstants DEF Injection, IsInjective, Since
  <2>3. STRIKES <= Cardinality(Since(age))
    BY <2>2, <1>2, FS_Injection, FS_Interval, LimitConstants
  <2> QED
    BY <2>1, <2>3, <1>2
<1>4. CASE free # {}
  <2> DEFINE n == CHOOSE n \in free : TRUE
  <2>1. n \in free
    BY <1>4
  <2>2. refusals' = refusals \cup {<<0, n>>} /\ <<0, n>> \notin refusals
    BY <1>1, <1>4, <2>1
  <2> HIDE DEF n
  <2>3. Since(age)' = Since(age) \cup {<<0, n>>} /\ <<0, n>> \notin Since(age)
    BY <2>2 DEF Since
  <2> QED
    BY <2>2, <2>3, <1>2, FS_AddElement
<1> QED
  BY <1>3, <1>4

\* A tick makes each of them older, and the oldest fall out of the window.
LEMMA RefusalsAge ==
  ASSUME LimitTyped, NEW age \in Nat, age + 1 < STRIKE_WINDOW,
         refusals' = {r \in L!Ages \X (1 .. STRIKES) : <<r[1] - 1, r[2]>> \in refusals}
  PROVE  Cardinality(Since(age)) <= Cardinality(Since(age + 1)')
<1> DEFINE f == [r \in Since(age) |-> <<r[1] + 1, r[2]>>]
<1>1. \A r \in Since(age) : r \in L!Ages \X (1 .. STRIKES) /\ r[1] <= age
  BY DEF Since, LimitTyped, L!LimitTypeOK
<1>2. \A r \in Since(age) : f[r] \in refusals' /\ f[r][1] <= age + 1
  BY <1>1, LimitConstants DEF L!Ages, Since
<1>3. f \in [Since(age) -> Since(age + 1)']
  BY <1>2 DEF Since
<1>4. \A q, r \in Since(age) : f[q] = f[r] => q = r
  BY <1>1 DEF L!Ages
<1>5. f \in Injection(Since(age), Since(age + 1)')
  BY <1>3, <1>4 DEF Injection, IsInjective
<1>6. IsFiniteSet(Since(age + 1)')
  BY RefusalsFinite DEF Since
<1> QED
  BY <1>5, <1>6, FS_Injection

\* A request is on the counter of strikes only once it was refused.
LEMMA StrikingStep ==
  ASSUME LimitTyped, Expiring, Striking, [L!LimitNext]_(L!limitVars)
  PROVE  Striking'
<1> USE LimitConstants DEF LimitTyped, L!LimitTypeOK, L!Counters, L!Most, L!Window, L!Nobody, Striking
<1>1. ASSUME NEW i \in Requests, L!Ask(i) PROVE Striking'
  <2>1. request'[i].on = "requests" /\ \A j \in Requests \ {i} : request'[j] = request[j]
    BY <1>1 DEF L!Ask, L!Bump
  <2> QED
    BY <1>1, <2>1 DEF L!Ask
<1>2. ASSUME NEW i \in Requests, L!Expire(i) PROVE Striking'
  <2>1. \A j \in Requests : request'[j].on = request[j].on /\ (request'[j].at = "first" => request[j].at = "first")
                            /\ (request[j].at # "away" => request'[j].at # "away")
    BY <1>2 DEF L!Expire
  <2>2. ttl'["strikes"] \in {ttl["strikes"], 0, STRIKE_WINDOW}
    BY <1>2 DEF L!Expire
  <2> QED
    BY <1>2, <2>1, <2>2 DEF L!Expire
<1>3. ASSUME NEW i \in Requests, L!Answer(i) PROVE Striking'
  BY <1>3 DEF L!Answer
<1>4. ASSUME NEW i \in Requests, L!Forgive(i) PROVE Striking'
  BY <1>4 DEF L!Forgive
<1>5. ASSUME NEW i \in Requests, L!Strike(i) PROVE Striking'
  <2> DEFINE n == L!OneMore(count["strikes"], STRIKES)
  <2>0. request' = [request EXCEPT ![i] = [at |-> IF count["strikes"] + 1 = 1 THEN "first" ELSE "counted",
                                           on |-> "strikes", n |-> n]]
    BY <1>5 DEF L!Strike, L!Bump, L!SetsExpiry
  <2> HIDE DEF n
  <2>1. /\ request'[i].at \in {"first", "counted"}
        /\ request'[i].at = "first" => count["strikes"] = 0
        /\ \A j \in Requests \ {i} : request'[j] = request[j]
    BY SMTT(30), <2>0
  <2> QED
    BY <1>5, <2>1 DEF L!Strike, Expiring
<1>6. ASSUME NEW i \in Requests, L!Judge(i) PROVE Striking'
  BY <1>6 DEF L!Judge
<1>7. CASE L!MuteEnds
  BY <1>7 DEF L!MuteEnds
<1>8. CASE L!RequestsFail
  BY <1>8 DEF L!RequestsFail
<1>9. CASE L!Flush
  BY <1>9 DEF L!Flush
<1>10. CASE L!Tick
  BY <1>10 DEF L!Tick
<1>11. CASE UNCHANGED L!limitVars
  BY <1>11 DEF L!limitVars
<1> QED
  BY <1>1, <1>2, <1>3, <1>4, <1>5, <1>6, <1>7, <1>8, <1>9, <1>10, <1>11 DEF L!LimitNext

\* The counter of strikes moves with the refusals that it has counted.
LEMMA CountingStep ==
  ASSUME LimitInv, [L!LimitNext]_(L!limitVars)
  PROVE  Counting'
<1> USE LimitConstants, SinceFinite DEF LimitInv, Counting
<1>0. SUFFICES ASSUME "strikes" \notin cut' PROVE Counting'
  OBVIOUS
<1> DEFINE Fair == /\ count["strikes"] <= Cardinality(Since(StrikesSpent))
                   /\ \A i \in Requests : request[i].on = "strikes" => request[i].n <= Cardinality(refusals)
<1>a. SUFFICES Fair'
  OBVIOUS
<1>b. StrikesSpent \in Nat
  BY DEF StrikesSpent, LimitTyped, L!LimitTypeOK, L!Counters, L!Window
<1>1. ASSUME NEW i \in Requests, L!Ask(i) PROVE Fair'
  <2>1. request'[i].on = "requests" /\ \A j \in Requests \ {i} : request'[j] = request[j]
    BY <1>1 DEF L!Ask, L!Bump, LimitTyped, L!LimitTypeOK
  <2>2. count'["strikes"] = count["strikes"]
    BY <1>1 DEF L!Ask, L!Bump, LimitTyped, L!Counters
  <2>3. Fair /\ UNCHANGED <<refusals, ttl>>
    BY <1>0, <1>1 DEF L!Ask
  <2> QED
    BY <2>1, <2>2, <2>3 DEF Since, StrikesSpent
<1>2. ASSUME NEW i \in Requests, L!Expire(i) PROVE Fair'
  <2>1. \A j \in Requests : request'[j].on = request[j].on /\ request'[j].n = request[j].n
    BY <1>2 DEF L!Expire, LimitTyped, L!LimitTypeOK
  <2>2. Fair /\ UNCHANGED <<refusals, count>>
    BY <1>0, <1>2 DEF L!Expire
  <2>3. CASE request[i].on # "strikes"
    <3>1. ttl'["strikes"] = ttl["strikes"]
      BY <1>2, <2>3 DEF L!Expire, LimitTyped, L!Counters
    <3> QED
      BY <2>1, <2>2, <3>1 DEF Since, StrikesSpent
  <2>4. CASE request[i].on = "strikes"
    <3>1. ttl["strikes"] \in {0, STRIKE_WINDOW} /\ ttl'["strikes"] \in {0, STRIKE_WINDOW}
      BY <1>2, <2>4 DEF L!Expire, Striking, LimitTyped, L!Counters, L!Window
    <3>2. StrikesSpent = 0 /\ StrikesSpent' = 0
      BY <3>1 DEF StrikesSpent
    <3> QED
      BY <2>1, <2>2, <3>2 DEF Since
  <2> QED
    BY <2>3, <2>4
<1>3. ASSUME NEW i \in Requests, L!Answer(i) PROVE Fair'
  <2>1. request'[i].on = "requests" /\ \A j \in Requests \ {i} : request'[j] = request[j]
    BY <1>3 DEF L!Answer, L!Nobody, LimitTyped, L!LimitTypeOK
  <2> QED
    BY <1>0, <1>3, <2>1 DEF L!Answer, Since, StrikesSpent
<1>4. ASSUME NEW i \in Requests, L!Forgive(i) PROVE Fair'
  <2>1. request'[i].on = "requests" /\ \A j \in Requests \ {i} : request'[j] = request[j]
    BY <1>4 DEF L!Forgive, L!Nobody, LimitTyped, L!LimitTypeOK
  <2>2. count'["strikes"] = 0 /\ UNCHANGED refusals
    BY <1>4 DEF L!Forgive, LimitTyped, L!Counters
  <2>3. 0 <= Cardinality(Since(StrikesSpent)')
    BY <2>2, RefusalsFinite DEF Since, LimitTyped, L!LimitTypeOK
  <2>4. "strikes" \notin cut \/ \A j \in Requests : request[j].on # "strikes"
    BY <1>0, <1>4 DEF L!Forgive
  <2> QED
    BY <2>1, <2>2, <2>3, <2>4
<1>5. ASSUME NEW i \in Requests, L!Strike(i) PROVE Fair'
  <2> DEFINE n == L!OneMore(count["strikes"], STRIKES)
  <2>1. count'["strikes"] = n /\ request'[i].n = n /\ \A j \in Requests \ {i} : request'[j] = request[j]
    BY <1>5 DEF L!Strike, L!Bump, L!Most, LimitTyped, L!Counters, L!LimitTypeOK
  <2>2. Fair /\ UNCHANGED ttl /\ StrikesSpent' = StrikesSpent
    BY <1>0, <1>5 DEF L!Strike, StrikesSpent
  <2>3. refusals' = L!Refused /\ refusals \subseteq refusals'
    BY <1>5, RefusedCounts DEF L!Strike
  <2>4. LimitTyped'
    BY <1>5, LimitTypedStep DEF L!LimitNext
  <2>5. refusals' \in SUBSET (L!Ages \X (1 .. STRIKES))
    BY <2>4 DEF LimitTyped, L!LimitTypeOK
  <2> PICK k \in Nat : k = StrikesSpent
    BY <1>b
  <2>a. Since(k) = Since(StrikesSpent) /\ Since(k)' = Since(StrikesSpent)'
    BY <2>2 DEF Since
  <2>b. /\ IsFiniteSet(refusals') /\ Cardinality(refusals') \in Nat /\ Cardinality(Since(k)') \in Nat
        /\ Cardinality(Since(k)') <= Cardinality(refusals')
    BY <2>5, RefusalsFinite DEF Since
  <2>6. n <= Cardinality(Since(StrikesSpent)')
    <3>1. \/ Cardinality(Since(k)') = Cardinality(Since(k)) + 1
          \/ Cardinality(Since(k)') >= STRIKES /\ Cardinality(Since(k)') >= Cardinality(Since(k))
      BY <2>3, RefusedCounts
    <3>2. count["strikes"] \in Nat /\ count["strikes"] <= Cardinality(Since(k))
      BY <2>2, <2>a DEF LimitTyped, L!Counters
    <3> QED
      BY <3>1, <3>2, <2>a, <2>b DEF L!OneMore
  <2>7. Cardinality(refusals) <= Cardinality(refusals')
    BY <2>3, <2>b, FS_Subset
  <2>8. n \in Nat /\ n <= Cardinality(refusals')
    BY <2>6, <2>a, <2>b DEF L!OneMore, LimitTyped, L!Counters
  <2>9. \A j \in Requests \ {i} : request[j].on = "strikes" => request[j].n \in Nat
    BY DEF LimitTyped, L!LimitTypeOK
  <2> HIDE DEF n
  <2>c. \A j \in Requests : request'[j].on = "strikes" => request'[j].n <= Cardinality(refusals')
    BY <2>1, <2>2, <2>7, <2>8, <2>9, <2>b
  <2>d. count'["strikes"] <= Cardinality(Since(StrikesSpent)')
    BY <2>1, <2>6
  <2> QED
    BY <2>c, <2>d
<1>6. ASSUME NEW i \in Requests, L!Judge(i) PROVE Fair'
  <2>1. request'[i].on = "requests" /\ \A j \in Requests \ {i} : request'[j] = request[j]
    BY <1>6 DEF L!Judge, L!Nobody, LimitTyped, L!LimitTypeOK
  <2> QED
    BY <1>0, <1>6, <2>1 DEF L!Judge, Since, StrikesSpent
<1>7. CASE L!MuteEnds
  BY <1>0, <1>7 DEF L!MuteEnds, Since, StrikesSpent
<1>8. CASE L!RequestsFail
  <2>1. \A j \in Requests : request'[j].on = "requests"
    BY <1>8 DEF L!RequestsFail, L!Nobody
  <2>2. "strikes" \notin cut
    BY <1>0, <1>8 DEF L!RequestsFail
  <2> QED
    BY <1>8, <2>1, <2>2 DEF L!RequestsFail, Since, StrikesSpent
<1>9. CASE L!Flush
  <2>1. count'["strikes"] = 0 /\ UNCHANGED <<refusals, request>>
    BY <1>9 DEF L!Flush, L!Counters
  <2>2. "strikes" \notin cut \/ \A j \in Requests : request[j].on # "strikes"
    BY <1>0, <1>9 DEF L!Flush
  <2>3. 0 <= Cardinality(Since(StrikesSpent)')
    BY <2>1 DEF Since
  <2> QED
    BY <2>1, <2>2, <2>3
<1>10. CASE L!Tick
  <2>1. \A j \in Requests : request'[j].on # "strikes"
    BY <1>10 DEF L!Tick, Striking
  <2>2. /\ ttl'["strikes"] = IF ttl["strikes"] > 0 THEN ttl["strikes"] - 1 ELSE 0
        /\ count'["strikes"] = IF ttl["strikes"] = 1 THEN 0 ELSE count["strikes"]
        /\ refusals' = {r \in L!Ages \X (1 .. STRIKES) : <<r[1] - 1, r[2]>> \in refusals}
    BY <1>10 DEF L!Tick, L!Counters
  <2>3. LimitTyped'
    BY <1>10, LimitTypedStep DEF L!LimitNext
  <2>4. Cardinality(Since(StrikesSpent)') \in Nat
    BY <2>3, RefusalsFinite DEF Since, LimitTyped, L!LimitTypeOK
  <2>5. CASE count'["strikes"] = 0
    BY <2>1, <2>4, <2>5
  <2>6. CASE count'["strikes"] # 0
    <3>1. count["strikes"] > 0 /\ "strikes" \notin cut /\ count'["strikes"] = count["strikes"] /\ ttl["strikes"] # 1
      BY <1>0, <1>10, <2>2, <2>6 DEF L!Tick, LimitTyped, L!Counters
    <3>2. ttl["strikes"] > 1
      BY <1>10, <3>1 DEF L!Tick, Expiring, L!CountersExpire, LimitTyped, L!Counters
    <3>3. ttl["strikes"] <= STRIKE_WINDOW /\ ttl["strikes"] \in Nat
      BY DEF LimitTyped, L!LimitTypeOK, L!Counters, L!Window
    <3>4. StrikesSpent + 1 < STRIKE_WINDOW /\ StrikesSpent' = StrikesSpent + 1
      BY <2>2, <3>2, <3>3 DEF StrikesSpent
    <3> PICK k \in Nat : k = StrikesSpent
      BY <1>b
    <3>5. Cardinality(Since(k)) <= Cardinality(Since(k + 1)')
      BY <2>2, <3>4, RefusalsAge
    <3>6. Since(StrikesSpent) = Since(k) /\ Since(StrikesSpent)' = Since(k + 1)'
      BY <3>4 DEF Since
    <3>7. count["strikes"] \in Nat /\ Cardinality(Since(k)) \in Nat /\ count["strikes"] <= Cardinality(Since(k))
      BY <3>1, <3>6 DEF LimitTyped, L!Counters
    <3> QED
      BY <2>1, <2>4, <3>1, <3>5, <3>6, <3>7
  <2> QED
    BY <2>5, <2>6
<1>11. CASE UNCHANGED L!limitVars
  BY <1>0, <1>11 DEF L!limitVars, Since, StrikesSpent
<1> QED
  BY <1>1, <1>2, <1>3, <1>4, <1>5, <1>6, <1>7, <1>8, <1>9, <1>10, <1>11 DEF L!LimitNext

\* So the four together always hold.
LEMMA LimitsStay == Spec => []LimitInv
<1>1. Init => LimitInv
  <2> SUFFICES ASSUME L!LimitInit PROVE LimitInv
    BY DEF Init
  <2>1. LimitTyped
    <3>1. /\ count \in [L!Counters -> Nat] /\ ttl \in [L!Counters -> Nat]
          /\ \A c \in L!Counters : count[c] = 0 /\ ttl[c] = 0
          /\ guarded \in BOOLEAN /\ muted \in BOOLEAN /\ refusals = {} /\ cut = {}
      BY DEF L!LimitInit, L!Counters
    <3>3. request \in [Requests -> [at : {"away", "first", "counted"}, on : L!Counters, n : 0 .. STRIKES + LIMIT + 1]]
      <4>1. 0 \in 0 .. STRIKES + LIMIT + 1
        BY LimitConstants
      <4>2. request = [i \in Requests |-> [at |-> "away", on |-> "requests", n |-> 0]]
        BY DEF L!LimitInit, L!Nobody
      <4> QED
        BY <4>1, <4>2 DEF L!Counters
    <3>2. \A c \in L!Counters : 0 \in 0 .. L!Most(c) /\ 0 \in 0 .. L!Window(c)
      BY LimitConstants DEF L!Counters, L!Most, L!Window
    <3> QED
      BY <3>1, <3>2, <3>3 DEF LimitTyped, L!LimitTypeOK
  <2>2. Expiring /\ Striking
    BY DEF L!LimitInit, Expiring, Striking, L!CountersExpire, L!Counters, L!Nobody
  <2>3. Counting
    <3>1. count["strikes"] = 0 /\ \A i \in Requests : request[i].on # "strikes"
      BY DEF L!LimitInit, L!Counters, L!Nobody
    <3> QED
      BY <2>1, <3>1, SinceFinite DEF Counting
  <2> QED
    BY <2>1, <2>2, <2>3 DEF LimitInv
<1>2. LimitInv /\ [Next]_servicesVars => LimitInv'
  BY StepsOfParts, LimitTypedStep, ExpiringStep, StrikingStep, CountingStep DEF LimitInv
<1> QED
  BY <1>1, <1>2, PTL DEF Spec

\* No listener is refused for ever: with no request between its two commands, a
\* counter has an expiry, unless a request that failed there has cost it its own.
THEOREM CountersExpireAlways == Spec => []CountersExpire
<1>1. LimitInv => CountersExpire
  BY DEF LimitInv, Expiring, CountersExpire
<1> QED
  BY <1>1, LimitsStay, PTL

\* Whoever is muted was refused as often as it takes within the last strike
\* window, whatever requests overlapped, unless the counter has lost its expiry.
THEOREM MutedForFloodingAlways == Spec => MutedForFlooding
<1> DEFINE Flooded == muted' /\ ~muted => guarded /\ (L!Cardinality(refusals) >= STRIKES \/ "strikes" \in cut)
<1>1. LimitInv /\ [Next]_servicesVars => [Flooded]_(L!limitVars)
  <2> SUFFICES ASSUME LimitInv, L!LimitNext, muted', ~muted
               PROVE  guarded /\ (L!Cardinality(refusals) >= STRIKES \/ "strikes" \in cut)
    BY StepsOfParts
  <2>1. PICK i \in Requests : L!Judge(i)
    BY DEF L!LimitNext, L!Ask, L!Expire, L!Answer, L!Forgive, L!Strike, L!MuteEnds, L!RequestsFail, L!Flush, L!Tick
  <2>2. request[i].on = "strikes" /\ request[i].n >= STRIKES /\ request[i].n \in Nat
    BY <2>1 DEF L!Judge, LimitInv, LimitTyped, L!LimitTypeOK
  <2>3. L!Cardinality(refusals) = Cardinality(refusals)
    BY DEF L!Cardinality, Cardinality
  <2>4. Cardinality(refusals) \in Nat
    BY SinceFinite DEF LimitInv
  <2> QED
    BY <2>2, <2>3, <2>4, LimitConstants DEF LimitInv, Striking, Counting
<1>2. Spec => [][Flooded]_(L!limitVars)
  <2> HIDE DEF Flooded
  <2> QED
    BY <1>1, LimitsStay, PTL DEF Spec
<1> QED
  BY <1>2 DEF MutedForFlooding, L!MutedForFlooding

-----------------------------------------------------------------------------
(***************************************************************************)
(* Admission.  Each request that has passed the count and has not joined   *)
(* yet is as good as a seat.                                               *)
(***************************************************************************)
Counted == rows \ (hosts \cup byway)
Joining == {i \in Joins : join[i] # {}}

AdmissionInv ==
  /\ IsFiniteSet(rows) /\ max_listeners \in MaxListeners
  /\ A!Creator \in rows \cap hosts
  /\ join \in [Joins -> {{}} \cup {{s} : s \in Newcomers}]
  /\ Cardinality(Counted) + 1 + Cardinality(Joining) <= A!Highest + Cardinality(Joins) - 1

\* The part's cardinalities are everybody's.
LEMMA SameSize == \A X : A!Cardinality(X) = Cardinality(X) /\ (A!IsFiniteSet(X) <=> IsFiniteSet(X))
  BY DEF A!Cardinality, Cardinality, A!IsFiniteSet, IsFiniteSet

\* What the limits of a room are.
LEMMA AdmissionConstants ==
  /\ IsFiniteSet(Joins) /\ Cardinality(Joins) \in Nat \ {0}
  /\ A!Highest \in Nat \ {0} /\ \A n \in MaxListeners : n \in Nat /\ n <= A!Highest
  /\ A!Highest \in MaxListeners
  BY SameSize, FS_CardinalityType, FS_EmptySet DEF A!AdmissionAssumption, A!Highest

\* The first host has a seat that nobody was counted for.
LEMMA SeatsAreFinite ==
  ASSUME AdmissionInv
  PROVE  /\ IsFiniteSet(Counted) /\ Cardinality(Counted) \in Nat
         /\ IsFiniteSet(Joining) /\ Cardinality(Joining) \in Nat
         /\ Cardinality(rows) \in Nat /\ Cardinality(Counted) + 1 <= Cardinality(rows)
<1>1. Counted \in SUBSET (rows \ {A!Creator}) /\ Joining \in SUBSET Joins
  BY DEF AdmissionInv, Counted, Joining
<1>2. IsFiniteSet(rows \ {A!Creator}) /\ Cardinality(rows \ {A!Creator}) = Cardinality(rows) - 1
  BY FS_RemoveElement DEF AdmissionInv
<1>3. /\ IsFiniteSet(Counted) /\ Cardinality(Counted) <= Cardinality(rows \ {A!Creator})
      /\ IsFiniteSet(Joining)
  BY <1>1, <1>2, FS_Subset, AdmissionConstants
<1> QED
  BY <1>2, <1>3, FS_CardinalityType DEF AdmissionInv

\* A seat is taken only by who has counted fewer, and given up by who leaves.
LEMMA AdmissionInvStep ==
  ASSUME AdmissionInv, [A!AdmissionNext]_(A!admissionVars)
  PROVE  AdmissionInv'
<1> USE AdmissionConstants, SeatsAreFinite DEF AdmissionInv
<1> DEFINE Bound == A!Highest + Cardinality(Joins) - 1
<1>a. ASSUME NEW X, NEW Y, X \subseteq Counted, Y \subseteq Joining
      PROVE  Cardinality(X) + 1 + Cardinality(Y) <= Bound
  <2>1. /\ Cardinality(X) <= Cardinality(Counted) /\ IsFiniteSet(X)
        /\ Cardinality(Y) <= Cardinality(Joining) /\ IsFiniteSet(Y)
    BY <1>a, FS_Subset
  <2>2. Cardinality(X) \in Nat /\ Cardinality(Y) \in Nat
    BY <2>1, FS_CardinalityType
  <2>3. Cardinality(Counted) + 1 + Cardinality(Joining) <= Bound
    OBVIOUS
  <2> HIDE DEF Bound, AdmissionInv
  <2>4. Bound \in Int
    BY DEF Bound
  <2> QED
    BY <2>1, <2>2, <2>3, <2>4
<1>1. ASSUME NEW i \in Joins, NEW s \in Newcomers, A!Count(i, s) PROVE AdmissionInv'
  <2>1. Joining' = Joining \cup {i} /\ Joining' \in SUBSET Joins /\ Counted' = Counted
    BY <1>1 DEF A!Count, Joining, Counted
  <2>2. Cardinality(rows) < max_listeners /\ max_listeners <= A!Highest /\ max_listeners \in Nat
    BY <1>1, SameSize DEF A!Count, A!RoomIsFull
  <2>3. Cardinality(Joining') <= Cardinality(Joins) /\ Cardinality(Joining') \in Nat
    BY <2>1, FS_Subset, FS_CardinalityType
  <2>4. Cardinality(Counted') + 1 + Cardinality(Joining') <= Bound
    BY <2>1, <2>2, <2>3
  <2>5. join' \in [Joins -> {{}} \cup {{t} : t \in Newcomers}]
    BY <1>1 DEF A!Count
  <2> QED
    BY <1>1, <2>4, <2>5 DEF A!Count
<1>2. ASSUME NEW i \in Joins, A!Join(i) PROVE AdmissionInv'
  <2>1. PICK s \in Newcomers : join[i] = {s}
    BY <1>2 DEF A!Join
  <2>2. Joining' = Joining \ {i} /\ i \in Joining
    BY <1>2 DEF A!Join, Joining
  <2>3. rows' = rows \cup {s} /\ Counted' \subseteq Counted \cup {s}
    BY <1>2, <2>1 DEF A!Join, Counted
  <2>4. /\ IsFiniteSet(rows') /\ Cardinality(Counted') <= Cardinality(Counted) + 1
        /\ Cardinality(Counted') \in Nat
    <3>1. IsFiniteSet(rows') /\ IsFiniteSet(Counted \cup {s}) /\ Cardinality(Counted \cup {s}) <= Cardinality(Counted) + 1
      <4>1. IsFiniteSet(rows') /\ IsFiniteSet(Counted \cup {s})
        BY <2>3, FS_AddElement
      <4>2. Cardinality(Counted \cup {s}) \in {Cardinality(Counted), Cardinality(Counted) + 1}
        BY FS_AddElement
      <4> HIDE DEF AdmissionInv
      <4> QED
        BY <4>1, <4>2
    <3>2. IsFiniteSet(Counted') /\ Cardinality(Counted') <= Cardinality(Counted \cup {s})
      BY <2>3, <3>1, FS_Subset
    <3>3. Cardinality(Counted') \in Nat /\ Cardinality(Counted \cup {s}) \in Nat
      BY <3>1, <3>2, FS_CardinalityType
    <3> QED
      BY <3>1, <3>2, <3>3
  <2>5. Cardinality(Joining') = Cardinality(Joining) - 1
    BY <2>2, FS_RemoveElement
  <2>6. Cardinality(Counted') + 1 + Cardinality(Joining') <= Bound
    BY <2>4, <2>5
  <2>7. join' \in [Joins -> {{}} \cup {{t} : t \in Newcomers}]
    BY <1>2 DEF A!Join
  <2> QED
    BY <1>2, <2>3, <2>4, <2>6, <2>7 DEF A!Join
<1>3. ASSUME NEW i \in Joins, A!Abandon(i) PROVE AdmissionInv'
  <2>1. Joining' \subseteq Joining /\ Counted' = Counted
    BY <1>3 DEF A!Abandon, Joining, Counted
  <2>2. join' \in [Joins -> {{}} \cup {{t} : t \in Newcomers}]
    BY <1>3 DEF A!Abandon
  <2> QED
    BY <1>a, <1>3, <2>1, <2>2 DEF A!Abandon
<1>4. ASSUME NEW s \in Newcomers, A!JoinAsHost(s) PROVE AdmissionInv'
  <2>1. Joining' = Joining /\ Counted' \subseteq Counted
    BY <1>4 DEF A!JoinAsHost, Joining, Counted
  <2> QED
    BY <1>a, <1>4, <2>1, FS_AddElement DEF A!JoinAsHost
<1>5. ASSUME NEW s \in Newcomers, A!JoinBySocket(s) PROVE AdmissionInv'
  <2>1. Joining' = Joining /\ Counted' \subseteq Counted
    BY <1>5 DEF A!JoinBySocket, Joining, Counted
  <2> QED
    BY <1>a, <1>5, <2>1, FS_AddElement DEF A!JoinBySocket
<1>6. ASSUME NEW s \in Newcomers, A!Leave(s) PROVE AdmissionInv'
  <2>1. Joining' = Joining /\ Counted' \subseteq Counted
    BY <1>6 DEF A!Leave, Joining, Counted
  <2>2. A!Creator \in rows' /\ IsFiniteSet(rows')
    BY <1>6, FS_RemoveElement DEF A!Leave
  <2> QED
    BY <1>a, <1>6, <2>1, <2>2 DEF A!Leave
<1>7. CASE A!SetLimit
  BY <1>7 DEF A!SetLimit, Joining, Counted
<1>8. CASE UNCHANGED A!admissionVars
  BY <1>8 DEF A!admissionVars, Joining, Counted
<1> QED
  BY <1>1, <1>2, <1>3, <1>4, <1>5, <1>6, <1>7, <1>8 DEF A!AdmissionNext

\* So the sum of seats and joins stays below its bound.
LEMMA AdmissionStays == Spec => []AdmissionInv
<1>1. Init => AdmissionInv
  <2> SUFFICES ASSUME A!AdmissionInit PROVE AdmissionInv
    BY DEF Init
  <2>1. Counted = {} /\ Joining = {} /\ IsFiniteSet(rows)
    BY FS_Singleton DEF A!AdmissionInit, Counted, Joining
  <2>2. Cardinality(Counted) = 0 /\ Cardinality(Joining) = 0
    BY <2>1, FS_EmptySet
  <2> QED
    BY <2>1, <2>2, AdmissionConstants DEF A!AdmissionInit, AdmissionInv
<1>2. AdmissionInv /\ [Next]_servicesVars => AdmissionInv'
  BY StepsOfParts, AdmissionInvStep
<1> QED
  BY <1>1, <1>2, PTL DEF Spec

\* Sockets and all hosts but the first apart, a room is overbooked by fewer
\* listeners than there are requests of newcomers under way at one time.
THEOREM OverbookingAlways == Spec => []Overbooking
<1>1. AdmissionInv => Overbooking
  <2> SUFFICES ASSUME AdmissionInv PROVE Overbooking
    OBVIOUS
  <2>1. Cardinality(Counted) + 1 + Cardinality(Joining) <= A!Highest + Cardinality(Joins) - 1
    BY DEF AdmissionInv
  <2>2. Cardinality(Counted) + 1 <= A!Highest + Cardinality(Joins) - 1
    BY <2>1, SeatsAreFinite, AdmissionConstants
  <2> QED
    BY <2>2, SameSize DEF Overbooking, A!Overbooking, Counted
<1> QED
  BY <1>1, AdmissionStays, PTL

-----------------------------------------------------------------------------
(***************************************************************************)
(* Chat.  What was told is on the page, on its way there, or given up.     *)
(***************************************************************************)
OnItsWay(m) ==
  m \in shown \cup inbox \cup missed \/ T!WillRead \/ \E ms \in SUBSET Messages : <<"answer", ms>> \in get /\ m \in ms

ChatInv ==
  /\ T!ChatTypeOK
  /\ history \in Seq(Messages)
  /\ \A m \in T!recent : message[m] = "told" => OnItsWay(m)

\* LPUSH and LTRIM: a capped list gains the message and may lose its oldest.
LEMMA HistoryKept ==
  ASSUME ChatInv, NEW m \in Messages, T!Kept(m)
  PROVE  /\ history' \in Seq(Messages) /\ Len(history') <= HISTORY_LIMIT
         /\ T!Range(history') \subseteq Messages
         /\ T!Range(history') \subseteq T!Range(history) \cup {m}
<1> DEFINE longer == <<m>> \o history
           k == IF Len(history) < HISTORY_LIMIT THEN Len(history) + 1 ELSE HISTORY_LIMIT
<1>1. history \in Seq(Messages) /\ Len(history) <= HISTORY_LIMIT /\ HISTORY_LIMIT \in Nat
  BY DEF ChatInv, T!ChatTypeOK
<1>2. /\ longer \in Seq(Messages) /\ Len(longer) = Len(history) + 1
      /\ \A i \in 1 .. Len(longer) : longer[i] \in T!Range(history) \cup {m}
  <2>1. \A i \in 1 .. Len(longer) : longer[i] = IF i = 1 THEN m ELSE history[i - 1]
    BY <1>1
  <2>2. \A i \in 1 .. Len(history) : history[i] \in T!Range(history)
    BY <1>1 DEF T!Range
  <2>3. longer \in Seq(Messages) /\ Len(longer) = Len(history) + 1
    BY <1>1
  <2> HIDE DEF longer
  <2> QED
    BY <1>1, <2>1, <2>2, <2>3
<1>3. k \in 0 .. Len(longer) /\ k <= HISTORY_LIMIT
  BY <1>1, <1>2
<1>4. history' = SubSeq(longer, 1, k)
  BY DEF T!Kept
<1> HIDE DEF longer, k
<1>5. history' \in Seq(Messages) /\ Len(history') = k /\ \A i \in 1 .. k : history'[i] = longer[i]
  BY <1>2, <1>3, <1>4, SubSeqProperties
<1>6. T!Range(history') \subseteq T!Range(history) \cup {m}
  BY <1>2, <1>3, <1>5 DEF T!Range
<1>7. T!Range(history') \subseteq Messages
  BY <1>5 DEF T!Range
<1> QED
  BY <1>3, <1>5, <1>6, <1>7

\* No step leaves the types, nor makes the history too long.
LEMMA ChatTypedStep ==
  ASSUME ChatInv, [T!ChatNext]_(T!chatVars)
  PROVE  T!ChatTypeOK' /\ history' \in Seq(Messages)
<1> USE DEF ChatInv, T!ChatTypeOK, T!Answers, T!said, T!socket
<1>1. ASSUME NEW m \in Messages, T!Store(m) PROVE T!ChatTypeOK' /\ history' \in Seq(Messages)
  <2>1. T!Kept(m) /\ UNCHANGED <<inbox, missed, page, server, again, get, shown>>
        /\ message' = [message EXCEPT ![m] = "stored"]
    BY <1>1 DEF T!Store, T!Does, T!Order
  <2> QED
    BY <2>1, HistoryKept
<1>2. ASSUME NEW m \in Messages, T!Publish(m) PROVE T!ChatTypeOK' /\ history' \in Seq(Messages)
  BY <1>2 DEF T!Publish, T!Does, T!Order, T!Told
<1>3. ASSUME NEW m \in Messages, T!Show(m) PROVE T!ChatTypeOK' /\ history' \in Seq(Messages)
  BY <1>3 DEF T!Show
<1>4. CASE T!Accept
  BY <1>4 DEF T!Accept
<1>5. CASE T!Subscribe
  BY <1>5 DEF T!Subscribe
<1>6. CASE T!OnOpen
  BY <1>6 DEF T!OnOpen
<1>7. CASE T!OnClose
  BY <1>7 DEF T!OnClose
<1>8. CASE T!Read
  BY <1>8 DEF T!Read, T!recent
<1>9. CASE T!GetFails
  BY <1>9 DEF T!GetFails, T!recent
<1>10. ASSUME NEW ms \in SUBSET Messages, T!Answered(ms) PROVE T!ChatTypeOK' /\ history' \in Seq(Messages)
  BY <1>10 DEF T!Answered
<1>11. CASE T!Forget
  BY <1>11 DEF T!Forget, T!Range
<1>12. CASE UNCHANGED T!chatVars
  BY <1>12 DEF T!chatVars
<1> QED
  BY <1>1, <1>2, <1>3, <1>4, <1>5, <1>6, <1>7, <1>8, <1>9, <1>10, <1>11, <1>12 DEF T!ChatNext

\* A message leaves one place only to arrive at another, or to be given up.
LEMMA ChatInvStep ==
  ASSUME ChatInv, [T!ChatNext]_(T!chatVars)
  PROVE  ChatInv'
<1>0. T!ChatTypeOK' /\ history' \in Seq(Messages)
  BY ChatTypedStep
<1> SUFFICES ASSUME NEW m \in T!recent', message'[m] = "told" PROVE OnItsWay(m)'
  BY <1>0 DEF ChatInv
<1> USE DEF T!said, T!socket, T!WillRead, OnItsWay
<1>a. m \in Messages
  BY <1>0 DEF T!recent, T!ChatTypeOK
<1>b. m \in T!recent /\ message[m] = "told" => OnItsWay(m)
  BY DEF ChatInv
<1>1. ASSUME NEW w \in Messages, T!Store(w) PROVE OnItsWay(m)'
  <2>1. T!Kept(w) /\ UNCHANGED <<inbox, missed, page, server, again, get, shown>>
        /\ message' = [message EXCEPT ![w] = "stored"]
    BY <1>1 DEF T!Store, T!Does, T!Order
  <2>2. m # w /\ m \in T!recent /\ message[m] = "told"
    BY <1>a, <2>1, HistoryKept DEF T!recent, ChatInv, T!ChatTypeOK
  <2> QED
    BY <1>b, <2>1, <2>2
<1>2. ASSUME NEW w \in Messages, T!Publish(w) PROVE OnItsWay(m)'
  <2>1. T!Told(w) /\ UNCHANGED <<history, page, server, again, get, shown>>
        /\ message' = [message EXCEPT ![w] = "told"]
    BY <1>2 DEF T!Publish, T!Does, T!Order
  <2>2. CASE m = w
    BY <2>1, <2>2 DEF T!Told
  <2>3. CASE m # w
    <3>1. OnItsWay(m)
      BY <1>b, <1>a, <2>1, <2>3 DEF T!recent, ChatInv, T!ChatTypeOK
    <3> QED
      BY <2>1, <3>1 DEF T!Told
  <2> QED
    BY <2>2, <2>3
<1>3. ASSUME NEW w \in Messages, T!Show(w) PROVE OnItsWay(m)'
  BY <1>3, <1>b DEF T!Show, T!recent
<1>4. CASE T!Accept
  BY <1>4, <1>b DEF T!Accept, T!recent
<1>5. CASE T!Subscribe
  BY <1>5, <1>b DEF T!Subscribe, T!recent
<1>6. CASE T!OnOpen
  BY <1>6, <1>b DEF T!OnOpen, T!recent, T!Reloads
<1>7. CASE T!OnClose
  BY <1>7 DEF T!OnClose
<1>8. CASE T!Read
  <2>1. <<"answer", T!recent>> \in get' /\ m \in T!recent /\ T!recent \in SUBSET Messages
    BY <1>8 DEF T!Read, T!recent, ChatInv, T!ChatTypeOK
  <2> QED
    BY <2>1
<1>9. CASE T!GetFails
  BY <1>9, <1>b DEF T!GetFails, T!recent
<1>10. ASSUME NEW ms \in SUBSET Messages, T!Answered(ms) PROVE OnItsWay(m)'
  BY <1>10, <1>b DEF T!Answered, T!recent
<1>11. CASE T!Forget
  BY <1>11 DEF T!Forget, T!recent, T!Range
<1>12. CASE UNCHANGED T!chatVars
  BY <1>12, <1>b DEF T!chatVars, T!recent
<1> QED
  BY <1>1, <1>2, <1>3, <1>4, <1>5, <1>6, <1>7, <1>8, <1>9, <1>10, <1>11, <1>12 DEF T!ChatNext

\* So no message that was told is ever nowhere.
LEMMA ChatStays == Spec => []ChatInv
<1>1. Init => ChatInv
  <2> SUFFICES ASSUME T!ChatInit PROVE ChatInv
    BY DEF Init
  <2>1. history = <<>> /\ T!recent = {}
    BY DEF T!ChatInit, T!recent, T!Range
  <2> QED
    <3>1. history \in Seq(Messages) /\ Len(history) <= HISTORY_LIMIT /\ T!Range(history) \subseteq Messages
      BY <2>1 DEF T!recent
    <3>2. /\ message \in [Messages -> {"unsaid", "stored", "told"}] /\ get \subseteq T!Answers
          /\ page \in {"closed", "open"} /\ server \in {"none", "accepted", "subscribed"} /\ again \in BOOLEAN
          /\ inbox = {} /\ shown = {} /\ missed = {}
      BY DEF T!ChatInit, T!Answers
    <3> QED
      BY <2>1, <3>1, <3>2 DEF ChatInv, T!ChatTypeOK
<1>2. ChatInv /\ [Next]_servicesVars => ChatInv'
  BY StepsOfParts, ChatInvStep
<1> QED
  BY <1>1, <1>2, PTL DEF Spec

\* Once nothing is under way and the socket is open, a page has shown all that
\* the history holds, except for what it had no way left to hear of.
THEOREM PageIsWholeAlways == Spec => []PageIsWhole
<1>1. ChatInv => PageIsWhole
  BY DEF ChatInv, OnItsWay, T!WillRead, PageIsWhole, T!PageIsWhole
<1> QED
  BY <1>1, ChatStays, PTL

-----------------------------------------------------------------------------
(***************************************************************************)
(* Search.  The cache knows of a video what its listing said, or its page. *)
(***************************************************************************)
SearchInv ==
  /\ tracks \subseteq Found
  /\ meta \in [Found -> {"none", "unknown"} \cup {Hits[v].length : v \in Found}]
  /\ \A v \in Found : /\ meta[v] \in {"none", "unknown", Hits[v].length}
                      /\ meta[v] = "unknown" => v \in unsaid
  /\ S!TooLongIsRefused

\* The invariant survives every search, every addition and every expiry.
LEMMA SearchInvStep ==
  ASSUME SearchInv, [S!SearchNext]_(S!searchVars)
  PROVE  SearchInv'
<1> USE DEF SearchInv, S!TooLongIsRefused, S!Still
<1>1. CASE S!Search
  <2>1. PICK gaps \in SUBSET Found : \E ranked : meta' = [v \in Found |->
                  LET hit == S!Listed(v, gaps) IN
                  IF hit \in S!Range(ranked) /\ S!Complete(hit.length) THEN hit.length ELSE meta[v]]
    BY <1>1 DEF S!Search
  <2>2. \A v \in Found : meta'[v] = meta[v] \/ (meta'[v] = Hits[v].length /\ meta'[v] # "unknown")
    BY <2>1 DEF S!Listed, S!Complete
  <2>3. meta' \in [Found -> {"none", "unknown"} \cup {Hits[v].length : v \in Found}]
    <3>1. DOMAIN meta' = Found /\ meta' = [v \in DOMAIN meta' |-> meta'[v]]
      BY <2>1
    <3> QED
      BY <2>2, <3>1
  <2>4. tracks' = tracks /\ unsaid' = {v \in unsaid : v \in tracks' \/ meta'[v] = "unknown"}
    BY <1>1 DEF S!Search
  <2> QED
    BY <2>2, <2>3, <2>4
<1>2. ASSUME NEW v \in Found, S!Add(v) PROVE SearchInv'
  <2>1. PICK length \in IF meta[v] # "none" THEN {meta[v]} ELSE {Hits[v].length, "unknown"} :
           /\ meta' = [meta EXCEPT ![v] = length]
           /\ tracks' = IF length = "long" THEN tracks ELSE tracks \cup {v}
           /\ S!Still(IF meta[v] = "none" THEN unsaid \cup {v} ELSE unsaid)
    BY <1>2 DEF S!Add
  <2>2. length \in {"none", "unknown", Hits[v].length}
    BY <2>1
  <2>3. /\ meta' \in [Found -> {"none", "unknown"} \cup {Hits[u].length : u \in Found}]
        /\ \A u \in Found : meta'[u] = IF u = v THEN length ELSE meta[u]
    BY <2>1, <2>2
  <2>4. length = "unknown" => v \in unsaid'
    BY <2>1, <2>3
  <2>5. \A u \in tracks' : Hits[u].length = "long" => u \in unsaid'
    BY <2>1, <2>2, <2>3
  <2> QED
    BY <2>1, <2>2, <2>3, <2>4, <2>5
<1>3. CASE S!Played
  BY <1>3 DEF S!Played
<1>4. CASE S!AnswerExpires
  BY <1>4 DEF S!AnswerExpires
<1>5. ASSUME NEW v \in Found, S!MetadataExpires(v) PROVE SearchInv'
  BY <1>5 DEF S!MetadataExpires
<1>6. CASE UNCHANGED S!searchVars
  BY <1>6 DEF S!searchVars
<1> QED
  BY <1>1, <1>2, <1>3, <1>4, <1>5, <1>6 DEF S!SearchNext

\* So what is cached of a video is always something its listing or its page said.
LEMMA SearchStays == Spec => []SearchInv
<1>1. Init => SearchInv
  BY DEF Init, S!SearchInit, SearchInv, S!TooLongIsRefused
<1>2. SearchInv /\ [Next]_servicesVars => SearchInv'
  BY StepsOfParts, SearchInvStep
<1> QED
  BY <1>1, <1>2, PTL DEF Spec

\* What is too long stays out of the queue, whatever the search knew of it, unless
\* the video's own page has named no length.
THEOREM TooLongIsRefusedAlways == Spec => []TooLongIsRefused
<1>1. SearchInv => TooLongIsRefused
  BY DEF SearchInv, TooLongIsRefused
<1> QED
  BY <1>1, SearchStays, PTL

-----------------------------------------------------------------------------
(***************************************************************************)
(* Mix.  What a refresh has read and not yet written is as good as what is *)
(* there: either it still is there, or another refresh wrote in between.   *)
(***************************************************************************)
NoTwice(s) == \A i, j \in DOMAIN s : s[i] = s[j] => i = j
Pools == {s \in Seq(Station) : NoTwice(s) /\ Len(s) <= MIX_POOL_CAP}
Walks(s) == {w \in Seq(Station) : NoTwice(w) /\ M!Range(w) \subseteq M!Range(s) \cup {Seed}}

MixInv ==
  /\ pool \in Pools /\ walked \in Walks(pool)
  /\ fresh \in BOOLEAN /\ overtaken \subseteq Callers
  /\ refresh \in [Callers -> [hop : Station, pool : Pools, walked : Seq(Station), at : {"idle", "asking"}]]
  /\ \A c \in Callers : /\ refresh[c].walked \in Walks(refresh[c].pool)
                        /\ refresh[c].at = "asking" => c \in overtaken \/ refresh[c].pool = pool

\* A set of naturals that is not empty has a least element.
LEMMA Least ==
  ASSUME NEW those \in SUBSET Nat, those # {}
  PROVE  \E n \in those : \A m \in those : n <= m
<1>1. PICK n \in those : \A m \in those : ~ (<<m, n>> \in OpToRel(<, Nat))
  BY WFMin, NatLessThanWellFounded, Zenon
<1>2. \A m \in those : ~ (m < n)
  BY <1>1, Zenon DEF OpToRel
<1> QED
  BY <1>2

\* A hop that is not the seed is of the pool and was not walked, so that a walk
\* that goes on from it repeats nothing.
LEMMA WalkGoesOn ==
  ASSUME MixInv
  PROVE  M!Hop \in Station /\ M!Walk \in Walks(pool)
<1> USE DEF MixInv, Pools, M!Range
<1>0. pool \in Seq(Station) /\ walked \in Seq(Station) /\ Seed \in Station
  BY DEF Walks
<1>1. CASE M!Frontier = {}
  BY <1>0, <1>1 DEF M!Hop, M!Walk, Walks, NoTwice
<1>2. CASE M!Frontier # {}
  <2> DEFINE first == CHOOSE i \in M!Frontier : \A j \in M!Frontier : i <= j
  <2>1. first \in M!Frontier
    <3>1. M!Frontier \in SUBSET Nat
      BY <1>0 DEF M!Frontier
    <3>2. \E i \in M!Frontier : \A j \in M!Frontier : i <= j
      BY <1>2, <3>1, Least
    <3> QED
      BY <3>2
  <2>2. M!Hop = pool[first] /\ M!Walk = Append(walked, M!Hop)
    BY <1>2 DEF M!Hop, M!Walk
  <2> HIDE DEF first
  <2>3. M!Hop \in Station /\ M!Hop \in M!Range(pool) /\ M!Hop \notin M!Range(walked)
    BY <1>0, <2>1, <2>2 DEF M!Frontier
  <2>4. M!Walk \in Seq(Station) /\ Len(M!Walk) = Len(walked) + 1
        /\ \A i \in 1 .. Len(walked) + 1 : M!Walk[i] = IF i <= Len(walked) THEN walked[i] ELSE M!Hop
    BY <1>0, <2>2, <2>3, AppendProperties
  <2>5. NoTwice(M!Walk)
    BY <1>0, <2>3, <2>4 DEF NoTwice, Walks
  <2>6. M!Range(M!Walk) \subseteq M!Range(pool) \cup {Seed}
    <3>1. \A i \in 1 .. Len(walked) : walked[i] \in M!Range(pool) \cup {Seed}
      <4>1. M!Range(walked) \subseteq M!Range(pool) \cup {Seed}
        BY DEF Walks
      <4>2. \A i \in 1 .. Len(walked) : walked[i] \in M!Range(walked)
        BY <1>0
      <4> QED
        BY <4>1, <4>2
    <3> HIDE DEF MixInv, M!Range
    <3>2. ASSUME NEW i \in 1 .. Len(walked) + 1 PROVE M!Walk[i] \in M!Range(pool) \cup {Seed}
      <4>1. CASE i <= Len(walked)
        BY <1>0, <2>4, <3>1, <4>1
      <4>2. CASE i = Len(walked) + 1
        BY <1>0, <2>3, <2>4, <4>2
      <4> QED
        BY <1>0, <4>1, <4>2
    <3>3. DOMAIN M!Walk = 1 .. Len(walked) + 1
      BY <2>4
    <3> QED
      BY <3>2, <3>3 DEF M!Range
  <2> QED
    BY <2>3, <2>4, <2>5, <2>6 DEF Walks
<1> QED
  BY <1>1, <1>2

\* What a refresh writes begins with what it has read, and repeats nothing.
LEMMA MergedGrows ==
  ASSUME NEW s \in Pools, NEW window \in M!Windows(s)
  PROVE  /\ M!Merged(s, window) \in Pools
         /\ M!IsPrefix(s, M!Merged(s, window))
         /\ M!Range(s) \subseteq M!Range(M!Merged(s, window))
<1> DEFINE all == s \o window
           k == IF Len(all) > MIX_POOL_CAP THEN MIX_POOL_CAP ELSE Len(all)
           cap == M!Merged(s, window)
<1>1. s \in Seq(Station) /\ NoTwice(s) /\ Len(s) <= MIX_POOL_CAP /\ Len(s) \in Nat /\ MIX_POOL_CAP \in Nat
  BY DEF Pools
<1>2. window \in Seq(Station) /\ NoTwice(window) /\ M!Range(window) \cap M!Range(s) = {}
  BY DEF M!Windows, M!Distinct, M!IsInjective, NoTwice
<1>3. /\ all \in Seq(Station) /\ Len(all) = Len(s) + Len(window)
      /\ \A i \in 1 .. Len(s) + Len(window) : all[i] = IF i <= Len(s) THEN s[i] ELSE window[i - Len(s)]
  BY <1>1, <1>2, ConcatProperties
<1>4. NoTwice(all)
  <2>1. \A i \in 1 .. Len(s), j \in 1 .. Len(window) : s[i] # window[j]
    BY <1>1, <1>2 DEF M!Range
  <2> HIDE DEF all
  <2> SUFFICES ASSUME NEW i \in 1 .. Len(s) + Len(window), NEW j \in 1 .. Len(s) + Len(window), all[i] = all[j]
               PROVE  i = j
    BY <1>3 DEF NoTwice
  <2>2. CASE i <= Len(s) /\ j <= Len(s)
    BY <1>1, <1>3, <2>2 DEF NoTwice
  <2>3. CASE i > Len(s) /\ j > Len(s)
    <3>1. i - Len(s) \in 1 .. Len(window) /\ j - Len(s) \in 1 .. Len(window) /\ window[i - Len(s)] = window[j - Len(s)]
      BY <1>1, <1>2, <1>3, <2>3
    <3>2. i - Len(s) = j - Len(s)
      BY <1>2, <3>1 DEF NoTwice
    <3> QED
      BY <1>1, <3>2
  <2>4. CASE i <= Len(s) /\ j > Len(s)
    BY <1>1, <1>2, <1>3, <2>1, <2>4
  <2>5. CASE i > Len(s) /\ j <= Len(s)
    <3>1. i - Len(s) \in 1 .. Len(window) /\ j \in 1 .. Len(s) /\ s[j] = window[i - Len(s)]
      BY <1>1, <1>2, <1>3, <2>5
    <3> QED
      BY <2>1, <3>1
  <2> QED
    BY <1>1, <2>2, <2>3, <2>4, <2>5
<1>5. k \in Len(s) .. Len(all) /\ k <= MIX_POOL_CAP /\ cap = SubSeq(all, 1, k)
  BY <1>1, <1>2, <1>3 DEF M!Merged, M!Capped
<1> HIDE DEF all, k, cap
<1>6. cap \in Seq(Station) /\ Len(cap) = k /\ \A i \in 1 .. k : cap[i] = all[i]
  BY <1>1, <1>3, <1>5, SubSeqProperties
<1>7. cap \in Pools
  <2>1. \A i \in 1 .. k : i \in DOMAIN all
    BY <1>1, <1>2, <1>3, <1>5
  <2>2. NoTwice(cap)
    BY <1>4, <1>6, <2>1 DEF NoTwice
  <2> QED
    BY <1>5, <1>6, <2>2 DEF Pools
<1>8. \A i \in 1 .. Len(s) : cap[i] = s[i]
  BY <1>1, <1>2, <1>3, <1>5, <1>6
<1>9. M!IsPrefix(s, cap)
  <2>1. SubSeq(s, 1, Len(s)) = SubSeq(cap, 1, Len(s))
    BY <1>1, <1>5, <1>6, <1>8
  <2> QED
    BY <1>1, <1>5, <1>6, <2>1 DEF M!IsPrefix
<1>10. M!Range(s) \subseteq M!Range(cap)
  <2>1. \A i \in 1 .. Len(s) : i \in 1 .. Len(cap)
    BY <1>1, <1>2, <1>3, <1>5, <1>6
  <2>2. DOMAIN s = 1 .. Len(s) /\ DOMAIN cap = 1 .. Len(cap)
    BY <1>1, <1>6
  <2> QED
    BY <1>8, <2>1, <2>2 DEF M!Range
<1> QED
  BY <1>7, <1>9, <1>10 DEF cap

\* With nothing in the pool and nobody asking, all is in order.
LEMMA EmptyPool ==
  /\ <<>> \in Pools /\ <<>> \in Walks(<<>>)
  /\ M!Idle \in [hop : Station, pool : Pools, walked : Seq(Station), at : {"idle", "asking"}]
  /\ M!Idle.walked \in Walks(M!Idle.pool) /\ M!Idle.at # "asking"
  BY DEF M!Idle, Pools, Walks, NoTwice, M!Range

\* The invariant survives every refresh, however many overlap, and a cleared Redis.
LEMMA MixInvStep ==
  ASSUME MixInv, [M!MixNext]_(M!mixVars)
  PROVE  MixInv'
<1> USE DEF MixInv
<1>1. ASSUME NEW c \in Callers, M!Ask(c) PROVE MixInv'
  <2>1. refresh' = [refresh EXCEPT ![c] = [hop |-> M!Hop, pool |-> pool, walked |-> M!Walk, at |-> "asking"]]
    BY <1>1 DEF M!Ask
  <2>2. M!Hop \in Station /\ M!Walk \in Walks(pool) /\ M!Walk \in Seq(Station)
    BY WalkGoesOn DEF Walks
  <2>3. UNCHANGED <<pool, walked, fresh>> /\ overtaken' = overtaken \ {c}
    BY <1>1 DEF M!Ask
  <2> QED
    BY <2>1, <2>2, <2>3 DEF Walks
<1>2. ASSUME NEW c \in Callers, M!Answered(c) PROVE MixInv'
  <2>1. PICK window \in M!Windows(refresh[c].pool) : pool' = M!Merged(refresh[c].pool, window)
    BY <1>2 DEF M!Answered
  <2>2. pool' \in Pools /\ M!Range(refresh[c].pool) \subseteq M!Range(pool')
    BY <2>1, MergedGrows
  <2>3. walked' \in Walks(pool')
    BY <1>2, <2>2 DEF M!Answered, Walks
  <2>4. refresh' = [refresh EXCEPT ![c] = M!Idle] /\ overtaken' = {d \in Callers \ {c} : refresh[d].at = "asking"}
        /\ fresh' \in BOOLEAN
    BY <1>2 DEF M!Answered
  <2> QED
    BY <2>2, <2>3, <2>4, EmptyPool
<1>3. ASSUME NEW c \in Callers, M!HopFails(c) PROVE MixInv'
  <2>4. refresh' = [refresh EXCEPT ![c] = M!Idle] /\ overtaken' = overtaken \ {c}
        /\ fresh' \in BOOLEAN /\ UNCHANGED <<pool, walked>>
    BY <1>3 DEF M!HopFails
  <2> QED
    BY <2>4, EmptyPool DEF Walks
<1>4. CASE M!Stale
  BY <1>4 DEF M!Stale, Walks
<1>5. CASE M!Forget
  <2>1. pool' = <<>> /\ walked' = <<>> /\ fresh' \in BOOLEAN /\ UNCHANGED refresh
        /\ overtaken' = {d \in Callers : refresh[d].at = "asking"}
    BY <1>5 DEF M!Forget
  <2>2. <<>> \in Pools /\ <<>> \in Walks(<<>>)
    BY EmptyPool
  <2> QED
    BY <2>1, <2>2
<1>6. CASE UNCHANGED M!mixVars
  BY <1>6 DEF M!mixVars, Walks
<1> QED
  BY <1>1, <1>2, <1>3, <1>4, <1>5, <1>6 DEF M!MixNext

\* So what any refresh writes back is a pool and a walk within it.
LEMMA MixStays == Spec => []MixInv
<1>1. Init => MixInv
  <2> SUFFICES ASSUME M!MixInit PROVE MixInv
    BY DEF Init
  <2>1. pool = <<>> /\ walked = <<>> /\ fresh \in BOOLEAN /\ overtaken \subseteq Callers
        /\ refresh = [c \in Callers |-> M!Idle]
    BY DEF M!MixInit
  <2> QED
    BY <2>1, EmptyPool DEF MixInv
<1>2. MixInv /\ [Next]_servicesVars => MixInv'
  BY StepsOfParts, MixInvStep
<1> QED
  BY <1>1, <1>2, PTL DEF Spec

\* What is walked stays within the pool and the seed, so that a lap ends.
THEOREM LapEndsAlways == Spec => []LapEnds
<1>1. MixInv => LapEnds
  BY DEF MixInv, Walks, LapEnds, M!LapEnds
<1> QED
  BY <1>1, MixStays, PTL

\* A refresh loses nothing the pool had and reorders nothing, unless it began
\* before another one wrote: then it writes back what it had read itself.
THEOREM PoolClimbsAlways == Spec => PoolClimbs
<1> DEFINE Climbs == \A c \in Callers :
             M!Answered(c) => (IF c \in overtaken THEN M!IsPrefix(refresh[c].pool, pool') ELSE M!IsPrefix(pool, pool'))
<1>1. MixInv => [Climbs]_(M!mixVars)
  <2> SUFFICES ASSUME MixInv, NEW c \in Callers, M!Answered(c)
               PROVE  IF c \in overtaken THEN M!IsPrefix(refresh[c].pool, pool') ELSE M!IsPrefix(pool, pool')
    OBVIOUS
  <2>1. refresh[c].pool \in Pools /\ (c \in overtaken \/ refresh[c].pool = pool)
    BY DEF MixInv, M!Answered
  <2>2. M!IsPrefix(refresh[c].pool, pool')
    BY <2>1, MergedGrows DEF M!Answered
  <2> QED
    BY <2>1, <2>2
<1>2. Spec => [][Climbs]_(M!mixVars)
  <2> HIDE DEF Climbs
  <2> QED
    BY <1>1, MixStays, PTL
<1> QED
  BY <1>2 DEF PoolClimbs, M!PoolClimbs

-----------------------------------------------------------------------------
(***************************************************************************)
(* Radio.  Nothing that could have been played outranks the pick by more   *)
(* than the band that the draw shuffles.                                   *)
(***************************************************************************)
RadioInv ==
  /\ candidates \in Seq(Videos) /\ outings \in [Artists -> Nat]
  /\ picked \in {"no pool", "nothing yet", None} \cup Videos
  /\ picked = "no pool" => candidates = <<>>
  /\ picked \in Videos => \A v \in R!Alive : R!Rank(v) <= R!Rank(picked) + R!DRAW_BAND
  /\ R!RadioPlaysOn

\* What the catalogue and the bounds of a pick are.
LEMMA RadioConstants ==
  /\ None \notin Artists \cup Videos \cup {"no pool", "nothing yet"}
  /\ {"no pool", "nothing yet"} \cap Videos = {}
  /\ Catalogue \in [Videos -> [words : 0 .. 502, dated : BOOLEAN, catalog : BOOLEAN, topic : BOOLEAN,
                               verified : BOOLEAN, over : BOOLEAN, clip : BOOLEAN,
                               artist : Artists \cup {None}]]
  /\ Outings \subseteq Nat /\ PICK_FROM_TOP \in Nat /\ MAX_CANDIDATES \in Nat
  BY DEF R!RadioAssumption

\* What a rank is made of: the scores and the outings of an artist are worth less
\* than a cooldown, and all three less than a replay.
LEMMA RankTiers ==
  ASSUME outings \in [Artists -> Nat], NEW v \in Videos
  PROVE  \E base \in Int : /\ -860 <= base /\ base <= 32
           /\ R!Rank(v) = base - (IF R!OnCooldown(v) THEN 1000 ELSE 0) - (IF v \in recent THEN 5000 ELSE 0)
<1> DEFINE c == Catalogue[v]
<1>1. c \in [words : 0 .. 502, dated : BOOLEAN, catalog : BOOLEAN, topic : BOOLEAN,
             verified : BOOLEAN, over : BOOLEAN, clip : BOOLEAN, artist : Artists \cup {None}]
  BY RadioConstants
<1>2. R!song_score(v) \in Int /\ -610 <= R!song_score(v) /\ R!song_score(v) <= 32
  <2>1. \A b, n : R!If(b, n) = n \/ R!If(b, n) = 0
    BY DEF R!If
  <2>2. c.words \in 0 .. 502
    BY <1>1
  <2> DEFINE marks == R!If(c.catalog, 14) + R!If(c.topic, 14) + R!If(c.verified, 4)
             faults == R!If(c.dated, 18) + R!If(c.over, 60) + R!If(c.clip, 30)
  <2>3. marks \in 0 .. 32 /\ faults \in 0 .. 108
    BY <2>1
  <2>4. R!song_score(v) = marks - c.words - faults
    <3>1. /\ R!If(c.catalog, 14) \in Int /\ R!If(c.topic, 14) \in Int /\ R!If(c.verified, 4) \in Int
          /\ R!If(c.dated, 18) \in Int /\ R!If(c.over, 60) \in Int /\ R!If(c.clip, 30) \in Int
      BY <2>1
    <3>2. R!song_score(v) = R!If(c.catalog, 14) + R!If(c.topic, 14) + R!If(c.verified, 4)
                            - c.words - R!If(c.dated, 18) - R!If(c.over, 60) - R!If(c.clip, 30)
      BY DEF R!song_score
    <3> HIDE DEF c
    <3> QED
      BY <2>2, <3>1, <3>2
  <2>5. \A a \in 0 .. 32, w \in 0 .. 502, f \in 0 .. 108 :
          a - w - f \in Int /\ -610 <= a - w - f /\ a - w - f <= 32
    OBVIOUS
  <2>6. marks - c.words - faults \in Int /\ -610 <= marks - c.words - faults /\ marks - c.words - faults <= 32
    <3> HIDE DEF c, marks, faults
    <3> QED
      BY ZenonT(30), <2>2, <2>3, <2>5
  <2> QED
    BY <2>4, <2>6
<1> DEFINE repeats == R!If(c.artist # None, R!Repeats(outings[c.artist]))
<1>3. repeats \in 0 .. 250
  <2>1. \A n \in Nat : R!Repeats(n) \in 0 .. 250
    BY DEF R!Repeats, R!ARTIST_REPEAT_PENALTY, R!ARTIST_REPEAT_CAP
  <2>2. c.artist # None => outings[c.artist] \in Nat
    BY <1>1
  <2> QED
    BY <2>1, <2>2 DEF R!If
<1>4. R!Rank(v) = R!song_score(v) - repeats - (IF R!OnCooldown(v) THEN 1000 ELSE 0) - (IF v \in recent THEN 5000 ELSE 0)
  BY DEF R!Rank, R!If, R!COOLDOWN_PENALTY, R!REPLAY_PENALTY
<1> HIDE DEF c, repeats
<1>5. R!song_score(v) - repeats \in Int /\ -860 <= R!song_score(v) - repeats /\ R!song_score(v) - repeats <= 32
  BY <1>2, <1>3
<1> QED
  BY <1>4, <1>5

\* Ranks can be compared.
LEMMA RankIsNumber ==
  ASSUME outings \in [Artists -> Nat], NEW v \in Videos
  PROVE  R!Rank(v) \in Int
  BY RankTiers

\* What rank_pool gives holds everything that may be picked, the higher ranks first.
LEMMA RankingIsSorted ==
  ASSUME candidates \in Seq(Videos), outings \in [Artists -> Nat], NEW ranked \in R!rank_pool
  PROVE  /\ ranked \in Seq(Videos) /\ Len(ranked) <= Len(candidates)
         /\ \A i, j \in DOMAIN ranked : i < j => R!Rank(ranked[i]) >= R!Rank(ranked[j])
         /\ \A v \in R!Range(candidates) \ queued : \E j \in DOMAIN ranked : ranked[j] = v
<1> DEFINE those == {i \in DOMAIN candidates : R!Eligible(candidates[i])}
           n == R!Cardinality(those)
<1>1. n \in Nat /\ n <= Len(candidates)
  <2>1. IsFiniteSet(1 .. Len(candidates)) /\ Cardinality(1 .. Len(candidates)) = Len(candidates)
    <3>1. Len(candidates) \in Nat
      OBVIOUS
    <3>2. 1 > Len(candidates) => Len(candidates) = 0
      BY <3>1
    <3> HIDE DEF those, n
    <3>3. Cardinality(1 .. Len(candidates)) = IF 1 > Len(candidates) THEN 0 ELSE Len(candidates) - 1 + 1
      BY <3>1, FS_Interval
    <3> QED
      BY SMTT(30), <3>1, <3>2, <3>3, FS_Interval
  <2>2. those \in SUBSET (1 .. Len(candidates))
    OBVIOUS
  <2>3. n = Cardinality(those)
    BY DEF R!Cardinality, Cardinality
  <2> HIDE DEF those, n
  <2> QED
    BY <2>1, <2>2, <2>3, FS_Subset, FS_CardinalityType
<1>2. PICK o \in [1 .. n -> those] :
        /\ R!Range(o) = those /\ \A i, j \in DOMAIN o : i < j => R!Better(o[i], o[j])
        /\ ranked = [i \in DOMAIN o |-> candidates[o[i]]]
  BY DEF R!rank_pool
<1> HIDE DEF n
<1>3. /\ DOMAIN ranked = 1 .. n
      /\ \A i \in 1 .. n : ranked[i] = candidates[o[i]] /\ o[i] \in DOMAIN candidates /\ ranked[i] \in Videos
  BY <1>2
<1>4. ranked \in Seq(Videos) /\ Len(ranked) = n
  BY <1>1, <1>2, <1>3
<1>5. \A i, j \in DOMAIN ranked : i < j => R!Rank(ranked[i]) >= R!Rank(ranked[j])
  BY <1>2, <1>3, RankIsNumber DEF R!Better
<1>6. ASSUME NEW v \in R!Range(candidates) \ queued PROVE \E j \in DOMAIN ranked : ranked[j] = v
  <2>1. PICK i \in those : candidates[i] = v
    BY DEF R!Range, R!Eligible
  <2>2. PICK j \in 1 .. n : o[j] = i
    BY <1>2, <2>1 DEF R!Range
  <2> QED
    BY <1>3, <2>1, <2>2
<1> QED
  BY <1>1, <1>4, <1>5, <1>6

\* What the draw puts first is within the band of what was first, and what it
\* puts elsewhere is where it was.
LEMMA DrawStaysInBand ==
  ASSUME NEW ranked \in Seq(Videos), outings \in [Artists -> Nat], candidates \in Seq(Videos),
         \A i, j \in DOMAIN ranked : i < j => R!Rank(ranked[i]) >= R!Rank(ranked[j]),
         NEW drawn \in R!Draws(ranked)
  PROVE  /\ DOMAIN drawn = DOMAIN ranked /\ drawn \in Seq(Videos)
         /\ \A j \in DOMAIN ranked : \E i \in DOMAIN drawn : drawn[i] = ranked[j]
         /\ \A i, j \in DOMAIN ranked :
              R!Rank(ranked[j]) > R!Rank(drawn[i]) + R!DRAW_BAND => \E k \in DOMAIN drawn : k < i /\ drawn[k] = ranked[j]
<1> DEFINE tied == {i \in DOMAIN ranked : R!InBand(ranked, i)}
<1>1. PICK p \in [tied -> tied] :
        R!Range(p) = tied /\ drawn = [i \in DOMAIN ranked |-> ranked[IF i \in tied THEN p[i] ELSE i]]
  BY DEF R!Draws
<1>2. DOMAIN ranked = 1 .. Len(ranked) /\ \A i \in DOMAIN ranked : ranked[i] \in Videos /\ R!Rank(ranked[i]) \in Int
  BY RankIsNumber
<1>3. \A i \in tied : i \in DOMAIN ranked /\ R!Rank(ranked[1]) - R!Rank(ranked[i]) <= R!DRAW_BAND
  BY DEF R!InBand
<1>4. \A i \in tied, j \in DOMAIN ranked : j <= i => j \in tied
  <2> SUFFICES ASSUME NEW i \in tied, NEW j \in DOMAIN ranked, j <= i PROVE R!InBand(ranked, j)
    OBVIOUS
  <2>1. R!Top \in Nat
    <3>1. PICK_FROM_TOP \in Nat
      BY RadioConstants
    <3>2. Len(candidates) \in Nat
      OBVIOUS
    <3> QED
      BY <3>1, <3>2 DEF R!Top
  <2>2. R!Rank(ranked[j]) >= R!Rank(ranked[i]) /\ 1 \in DOMAIN ranked
    BY <1>2
  <2>3. i <= R!Top /\ R!Rank(ranked[1]) - R!Rank(ranked[i]) <= R!DRAW_BAND
    BY DEF R!InBand
  <2> HIDE DEF tied
  <2>4. i \in DOMAIN ranked
    BY DEF tied
  <2> QED
    BY SMTT(30), <1>2, <2>1, <2>2, <2>3, <2>4 DEF R!InBand, R!DRAW_BAND
<1>5. \A i \in DOMAIN ranked : /\ i \in tied => p[i] \in tied /\ drawn[i] = ranked[p[i]]
                               /\ i \notin tied => drawn[i] = ranked[i]
  BY <1>1
<1>6. \A i \in tied : \E j \in tied : p[j] = i
  BY <1>1 DEF R!Range
<1>7. DOMAIN drawn = DOMAIN ranked
  BY <1>1
<1> HIDE DEF tied
<1>8. drawn \in Seq(Videos)
  <2>1. \A i \in 1 .. Len(ranked) : drawn[i] \in Videos
    BY <1>2, <1>3, <1>5
  <2>2. drawn = [i \in 1 .. Len(ranked) |-> drawn[i]]
    BY <1>1, <1>2
  <2> QED
    BY <2>1, <2>2
<1>9. \A j \in DOMAIN ranked : \E i \in DOMAIN drawn : drawn[i] = ranked[j]
  BY <1>3, <1>5, <1>6, <1>7
<1>10. ASSUME NEW i \in DOMAIN ranked, NEW j \in DOMAIN ranked,
              R!Rank(ranked[j]) > R!Rank(drawn[i]) + R!DRAW_BAND
       PROVE  \E k \in DOMAIN drawn : k < i /\ drawn[k] = ranked[j]
  <2>1. R!Rank(ranked[1]) >= R!Rank(ranked[j]) /\ 1 \in DOMAIN ranked
    BY <1>2
  <2>2. i \notin tied
    <3> SUFFICES ASSUME i \in tied PROVE FALSE
      OBVIOUS
    <3>1. p[i] \in DOMAIN ranked /\ R!Rank(ranked[1]) - R!Rank(ranked[p[i]]) <= R!DRAW_BAND /\ drawn[i] = ranked[p[i]]
      BY <1>3, <1>5
    <3>2. R!Rank(ranked[j]) > R!Rank(ranked[p[i]]) + R!DRAW_BAND
      BY <1>10, <3>1
    <3> QED
      BY SMTT(30), <1>2, <2>1, <3>1, <3>2 DEF R!DRAW_BAND
  <2>3. drawn[i] = ranked[i] /\ j < i
    BY <1>2, <1>5, <1>10, <2>2 DEF R!DRAW_BAND
  <2>4. CASE j \notin tied
    BY <1>5, <1>7, <2>3, <2>4
  <2>5. CASE j \in tied
    <3>1. PICK k \in tied : p[k] = j
      BY <1>6, <2>5
    <3>2. k < i
      BY <1>2, <1>3, <1>4, <2>2, <3>1
    <3> QED
      BY <1>3, <1>5, <1>7, <3>1, <3>2
  <2> QED
    BY <2>4, <2>5
<1> QED
  BY <1>7, <1>8, <1>9, <1>10

\* What a pick leaves open is within the band of it, and nothing is left open
\* when it finds nothing among the first it tries.
LEMMA PickLeaves ==
  ASSUME RadioInv, R!Pick
  PROVE  /\ picked' \in Videos \cup {None}
         /\ picked' \in Videos => \A v \in R!Alive' : R!Rank(v) <= R!Rank(picked') + R!DRAW_BAND
         /\ picked' = None => R!Alive' = {} \/ Len(candidates) > MAX_CANDIDATES
<1>0. PICK ranked \in R!rank_pool : \E drawn \in R!Draws(ranked) :
        LET n == IF Len(drawn) < MAX_CANDIDATES THEN Len(drawn) ELSE MAX_CANDIDATES
            alive == {i \in 1 .. n : drawn[i] \notin dead'}
        IN picked' = IF alive = {} THEN None ELSE drawn[CHOOSE i \in alive : \A j \in alive : i <= j]
  BY DEF R!Pick
<1>1. PICK drawn \in R!Draws(ranked) :
        LET n == IF Len(drawn) < MAX_CANDIDATES THEN Len(drawn) ELSE MAX_CANDIDATES
            alive == {i \in 1 .. n : drawn[i] \notin dead'}
        IN picked' = IF alive = {} THEN None ELSE drawn[CHOOSE i \in alive : \A j \in alive : i <= j]
  BY <1>0
<1> DEFINE n == IF Len(drawn) < MAX_CANDIDATES THEN Len(drawn) ELSE MAX_CANDIDATES
           alive == {i \in 1 .. n : drawn[i] \notin dead'}
<1>2. candidates \in Seq(Videos) /\ outings \in [Artists -> Nat]
  BY DEF RadioInv
<1>3. /\ ranked \in Seq(Videos) /\ Len(ranked) <= Len(candidates)
      /\ \A i, j \in DOMAIN ranked : i < j => R!Rank(ranked[i]) >= R!Rank(ranked[j])
      /\ \A v \in R!Range(candidates) \ queued : \E j \in DOMAIN ranked : ranked[j] = v
  BY <1>2, RankingIsSorted
<1>4. /\ DOMAIN drawn = DOMAIN ranked /\ drawn \in Seq(Videos)
      /\ \A j \in DOMAIN ranked : \E i \in DOMAIN drawn : drawn[i] = ranked[j]
      /\ \A i, j \in DOMAIN ranked :
           R!Rank(ranked[j]) > R!Rank(drawn[i]) + R!DRAW_BAND => \E k \in DOMAIN drawn : k < i /\ drawn[k] = ranked[j]
  BY <1>2, <1>3, DrawStaysInBand
<1>5. /\ MAX_CANDIDATES \in Nat /\ Len(drawn) \in Nat /\ DOMAIN drawn = 1 .. Len(drawn)
      /\ Len(drawn) = Len(ranked) /\ Len(candidates) \in Nat
  <2>1. \A a, b \in Nat : 1 .. a = 1 .. b => a = b
    <3> SUFFICES ASSUME NEW a \in Nat, NEW b \in Nat, 1 .. a = 1 .. b, a # b PROVE FALSE
      OBVIOUS
    <3>1. CASE a < b
      <4>1. b \in 1 .. b /\ b \notin 1 .. a
        BY <3>1
      <4> QED
        BY <4>1
    <3>2. CASE b < a
      <4>1. a \in 1 .. a /\ a \notin 1 .. b
        BY <3>2
      <4> QED
        BY <4>1
    <3> QED
      BY <3>1, <3>2
  <2>2. ranked \in Seq(Videos) /\ drawn \in Seq(Videos) /\ candidates \in Seq(Videos)
    BY <1>2, <1>3, <1>4
  <2>3. /\ DOMAIN ranked = 1 .. Len(ranked) /\ Len(ranked) \in Nat
        /\ DOMAIN drawn = 1 .. Len(drawn) /\ Len(drawn) \in Nat /\ Len(candidates) \in Nat
    BY <2>2
  <2>4. Len(drawn) = Len(ranked)
    BY <1>4, <2>1, <2>3
  <2> QED
    BY <2>3, <2>4, RadioConstants
<1>6. /\ n \in Nat /\ 1 .. n \subseteq DOMAIN drawn
      /\ Len(candidates) <= MAX_CANDIDATES => 1 .. n = DOMAIN drawn
  <2>1. MAX_CANDIDATES \in Nat /\ Len(drawn) \in Nat /\ Len(candidates) \in Nat
    BY <1>5
  <2>2. n \in Nat /\ n <= Len(drawn) /\ (Len(drawn) <= MAX_CANDIDATES => n = Len(drawn))
    BY <2>1
  <2>3. Len(drawn) <= Len(candidates)
    BY <1>3, <1>5
  <2>4. Len(candidates) <= MAX_CANDIDATES => n = Len(drawn)
    BY <2>1, <2>2, <2>3
  <2>5. DOMAIN drawn = 1 .. Len(drawn)
    BY <1>5
  <2>6. \A a, b \in Nat : a <= b => 1 .. a \subseteq 1 .. b
    OBVIOUS
  <2> HIDE DEF n
  <2>7. 1 .. n \subseteq 1 .. Len(drawn)
    BY <2>1, <2>2, <2>6
  <2>8. Len(candidates) <= MAX_CANDIDATES => 1 .. n = 1 .. Len(drawn)
    BY <2>4
  <2> QED
    BY <2>2, <2>5, <2>7, <2>8, Zenon
<1>7. \A v \in R!Alive' : v \notin dead' /\ \E j \in DOMAIN ranked : ranked[j] = v
  <2>1. UNCHANGED <<candidates, queued>>
    BY DEF R!Pick
  <2>2. R!Alive' = {v \in R!Range(candidates) : v \notin queued \cup dead'}
    BY <2>1 DEF R!Alive, R!Range
  <2> QED
    BY <1>3, <2>2
<1>8. CASE alive = {}
  <2>1. picked' = None
    BY <1>1, <1>8
  <2>2. ASSUME NEW v \in R!Alive', Len(candidates) <= MAX_CANDIDATES PROVE FALSE
    <3>1. PICK i \in DOMAIN drawn : drawn[i] = v
      BY <1>4, <1>7
    <3>2. i \in 1 .. n
      BY <1>6, <2>2, <3>1
    <3> QED
      BY <1>7, <1>8, <3>1, <3>2
  <2>3. R!Alive' = {} \/ Len(candidates) > MAX_CANDIDATES
    BY <1>5, <2>2
  <2> QED
    BY <2>1, <2>3, RadioConstants
<1>9. CASE alive # {}
  <2>1. alive \subseteq Nat
    BY <1>6
  <2> DEFINE k == CHOOSE i \in alive : \A j \in alive : i <= j
  <2>2. k \in alive /\ \A j \in alive : k <= j
    <3> HIDE DEF alive
    <3> QED
      BY <1>9, <2>1, Least
  <2>3. picked' = drawn[k]
    BY <1>1, <1>9
  <2> HIDE DEF k
  <2>4. k \in 1 .. n /\ k \in DOMAIN drawn /\ drawn[k] \in Videos
    <3>1. k \in 1 .. n
      BY <2>2
    <3>2. k \in DOMAIN drawn
      BY <1>6, <3>1
    <3>3. drawn \in Seq(Videos)
      BY <1>4
    <3> QED
      BY <3>1, <3>2, <3>3
  <2>5. ASSUME NEW v \in R!Alive' PROVE R!Rank(v) <= R!Rank(drawn[k]) + R!DRAW_BAND
    <3>1. PICK j \in DOMAIN ranked : ranked[j] = v
      BY <1>7
    <3>2. R!Rank(v) \in Int /\ R!Rank(drawn[k]) \in Int
      BY <1>2, <1>3, <2>4, <3>1, RankIsNumber
    <3>3. SUFFICES ASSUME R!Rank(v) > R!Rank(drawn[k]) + R!DRAW_BAND PROVE FALSE
      BY <3>2 DEF R!DRAW_BAND
    <3>4. PICK l \in DOMAIN drawn : l < k /\ drawn[l] = v
      BY <1>4, <2>4, <3>1, <3>3
    <3>5. l \in alive
      <4>1. v \notin dead'
        BY <1>7
      <4>2. l \in Nat \ {0} /\ l < k /\ k \in 1 .. n /\ n \in Nat
        <5>1. \A e \in Nat : \A d \in 1 .. e : d \in Nat \ {0}
          OBVIOUS
        <5>2. l \in 1 .. Len(drawn) /\ Len(drawn) \in Nat
          BY <1>5, <3>4
        <5>3. l \in Nat \ {0}
          BY <5>1, <5>2
        <5> QED
          BY <1>6, <2>4, <3>4, <5>3
      <4>3. l \in 1 .. n
        <5> HIDE DEF n
        <5> QED
          BY <4>2
      <4> QED
        BY <3>4, <4>1, <4>3
    <3> QED
      BY <1>5, <2>2, <2>4, <3>4, <3>5
  <2> QED
    BY ZenonT(30), <2>3, <2>4, <2>5, RadioConstants
<1> QED
  BY <1>8, <1>9

\* The invariant survives every step of a pick.
LEMMA RadioInvStep ==
  ASSUME RadioInv, [R!RadioNext]_(R!radioVars)
  PROVE  RadioInv'
<1>1. CASE R!Fetch
  <2>1. candidates' \in Seq(Videos)
    <3>1. candidates' \in [1 .. 3 -> Videos]
      BY <1>1 DEF R!Fetch
    <3>2. 3 \in Nat
      OBVIOUS
    <3> QED
      BY <3>1, <3>2, SeqDef
  <2>2. outings' \in [Artists -> Nat]
    BY <1>1, RadioConstants DEF R!Fetch
  <2>3. picked' = "nothing yet"
    BY <1>1 DEF R!Fetch
  <2> QED
    BY <2>1, <2>2, <2>3, RadioConstants DEF RadioInv, R!RadioPlaysOn
<1>2. CASE R!NoPool
  <2>1. picked = "no pool" /\ picked' = None /\ UNCHANGED <<candidates, outings>>
    BY <1>2 DEF R!NoPool
  <2>2. candidates' = <<>> /\ candidates' \in Seq(Videos) /\ outings' \in [Artists -> Nat]
    BY <2>1 DEF RadioInv
  <2>3. R!Alive' = {}
    BY <2>2 DEF R!Alive, R!Range
  <2> QED
    BY <2>1, <2>2, <2>3, RadioConstants DEF RadioInv, R!RadioPlaysOn
<1>3. CASE R!Pick
  <2>1. UNCHANGED <<candidates, source, queued, recent, outings, blocked>>
    BY <1>3 DEF R!Pick
  <2>2. \A v : R!Rank(v)' = R!Rank(v)
    BY <2>1 DEF R!Rank, R!song_score, R!OnCooldown, R!If, R!Repeats
  <2>3. R!Rank(picked)' = R!Rank(picked')
    BY <2>1 DEF R!Rank, R!song_score, R!OnCooldown, R!If, R!Repeats
  <2>4. /\ picked' \in Videos \cup {None}
        /\ picked' \in Videos => \A v \in R!Alive' : R!Rank(v) <= R!Rank(picked') + R!DRAW_BAND
        /\ picked' = None => R!Alive' = {} \/ Len(candidates) > MAX_CANDIDATES
    BY <1>3, PickLeaves
  <2>5. candidates' \in Seq(Videos) /\ outings' \in [Artists -> Nat]
    BY <2>1 DEF RadioInv
  <2>6. picked' \in Videos => (\A v \in R!Alive : R!Rank(v) <= R!Rank(picked) + R!DRAW_BAND)'
    BY <2>2, <2>3, <2>4 DEF R!DRAW_BAND
  <2>7. (R!RadioPlaysOn)'
    BY <2>1, <2>4 DEF R!RadioPlaysOn
  <2> QED
    BY <2>4, <2>5, <2>6, <2>7, RadioConstants DEF RadioInv
<1>4. CASE R!Done
  <2>1. candidates' = <<>> /\ outings' = [a \in Artists |-> 0] /\ picked' = "no pool"
    BY <1>4 DEF R!Done
  <2>2. candidates' \in Seq(Videos) /\ outings' \in [Artists -> Nat]
    <3>1. <<>> \in Seq(Videos)
      OBVIOUS
    <3>2. [a \in Artists |-> 0] \in [Artists -> Nat]
      OBVIOUS
    <3> QED
      BY <2>1, <3>1, <3>2
  <2>3. picked' \notin Videos /\ picked' # None
    BY <2>1, RadioConstants
  <2> QED
    BY <2>1, <2>2, <2>3 DEF RadioInv, R!RadioPlaysOn
<1>5. CASE UNCHANGED R!radioVars
  <2>1. UNCHANGED <<candidates, source, queued, recent, outings, blocked, dead, picked>>
    BY <1>5 DEF R!radioVars
  <2>2. R!Alive' = R!Alive
    BY <2>1 DEF R!Alive, R!Range
  <2>3. \A v : R!Rank(v)' = R!Rank(v)
    BY <2>1 DEF R!Rank, R!song_score, R!OnCooldown, R!If, R!Repeats
  <2>4. R!Rank(picked)' = R!Rank(picked)
    BY <2>1 DEF R!Rank, R!song_score, R!OnCooldown, R!If, R!Repeats
  <2>5. picked' \in Videos => (\A v \in R!Alive : R!Rank(v) <= R!Rank(picked) + R!DRAW_BAND)'
    BY <2>1, <2>2, <2>3, <2>4 DEF RadioInv, R!DRAW_BAND
  <2>6. (R!RadioPlaysOn)'
    BY <2>1, <2>2 DEF RadioInv, R!RadioPlaysOn
  <2> QED
    BY <2>1, <2>5, <2>6 DEF RadioInv
<1> QED
  BY <1>1, <1>2, <1>3, <1>4, <1>5 DEF R!RadioNext

\* So it holds of every pick, whatever was played before it.
LEMMA RadioStays == Spec => []RadioInv
<1>1. Init => RadioInv
  <2> SUFFICES ASSUME R!RadioInit PROVE RadioInv
    BY DEF Init
  <2>1. candidates = <<>> /\ outings = [a \in Artists |-> 0] /\ picked = "no pool"
    BY DEF R!RadioInit
  <2>2. candidates \in Seq(Videos) /\ outings \in [Artists -> Nat]
    <3>1. <<>> \in Seq(Videos)
      OBVIOUS
    <3>2. [a \in Artists |-> 0] \in [Artists -> Nat]
      OBVIOUS
    <3> QED
      BY <2>1, <3>1, <3>2
  <2>3. picked \notin Videos /\ picked # None
    BY <2>1, RadioConstants
  <2> QED
    BY <2>1, <2>2, <2>3 DEF RadioInv, R!RadioPlaysOn
<1>2. RadioInv /\ [Next]_servicesVars => RadioInv'
  BY StepsOfParts, RadioInvStep
<1> QED
  BY <1>1, <1>2, PTL DEF Spec

\* A replay is picked only when nothing else can be played, and somebody on
\* cooldown only when all else is a replay, whatever the catalogue and the scores.
THEOREM TiersHoldAlways == Spec => []TiersHold
<1>1. RadioInv => TiersHold
  <2> SUFFICES ASSUME RadioInv, picked \in Videos
               PROVE  /\ picked \in recent => R!Alive \subseteq recent
                      /\ R!OnCooldown(picked) /\ picked \notin recent => \A v \in R!Alive \ recent : R!OnCooldown(v)
    BY DEF TiersHold, R!TiersHold
  <2>1. candidates \in Seq(Videos) /\ outings \in [Artists -> Nat]
    BY DEF RadioInv
  <2>2. PICK b \in Int : /\ -860 <= b /\ b <= 32
          /\ R!Rank(picked) = b - (IF R!OnCooldown(picked) THEN 1000 ELSE 0) - (IF picked \in recent THEN 5000 ELSE 0)
    BY ZenonT(30), <2>1, RankTiers
  <2>3. ASSUME NEW v \in R!Alive \ recent
        PROVE  picked \notin recent /\ (R!OnCooldown(picked) => R!OnCooldown(v))
    <3>1. v \in Videos
      BY <2>1 DEF R!Alive, R!Range
    <3>2. PICK d \in Int : /\ -860 <= d /\ d <= 32
            /\ R!Rank(v) = d - (IF R!OnCooldown(v) THEN 1000 ELSE 0) - (IF v \in recent THEN 5000 ELSE 0)
      BY <2>1, <3>1, RankTiers
    <3>3. R!Rank(v) <= R!Rank(picked) + 40
      BY DEF RadioInv, R!DRAW_BAND
    <3>4. R!Rank(v) = d - (IF R!OnCooldown(v) THEN 1000 ELSE 0)
      BY <3>2
    <3>5. picked \notin recent
      BY <2>2, <3>2, <3>3, <3>4
    <3>6. R!OnCooldown(picked) => R!OnCooldown(v)
      BY <2>2, <3>2, <3>3, <3>4, <3>5
    <3> QED
      BY <3>5, <3>6
  <2> QED
    BY <2>3
<1> QED
  BY <1>1, RadioStays, PTL

\* With something to play among the first it tries, the radio plays.
THEOREM RadioPlaysOnAlways == Spec => []RadioPlaysOn
<1>1. RadioInv => RadioPlaysOn
  BY DEF RadioInv, RadioPlaysOn
<1> QED
  BY <1>1, RadioStays, PTL

-----------------------------------------------------------------------------
(***************************************************************************)
(* The ranking of a search: what is above has no less a score.             *)
(***************************************************************************)
Score(i) == S!score_candidate(answer[i], catalogue)

Ranked ==
  answer # S!NoAnswer =>
    /\ \A i \in DOMAIN answer : answer[i] \in [id : Found, length : S!Lengths]
    /\ DOMAIN answer \subseteq Int
    /\ \A i, j \in DOMAIN answer : i < j => Score(i) >= Score(j)

\* What the hits of a query are.
LEMMA SearchConstants ==
  /\ WORDS \in Nat \ {0} /\ RESULTS \in Nat
  /\ Hits \in [Found -> [words : 0 .. WORDS, titled : 0 .. WORDS, phrase : BOOLEAN, extra : Nat,
                         official : BOOLEAN, variant : Nat, byArtist : BOOLEAN, topic : BOOLEAN,
                         verified : BOOLEAN, length : S!Lengths, plays : Nat]]
  /\ Listings \subseteq Seq(Found)
  BY DEF S!SearchAssumption

\* What a score is made of: the query's words, the little that the title's order
\* and the plays add, what two hits that are alike share, and the length.
OfWords(h) == (200 * h.words) \div WORDS - 60 * (WORDS - h.words)
OfLittle(h) == (40 * h.titled) \div WORDS + S!Points(h.phrase, 24) + S!Popularity(h.plays)
OfOthers(h, known) ==
  S!Points(h.official, 16) + S!Points(known, 28) + S!Points(h.byArtist, 32) + S!Points(h.topic, 24)
    + S!Points(h.verified, 12) - h.extra - h.variant
OfLength(length) == S!Points(length = "long", 90) + S!Points(length = "clip", 50)

\* Integer division rounds down.
LEMMA Quotient ==
  ASSUME NEW a \in Nat, NEW k \in Nat, NEW w \in Nat \ {0}, a <= k * w
  PROVE  a \div w \in Nat /\ a \div w <= k
<1>1. a \div w \in Nat
  OBVIOUS
<1>2. w * (a \div w) <= a
  OBVIOUS
<1>3. w * (a \div w) <= w * k
  BY <1>1, <1>2
<1> QED
  BY <1>1, <1>3

\* A score is the sum of those parts, of which the little is worth 88 half points at most.
LEMMA ScoreParts ==
  ASSUME NEW hit \in [id : Found, length : S!Lengths], NEW named
  PROVE  LET h == Hits[hit.id] IN
         /\ OfWords(h) \in Int /\ OfLittle(h) \in 0 .. 88
         /\ OfOthers(h, hit.id \in named) \in Int /\ OfLength(hit.length) \in 0 .. 140
         /\ S!score_candidate(hit, named)
              = OfWords(h) + OfLittle(h) + OfOthers(h, hit.id \in named) - OfLength(hit.length)
         /\ S!score_candidate(hit, named) \in Int
<1> DEFINE h == Hits[hit.id]
<1>1. h \in [words : 0 .. WORDS, titled : 0 .. WORDS, phrase : BOOLEAN, extra : Nat,
             official : BOOLEAN, variant : Nat, byArtist : BOOLEAN, topic : BOOLEAN,
             verified : BOOLEAN, length : S!Lengths, plays : Nat]
  BY SearchConstants
<1>2. \A b, n : S!Points(b, n) = n \/ S!Points(b, n) = 0
  BY DEF S!Points
<1>3. WORDS \in Nat \ {0} /\ h.words \in 0 .. WORDS /\ h.titled \in 0 .. WORDS /\ h.extra \in Nat
      /\ h.variant \in Nat /\ h.plays \in Nat
  BY <1>1, SearchConstants
<1>4. S!Popularity(h.plays) \in 0 .. 24
  BY <1>3 DEF S!Popularity
<1> HIDE DEF h
<1>5. (40 * h.titled) \div WORDS \in 0 .. 40 /\ (200 * h.words) \div WORDS \in 0 .. 200
  <2>1. 40 * h.titled \in Nat /\ 40 * h.titled <= 40 * WORDS /\ 200 * h.words \in Nat /\ 200 * h.words <= 200 * WORDS
    BY <1>3
  <2>2. (40 * h.titled) \div WORDS \in Nat /\ (40 * h.titled) \div WORDS <= 40
    BY <1>3, <2>1, Quotient
  <2>3. (200 * h.words) \div WORDS \in Nat /\ (200 * h.words) \div WORDS <= 200
    BY <1>3, <2>1, Quotient
  <2> QED
    BY <2>2, <2>3
<1>6. 60 * (WORDS - h.words) \in Nat
  BY <1>3
<1> DEFINE t == (40 * h.titled) \div WORDS
           w == (200 * h.words) \div WORDS
           m == 60 * (WORDS - h.words)
<1>7. OfWords(h) = w - m /\ OfLittle(h) = t + S!Points(h.phrase, 24) + S!Popularity(h.plays)
  BY DEF OfWords, OfLittle
<1>8. S!score_candidate(hit, named) =
        w + t - m
          + S!Points(h.phrase, 24) - h.extra + S!Points(h.official, 16) - h.variant
          + S!Points(hit.id \in named, 28) + S!Points(h.byArtist, 32) + S!Points(h.topic, 24) + S!Points(h.verified, 12)
          - S!Points(hit.length = "long", 90) - S!Points(hit.length = "clip", 50)
          + S!Popularity(h.plays)
  BY DEF S!score_candidate, h
<1>9. t \in 0 .. 40 /\ w \in 0 .. 200 /\ m \in Nat
  BY <1>5, <1>6
<1> HIDE DEF t, w, m
<1>10. /\ S!Points(h.phrase, 24) \in 0 .. 24 /\ S!Points(h.official, 16) \in Nat /\ S!Points(hit.id \in named, 28) \in Nat
       /\ S!Points(h.byArtist, 32) \in Nat /\ S!Points(h.topic, 24) \in Nat /\ S!Points(h.verified, 12) \in Nat
       /\ S!Points(hit.length = "long", 90) \in 0 .. 90 /\ S!Points(hit.length = "clip", 50) \in 0 .. 50
  BY <1>2
<1>11. OfWords(h) \in Int
  BY <1>7, <1>9
<1>12. OfLittle(h) \in 0 .. 88
  BY <1>4, <1>7, <1>9, <1>10
<1>13. OfOthers(h, hit.id \in named) \in Int /\ OfLength(hit.length) \in 0 .. 140
  BY <1>3, <1>10 DEF OfOthers, OfLength
<1>14. S!score_candidate(hit, named)
         = OfWords(h) + OfLittle(h) + OfOthers(h, hit.id \in named) - OfLength(hit.length)
  <2>1. /\ OfOthers(h, hit.id \in named)
             = S!Points(h.official, 16) + S!Points(hit.id \in named, 28) + S!Points(h.byArtist, 32)
                 + S!Points(h.topic, 24) + S!Points(h.verified, 12) - h.extra - h.variant
        /\ OfLength(hit.length) = S!Points(hit.length = "long", 90) + S!Points(hit.length = "clip", 50)
    BY DEF OfOthers, OfLength
  <2>2. /\ S!Points(h.phrase, 24) \in Int /\ S!Points(h.official, 16) \in Int /\ S!Points(hit.id \in named, 28) \in Int
        /\ S!Points(h.byArtist, 32) \in Int /\ S!Points(h.topic, 24) \in Int /\ S!Points(h.verified, 12) \in Int
        /\ S!Points(hit.length = "long", 90) \in Int /\ S!Points(hit.length = "clip", 50) \in Int
        /\ h.extra \in Int /\ h.variant \in Int /\ S!Popularity(h.plays) \in Int /\ t \in Int /\ w \in Int /\ m \in Int
    BY <1>3, <1>4, <1>9, <1>10
  <2> QED
    BY <1>7, <1>8, <2>1, <2>2
<1>15. S!score_candidate(hit, named) \in Int
  BY <1>11, <1>12, <1>13, <1>14
<1> QED
  BY <1>11, <1>12, <1>13, <1>14, <1>15 DEF h

\* What rank_candidates gives is hits of the listing, the higher scores first.
LEMMA AnswerIsSorted ==
  ASSUME NEW hits \in Seq([id : Found, length : S!Lengths]), NEW named, NEW ranked \in S!rank_candidates(hits, named)
  PROVE  /\ DOMAIN ranked \subseteq Int
         /\ \A i \in DOMAIN ranked : ranked[i] \in [id : Found, length : S!Lengths]
         /\ \A i, j \in DOMAIN ranked :
              i < j => S!score_candidate(ranked[i], named) >= S!score_candidate(ranked[j], named)
<1>1. PICK o \in [DOMAIN hits -> DOMAIN hits] :
        /\ S!Range(o) = DOMAIN hits
        /\ \A i, j \in DOMAIN o : i < j =>
             \/ S!score_candidate(hits[o[i]], named) > S!score_candidate(hits[o[j]], named)
             \/ S!score_candidate(hits[o[i]], named) = S!score_candidate(hits[o[j]], named) /\ o[i] < o[j]
        /\ ranked = [i \in {n \in DOMAIN o : n <= RESULTS} |-> hits[o[i]]]
  BY DEF S!rank_candidates
<1>2. DOMAIN hits \subseteq Int /\ \A i \in DOMAIN hits : hits[i] \in [id : Found, length : S!Lengths]
  <2>1. \A those, s : s \in Seq(those) => DOMAIN s \subseteq Int /\ \A i \in DOMAIN s : s[i] \in those
    OBVIOUS
  <2> QED
    BY <2>1, Zenon
<1>3. \A i \in DOMAIN ranked : i \in DOMAIN hits /\ ranked[i] = hits[o[i]] /\ o[i] \in DOMAIN hits
  BY <1>1
<1>4. \A hit \in [id : Found, length : S!Lengths] : S!score_candidate(hit, named) \in Int
  BY ScoreParts, Zenon
<1>5. DOMAIN ranked \subseteq Int /\ DOMAIN o = DOMAIN hits
  BY <1>1, <1>2
<1>6. \A i \in DOMAIN ranked : ranked[i] \in [id : Found, length : S!Lengths]
  BY <1>2, <1>3
<1>7. ASSUME NEW i \in DOMAIN ranked, NEW j \in DOMAIN ranked, i < j
      PROVE  S!score_candidate(ranked[i], named) >= S!score_candidate(ranked[j], named)
  <2>1. S!score_candidate(ranked[i], named) \in Int /\ S!score_candidate(ranked[j], named) \in Int
    BY <1>4, <1>6
  <2>2. \/ S!score_candidate(ranked[i], named) > S!score_candidate(ranked[j], named)
        \/ S!score_candidate(ranked[i], named) = S!score_candidate(ranked[j], named)
    BY <1>1, <1>3, <1>5, <1>7
  <2> QED
    BY <2>1, <2>2
<1> QED
  BY <1>5, <1>6, <1>7

\* An answer that is sorted stays so until it expires.
LEMMA RankedStep ==
  ASSUME Ranked, [S!SearchNext]_(S!searchVars)
  PROVE  Ranked'
<1>1. CASE S!Search
  <2>1. PICK gaps, hits :
          /\ gaps \in SUBSET Found /\ hits \in S!Gathered(gaps)
          /\ \E ranked \in S!rank_candidates(hits, catalogue') : answer' = ranked
    BY <1>1 DEF S!Search
  <2>2. hits \in Seq([id : Found, length : S!Lengths])
    <3>1. PICK found \in Listings : hits = [i \in DOMAIN found |-> S!Listed(found[i], gaps)]
      BY <2>1 DEF S!Gathered
    <3>2. found \in Seq(Found)
      BY SearchConstants
    <3>3. \A v \in Found : S!Listed(v, gaps) \in [id : Found, length : S!Lengths]
      BY SearchConstants DEF S!Listed, S!Lengths
    <3>4. Len(found) \in Nat /\ DOMAIN found = 1 .. Len(found) /\ \A i \in 1 .. Len(found) : found[i] \in Found
      BY <3>2
    <3>5. hits \in [1 .. Len(found) -> [id : Found, length : S!Lengths]]
      BY <3>1, <3>3, <3>4
    <3> QED
      BY ZenonT(30), <3>4, <3>5, SeqDef
  <2>3. PICK ranked \in S!rank_candidates(hits, catalogue') : answer' = ranked
    BY <2>1
  <2>4. /\ DOMAIN ranked \subseteq Int
        /\ \A i \in DOMAIN ranked : ranked[i] \in [id : Found, length : S!Lengths]
        /\ \A i, j \in DOMAIN ranked :
             i < j => S!score_candidate(ranked[i], catalogue') >= S!score_candidate(ranked[j], catalogue')
    BY <2>2, AnswerIsSorted
  <2> QED
    BY <2>3, <2>4 DEF Ranked, Score, S!score_candidate
<1>2. ASSUME UNCHANGED <<answer, catalogue>> PROVE Ranked'
  BY <1>2 DEF Ranked, Score, S!score_candidate
<1>3. CASE S!AnswerExpires
  BY <1>3 DEF S!AnswerExpires, Ranked
<1> QED
  BY <1>1, <1>2, <1>3 DEF S!SearchNext, S!Add, S!Played, S!MetadataExpires, S!searchVars

\* Neither plays nor a length the room refuses lift a hit above a better one,
\* however many words the query has.
THEOREM PlaysBuyNothingAlways == Spec => []PlaysBuyNothing
<1>1. Init => Ranked
  BY DEF Init, S!SearchInit, Ranked
<1>2. Ranked /\ [Next]_servicesVars => Ranked'
  BY StepsOfParts, RankedStep
<1>3. Ranked => PlaysBuyNothing
  <2> SUFFICES ASSUME Ranked, answer # S!NoAnswer, NEW i \in DOMAIN answer, NEW j \in DOMAIN answer,
                      i < j, S!Alike(answer[i].id, answer[j].id)
               PROVE  LET above == Hits[answer[i].id]
                          below == Hits[answer[j].id]
                      IN /\ ~(2 * above.words <= WORDS /\ below.words = WORDS /\ answer[i].length = answer[j].length)
                         /\ ~(answer[i].length = "long" /\ answer[j].length = "song" /\ above.words = below.words)
    BY DEF PlaysBuyNothing, S!PlaysBuyNothing
  <2>1. answer[i] \in [id : Found, length : S!Lengths] /\ answer[j] \in [id : Found, length : S!Lengths]
    BY DEF Ranked
  <2> DEFINE above == Hits[answer[i].id]
             below == Hits[answer[j].id]
             others == OfOthers(below, answer[j].id \in catalogue)
  <2>2. above \in [words : 0 .. WORDS, titled : 0 .. WORDS, phrase : BOOLEAN, extra : Nat,
                   official : BOOLEAN, variant : Nat, byArtist : BOOLEAN, topic : BOOLEAN,
                   verified : BOOLEAN, length : S!Lengths, plays : Nat]
        /\ below \in [words : 0 .. WORDS, titled : 0 .. WORDS, phrase : BOOLEAN, extra : Nat,
                      official : BOOLEAN, variant : Nat, byArtist : BOOLEAN, topic : BOOLEAN,
                      verified : BOOLEAN, length : S!Lengths, plays : Nat]
    BY <2>1, SearchConstants
  <2>3. OfOthers(above, answer[i].id \in catalogue) = others
    <3>1. [above EXCEPT !.words = 0, !.titled = 0, !.phrase = FALSE, !.length = "song", !.plays = 0]
          = [below EXCEPT !.words = 0, !.titled = 0, !.phrase = FALSE, !.length = "song", !.plays = 0]
      BY DEF S!Alike
    <3>2. (answer[i].id \in catalogue) = (answer[j].id \in catalogue)
      BY DEF S!Alike
    <3> HIDE DEF above, below
    <3>3. /\ above.extra = below.extra /\ above.official = below.official /\ above.variant = below.variant
          /\ above.byArtist = below.byArtist /\ above.topic = below.topic /\ above.verified = below.verified
      BY <2>2, <3>1
    <3> QED
      BY <3>2, <3>3 DEF OfOthers
  <2>4. /\ OfWords(above) \in Int /\ OfLittle(above) \in 0 .. 88 /\ others \in Int /\ OfLength(answer[i].length) \in Int
        /\ Score(i) = OfWords(above) + OfLittle(above) + others - OfLength(answer[i].length)
    BY <2>1, <2>3, ScoreParts DEF Score
  <2>5. /\ OfWords(below) \in Int /\ OfLittle(below) \in 0 .. 88 /\ OfLength(answer[j].length) \in Int
        /\ Score(j) = OfWords(below) + OfLittle(below) + others - OfLength(answer[j].length)
    BY <2>1, ScoreParts DEF Score
  <2>6. Score(i) >= Score(j)
    BY DEF Ranked
  <2> HIDE DEF above, below, others
  <2>7. ASSUME 2 * above.words <= WORDS, below.words = WORDS, answer[i].length = answer[j].length PROVE FALSE
    <3>1. above.words \in 0 .. WORDS /\ WORDS \in Nat \ {0}
      BY <2>2, SearchConstants
    <3>2. OfWords(above) <= 100
      <4>1. 200 * above.words \in Nat /\ 200 * above.words <= 100 * WORDS /\ 60 * (WORDS - above.words) \in Nat
        BY <2>7, <3>1
      <4>2. (200 * above.words) \div WORDS \in Nat /\ (200 * above.words) \div WORDS <= 100
        BY <3>1, <4>1, Quotient
      <4> QED
        BY <4>1, <4>2 DEF OfWords
    <3>3. OfWords(below) = 200
      BY <2>7, <3>1 DEF OfWords
    <3> QED
      BY <2>4, <2>5, <2>6, <2>7, <3>2, <3>3
  <2>8. ASSUME answer[i].length = "long", answer[j].length = "song", above.words = below.words PROVE FALSE
    <3>1. OfWords(above) = OfWords(below)
      BY <2>8 DEF OfWords
    <3>2. OfLength(answer[i].length) = 90 /\ OfLength(answer[j].length) = 0
      BY <2>8 DEF OfLength, S!Points
    <3> QED
      BY <2>4, <2>5, <2>6, <3>1, <3>2
  <2> QED
    BY <2>7, <2>8 DEF above, below
<1> QED
  BY <1>1, <1>2, <1>3, PTL DEF Spec

-----------------------------------------------------------------------------
(***************************************************************************)
(* The types of all parts.                                                 *)
(***************************************************************************)
\* A walk repeats nothing and stays within the pool and the seed: so it is at most
\* one longer than a pool.
LEMMA WalkIsShort ==
  ASSUME NEW s \in Pools, NEW w \in Walks(s)
  PROVE  Len(w) <= MIX_POOL_CAP + 1
<1> DEFINE m == Len(s)
           n == Len(w)
           kept == M!Range(s)
<1>1. s \in Seq(Station) /\ w \in Seq(Station) /\ m \in Nat /\ n \in Nat /\ m <= MIX_POOL_CAP
      /\ DOMAIN s = 1 .. m /\ DOMAIN w = 1 .. n /\ MIX_POOL_CAP \in Nat
  BY DEF Pools, Walks
<1>2. \A k \in Nat : IsFiniteSet(1 .. k) /\ Cardinality(1 .. k) = k
  <2> SUFFICES ASSUME NEW k \in Nat PROVE IsFiniteSet(1 .. k) /\ Cardinality(1 .. k) = k
    OBVIOUS
  <2>1. Cardinality(1 .. k) = IF 1 > k THEN 0 ELSE k - 1 + 1
    BY FS_Interval
  <2> QED
    BY <2>1, FS_Interval
<1>3. IsFiniteSet(kept) /\ Cardinality(kept) <= m
  <2>1. s \in [1 .. m -> kept] /\ \A v \in kept : \E i \in 1 .. m : s[i] = v
    BY <1>1 DEF M!Range
  <2> HIDE DEF m, kept
  <2>2. s \in Surjection(1 .. m, kept)
    BY <2>1 DEF Surjection
  <2> QED
    BY <1>1, <1>2, <2>2, FS_Surjection
<1>4. IsFiniteSet(kept \cup {Seed}) /\ Cardinality(kept \cup {Seed}) <= m + 1
  <2> HIDE DEF m, kept
  <2>1. Cardinality(kept) \in Nat
    BY <1>3, FS_CardinalityType
  <2>2. /\ IsFiniteSet(kept \cup {Seed})
        /\ Cardinality(kept \cup {Seed}) = IF Seed \in kept THEN Cardinality(kept) ELSE Cardinality(kept) + 1
    BY <1>3, FS_AddElement
  <2> QED
    BY <1>1, <1>3, <2>1, <2>2
<1>5. n <= Cardinality(kept \cup {Seed})
  <2>1. w \in [1 .. n -> kept \cup {Seed}]
    BY SMTT(30), <1>1 DEF Walks, M!Range
  <2>2. \A i, j \in 1 .. n : w[i] = w[j] => i = j
    BY <1>1 DEF Walks, NoTwice
  <2> HIDE DEF n, kept
  <2>3. w \in Injection(1 .. n, kept \cup {Seed})
    BY <2>1, <2>2 DEF Injection, IsInjective
  <2> QED
    BY <1>1, <1>2, <1>4, <2>3, FS_Injection
<1> HIDE DEF m, n, kept
<1>6. Cardinality(kept \cup {Seed}) \in Nat
  BY <1>4, FS_CardinalityType
<1>7. n <= MIX_POOL_CAP + 1
  BY <1>1, <1>4, <1>5, <1>6
<1> QED
  BY <1>7 DEF n

\* A short sequence that repeats nothing is among the distinct ones.
LEMMA SequenceIsDistinct ==
  ASSUME NEW s \in Seq(Station), NoTwice(s), NEW k \in Nat, Len(s) <= k
  PROVE  s \in M!Distinct(k)
<1>1. Len(s) \in 0 .. k /\ s \in [1 .. Len(s) -> Station]
  OBVIOUS
<1>2. M!IsInjective(s)
  BY DEF NoTwice, M!IsInjective
<1>3. s \in UNION {[1 .. n -> Station] : n \in 0 .. k}
  BY <1>1
<1> QED
  BY <1>2, <1>3 DEF M!Distinct

\* Every variable keeps to its type, and every counter to its bound.
THEOREM ServicesTypeOKAlways == Spec => []ServicesTypeOK
<1>1. MixInv => M!MixTypeOK
  <2> SUFFICES ASSUME MixInv PROVE M!MixTypeOK
    OBVIOUS
  <2>1. pool \in Pools /\ walked \in Walks(pool)
    BY DEF MixInv
  <2>2. pool \in M!Distinct(MIX_POOL_CAP)
    BY <2>1, SequenceIsDistinct DEF Pools
  <2>3. Len(walked) <= MIX_POOL_CAP + 1 /\ walked \in Seq(Station) /\ NoTwice(walked)
    BY <2>1, WalkIsShort DEF Walks
  <2>4. walked \in M!Distinct(MIX_POOL_CAP + 1)
    BY <2>3, SequenceIsDistinct
  <2> QED
    BY <2>2, <2>4 DEF MixInv, M!MixTypeOK
<1>2. PP!IInv => P!PresenceTypeOK
  BY SamePresence DEF PP!IInv, PP!Typed
<1>3. CC!IInv => C!CacheTypeOK
  BY SameCache DEF CC!IInv
<1>4. NewsInv /\ LimitInv /\ ChatInv => B!BulletinTypeOK /\ L!LimitTypeOK /\ T!ChatTypeOK
  BY DEF NewsInv, LimitInv, LimitTyped, ChatInv
<1>5. PP!IInv /\ CC!IInv /\ NewsInv /\ LimitInv /\ ChatInv /\ MixInv => ServicesTypeOK
  BY <1>1, <1>2, <1>3, <1>4 DEF ServicesTypeOK
<1> QED
  BY <1>5, PresenceStays, CacheStays, NewsStays, LimitsStay, ChatStays, MixStays, PTL
=============================================================================
