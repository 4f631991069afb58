------------------------------ MODULE RoomQueue ------------------------------
(***************************************************************************)
(* One room's queue as PostgreSQL holds it, and every request handler that *)
(* changes it: add, remove, vote (api/routers/queue.py), skip, promote,    *)
(* ban, unban (api/routers/moderation.py), the radio's pick (autoplay.py)  *)
(* and the worker's claim and finish.                                      *)
(*                                                                         *)
(* A request first finds out who is asking (current_listener), which only  *)
(* reads.  It also marks its listener and its room as seen, and the        *)
(* session flushes that with the handler's first query: from there to its  *)
(* commit the request holds the room's row, and every other request of the *)
(* room waits.  So the handlers of a room take turns, and what can run     *)
(* inside a handler is what does not touch that row: the worker, the       *)
(* radio, and the reads other requests begin with.  A handler with a write *)
(* that such a step can get in front of is two actions, Begin and Commit.  *)
(*                                                                         *)
(* A request may also be refused by what is left out here (the room's two  *)
(* switches, its capacity, the rate limits, YouTube): it is abandoned.     *)
(*                                                                         *)
(* A definition marked "Mistake" is not the code: it is the mistake that   *)
(* the definition after it avoids, kept to see a property notice it.       *)
(***************************************************************************)
EXTENDS Scheduling

CONSTANTS
  Listeners,   \* the sessions that may visit the room
  Host,        \* the one of them that created it
  Radio,       \* the stand-in submitter of the radio's picks
  Voters,      \* the listeners who vote
  VoteValues,  \* the values they send, of -1, 0 and 1
  Videos,      \* YouTube ids
  Requests,    \* slots for the HTTP requests that can be in flight at once
  MaxPending,  \* room.max_pending_per_listener
  MaxTracks,   \* bound: how many tracks are ever inserted
  MaxPriority, \* bound: how high promotions may go
  None

ASSUME ListenersAssumption ==
  /\ IsFiniteSet(Listeners) /\ Host \in Listeners /\ Radio \notin Listeners
  /\ Voters \subseteq Listeners /\ VoteValues \subseteq -1 .. 1
ASSUME BoundsAssumption ==
  /\ MaxPending \in Nat \ {0}
  /\ MaxTracks \in Nat \ {0}
  /\ MaxPriority \in Nat

VARIABLES
  rows,        \* the tracks table: a row or None for every id
  inserted,    \* how many rows were ever inserted, which is also the last id
  votes,       \* the votes table: votes[t][l], 0 when there is no row
  requests,    \* what each request in flight has read so far
  radio,       \* the radio's pick on its way into the queue, or None
  members,     \* the sessions with a row in the listeners table
  muted,       \* those of them whose shadow_banned_until is in the future
  banned,      \* the sessions in the bans table
  raced        \* bookkeeping: those whose ban a request of theirs overlapped

people == <<members, muted, banned, raced>>
vars == <<rows, inserted, votes, requests, radio, people>>

TrackIds == 1 .. MaxTracks
Submitters == Listeners \cup {Radio}

(***************************************************************************)
(* checked_at is not a column: it remembers when the duplicate check for   *)
(* the row was made.                                                       *)
(***************************************************************************)
Row == [added_by : Submitters, youtube_id : Videos,
        state : {"queued", "playing", "played", "skipped", "failed"},
        shadow : BOOLEAN, priority : Int,
        started_at : Nat, checked_at : Nat]

Visit == [phase : {"checked", "known", "unknown"}, by : Listeners, muted : BOOLEAN]
AddRequest == [phase : {"adding"}, by : Listeners, youtube_id : Videos,
               muted : BOOLEAN, checked_at : Nat]
PromoteRequest == [phase : {"promoting"}, track : TrackIds, highest : Int]
RemoveRequest == [phase : {"removing"}, track : TrackIds]
Request == Visit \cup AddRequest \cup PromoteRequest \cup RemoveRequest
Pick == [youtube_id : Videos, checked_at : Nat]

ASSUME NoneAssumption ==
  /\ None \notin Row /\ None \notin Request /\ None \notin Pick
  /\ None \notin Submitters

TypeOK ==
  /\ rows \in [TrackIds -> Row \cup {None}]
  /\ inserted \in 0 .. MaxTracks
  /\ votes \in [TrackIds -> [Voters -> -1 .. 1]]
  /\ requests \in [Requests -> Request \cup {None}]
  /\ radio \in Pick \cup {None}
  /\ members \subseteq Listeners
  /\ muted \subseteq Listeners
  /\ banned \subseteq Listeners
  /\ raced \subseteq Listeners

-----------------------------------------------------------------------------
Exists(t) == rows[t] # None
InState(t, S) == Exists(t) /\ rows[t].state \in S
Queued(t) == InState(t, {"queued"})

\* upvotes - downvotes
Score(t) == Cardinality({v \in Voters : votes[t][v] = 1})
              - Cardinality({v \in Voters : votes[t][v] = -1})

Candidate(t) ==
  [id |-> t, added_by |-> rows[t].added_by, score |-> Score(t),
   created_at |-> t, priority |-> rows[t].priority]

\* What the queue region of l's page shows.
queued_tracks(l) ==
  {Candidate(t) : t \in {i \in TrackIds : Queued(i) /\ (~rows[i].shadow \/ rows[i].added_by = l)}}

\* Mistake: the worker plays what only its submitter is shown.
playable_with_shadow == {Candidate(t) : t \in {i \in TrackIds : Queued(i)}}
\* What the worker may play: the queue of nobody in particular.
playable_tracks == queued_tracks(None)

\* The track the room is on: the one that started last.
Current(t) ==
  /\ InState(t, {"playing"})
  /\ \A u \in TrackIds : InState(u, {"playing"}) => rows[u].started_at <= rows[t].started_at

\* Mistake: only what is shown counts against the cap.
visible_count_for(l) ==
  Cardinality({t \in TrackIds : Queued(t) /\ rows[t].added_by = l /\ ~rows[t].shadow})
\* What add_track holds against the cap.
pending_count_for(l) == Cardinality({t \in TrackIds : Queued(t) /\ rows[t].added_by = l})

\* Mistake: a video that is on air may be queued again.
is_waiting(v) == \E t \in TrackIds : Queued(t) /\ rows[t].youtube_id = v
\* The duplicate check.
is_duplicate(v) ==
  \E t \in TrackIds : InState(t, {"queued", "playing"}) /\ rows[t].youtube_id = v

\* max(priority) of the pending rows, or 0 when there is none.
IsHighest(h) ==
  LET pending == {t \in TrackIds : Queued(t)}
  IN  IF pending = {} THEN h = 0
      ELSE /\ \E t \in pending : rows[t].priority = h
           /\ \A t \in pending : rows[t].priority <= h

NoVotes == [v \in Voters |-> 0]

Phase(r) == IF requests[r] = None THEN "idle" ELSE requests[r].phase

\* No handler holds the room's row.
Unlocked == \A r \in Requests : Phase(r) \in {"idle", "checked", "known", "unknown"}

\* Request r is l's and its handler can run: l's row was found, or can be inserted.
Handles(r, l) == Phase(r) \in {"known", "unknown"} /\ requests[r].by = l /\ Unlocked

Join(l) == members' = members \cup {l} /\ UNCHANGED <<muted, banned, raced>>
End(r) == requests' = [requests EXCEPT ![r] = None]

Init ==
  /\ rows = [t \in TrackIds |-> None]
  /\ inserted = 0
  /\ votes = [t \in TrackIds |-> NoVotes]
  /\ requests = [r \in Requests |-> None]
  /\ radio = None
  /\ members = {Host}
  /\ muted = {}
  /\ banned = {}
  /\ raced = {}

-----------------------------------------------------------------------------
(***************************************************************************)
(* Who is asking: current_listener, join_room.                             *)
(***************************************************************************)

\* is_banned is the first question a request is asked, and it is asked once.
Enter(r, l) ==
  /\ requests[r] = None
  /\ l \notin banned
  /\ requests' = [requests EXCEPT ![r] = [phase |-> "checked", by |-> l, muted |-> FALSE]]
  /\ UNCHANGED <<rows, inserted, votes, radio, people>>

\* get_listener.  The row it returns is the one the whole request goes by.
LookUp(r) ==
  /\ Phase(r) = "checked"
  /\ LET l == requests[r].by
     IN  requests' = [requests EXCEPT ![r] =
           [phase |-> IF l \in members THEN "known" ELSE "unknown", by |-> l,
            muted |-> l \in muted]]
  /\ UNCHANGED <<rows, inserted, votes, radio, people>>

\* A page view, or any request that does no more to the room than to join it.
View(r, l) ==
  /\ Handles(r, l)
  /\ Join(l) /\ End(r)
  /\ UNCHANGED <<rows, inserted, votes, radio>>

\* A request that is refused, and rolled back with the join it came with.
Abandon(r) ==
  /\ requests[r] # None
  /\ End(r)
  /\ UNCHANGED <<rows, inserted, votes, radio, people>>

(***************************************************************************)
(* spam_guard: a request too many is refused, and after enough of them its *)
(* listener is muted for a while, which is committed all the same.         *)
(***************************************************************************)
Mute(r, l) ==
  /\ Handles(r, l)
  /\ members' = members \cup {l}
  /\ muted' = muted \cup {l}
  /\ End(r)
  /\ UNCHANGED <<rows, inserted, votes, radio, banned, raced>>

MuteExpires(l) ==
  /\ l \in muted
  /\ muted' = muted \ {l}
  /\ UNCHANGED <<rows, inserted, votes, requests, radio, members, banned, raced>>

-----------------------------------------------------------------------------
(***************************************************************************)
(* The handlers.                                                           *)
(***************************************************************************)

\* add_track up to its await of YouTube: every check the handler makes.
BeginAdd(r, l, v) ==
  /\ Handles(r, l)
  /\ l = Host \/ pending_count_for(l) < MaxPending
  /\ ~is_duplicate(v)
  /\ requests' = [requests EXCEPT ![r] =
       [phase |-> "adding", by |-> l, youtube_id |-> v,
        muted |-> requests[r].muted, checked_at |-> inserted]]
  /\ UNCHANGED <<rows, inserted, votes, radio, people>>

\* The row of a new track at the end of the table.
Insert(row) ==
  /\ inserted + 1 \in TrackIds
  /\ inserted' = inserted + 1
  /\ rows' = [rows EXCEPT ![inserted + 1] = row]

\* The rest of add_track.  None of the checks is made again.
CommitAdd(r) ==
  /\ Phase(r) = "adding"
  /\ LET q == requests[r]
     IN  /\ Insert([added_by |-> q.by, youtube_id |-> q.youtube_id, state |-> "queued",
                    shadow |-> q.muted /\ q.by \in muted, priority |-> 0,
                    started_at |-> 0, checked_at |-> q.checked_at])
         /\ Join(q.by)
  /\ End(r)
  /\ UNCHANGED <<votes, radio>>

\* remove_track: the host removes anything, a listener what is theirs and pending.
BeginRemove(r, l, t) ==
  /\ Handles(r, l) /\ l \in members
  /\ Exists(t)
  /\ l = Host \/ (rows[t].added_by = l /\ Queued(t))
  /\ requests' = [requests EXCEPT ![r] = [phase |-> "removing", track |-> t]]
  /\ UNCHANGED <<rows, inserted, votes, radio, people>>

\* The DELETE, whatever the worker has made of the row by then.
CommitRemove(r) ==
  /\ Phase(r) = "removing"
  /\ rows' = [rows EXCEPT ![requests[r].track] = None]
  /\ votes' = [votes EXCEPT ![requests[r].track] = NoVotes]
  /\ End(r)
  /\ UNCHANGED <<inserted, radio, people>>

\* Mistake: a second vote is added to the first.
AddVote(l, t, value) == votes' = [votes EXCEPT ![t][l] = @ + value]
\* set_vote: one row per listener and track, overwritten by the next; 0 deletes it.
SetVote(l, t, value) == votes' = [votes EXCEPT ![t][l] = value]

Vote(r, l, t, value) ==
  /\ Handles(r, l)
  /\ Exists(t)
  /\ SetVote(l, t, value)
  /\ Join(l) /\ End(r)
  /\ UNCHANGED <<rows, inserted, radio>>

\* promote up to its second query: the row is pending, the maximum is known.
BeginPromote(r, t) ==
  /\ Handles(r, Host)
  /\ Queued(t)
  /\ \E h \in -1 .. MaxPriority - 1 :
       /\ IsHighest(h)
       /\ requests' = [requests EXCEPT ![r] = [phase |-> "promoting", track |-> t, highest |-> h]]
  /\ UNCHANGED <<rows, inserted, votes, radio, people>>

\* Mistake: a promotion ties with the one before it.
AtTop(highest) == highest
\* The priority of a promoted track.
OnTop(highest) == highest + 1

\* The UPDATE by primary key: whatever the worker has made of the row by now.
CommitPromote(r) ==
  /\ Phase(r) = "promoting"
  /\ rows' = [rows EXCEPT ![requests[r].track].priority = OnTop(requests[r].highest)]
  /\ End(r)
  /\ UNCHANGED <<inserted, votes, radio, people>>

\* Mistake: a ban deletes what its handler selects and no more.
PendingOf(l) == {t \in TrackIds : Queued(t) /\ rows[t].added_by = l}
\* What ON DELETE CASCADE takes with a listener's row.
TracksOf(l) == {t \in TrackIds : Exists(t) /\ rows[t].added_by = l}

(***************************************************************************)
(* ban: the listener's row goes, and with it, by ON DELETE CASCADE, every  *)
(* track they submitted, pending or not, and every vote they cast.  A      *)
(* request of theirs that has read that row fails on its next statement;   *)
(* one that has not goes on, and will join.                                *)
(***************************************************************************)
Ban(r, l) ==
  /\ Handles(r, Host)
  /\ l # Host /\ l \in members
  /\ rows' = [t \in TrackIds |-> IF t \in TracksOf(l) THEN None ELSE rows[t]]
  /\ votes' = [t \in TrackIds |->
       IF t \in TracksOf(l) THEN NoVotes
       ELSE [v \in Voters |-> IF v = l THEN 0 ELSE votes[t][v]]]
  /\ members' = members \ {l}
  /\ muted' = muted \ {l}
  /\ banned' = banned \cup {l}
  /\ raced' = (raced \ {l}) \cup
       {v \in {l} : \E q \in Requests : Phase(q) \in {"checked", "unknown"} /\ requests[q].by = l}
  /\ requests' = [q \in Requests |->
       IF q = r \/ (Phase(q) = "known" /\ requests[q].by = l) THEN None ELSE requests[q]]
  /\ UNCHANGED <<inserted, radio>>

\* unban: the session may join again, as a new listener.
Unban(r, l) ==
  /\ Handles(r, Host)
  /\ l \in banned
  /\ banned' = banned \ {l}
  /\ End(r)
  /\ UNCHANGED <<rows, inserted, votes, radio, members, muted, raced>>

SetState(t, state) == rows' = [rows EXCEPT ![t].state = state]

\* skip: the host's verdict on the current track.
Skip(r, t) ==
  /\ Handles(r, Host)
  /\ Current(t)
  /\ SetState(t, "skipped")
  /\ End(r)
  /\ UNCHANGED <<inserted, votes, radio, people>>

-----------------------------------------------------------------------------
(***************************************************************************)
(* The radio and the worker, which never wait for the room's row.          *)
(***************************************************************************)

\* top_up as far as pick's queued_youtube_ids: nothing pending, shadow or not,
\* and a video that is not on air.
BeginPick(v) ==
  /\ radio = None
  /\ \A t \in TrackIds : ~Queued(t)
  /\ ~is_duplicate(v)
  /\ radio' = [youtube_id |-> v, checked_at |-> inserted]
  /\ UNCHANGED <<rows, inserted, votes, requests, people>>

\* The rest of top_up, some answers of YouTube later: the insert, at
\* AUTOPLAY_PRIORITY, below everything a listener asks for.
CommitPick ==
  /\ radio # None
  /\ Insert([added_by |-> Radio, youtube_id |-> radio.youtube_id, state |-> "queued",
             shadow |-> FALSE, priority |-> -1, started_at |-> 0, checked_at |-> radio.checked_at])
  /\ radio' = None
  /\ UNCHANGED <<votes, requests, people>>

\* YouTube refused every candidate, or the player is gone.
AbandonPick ==
  /\ radio # None
  /\ radio' = None
  /\ UNCHANGED <<rows, inserted, votes, requests, people>>

(***************************************************************************)
(* _claim_next_track: the worker takes the top of the playable queue.  The *)
(* query does not look for a playing row; the player only comes here when  *)
(* its previous track is over.  Its SELECT and its commit are one step     *)
(* here, as are those of the steps below: Playback takes them apart.       *)
(***************************************************************************)
ClaimNextTrack(t) ==
  /\ \A u \in TrackIds : ~InState(u, {"playing"})
  /\ Queued(t) /\ Heads(Candidate(t), playable_tracks)
  /\ rows' = [rows EXCEPT ![t].state = "playing", ![t].started_at = inserted]
  /\ UNCHANGED <<inserted, votes, requests, radio, people>>

\* _finish: played out, or failed to download.
Finish(t, state) ==
  /\ InState(t, {"playing"})
  /\ SetState(t, state)
  /\ UNCHANGED <<inserted, votes, requests, radio, people>>

\* _requeue_current: the player is stopped in the middle of its track.
Requeue(t) ==
  /\ InState(t, {"playing"})
  /\ rows' = [rows EXCEPT ![t].state = "queued", ![t].started_at = 0]
  /\ UNCHANGED <<inserted, votes, requests, radio, people>>

RequestStep(r) ==
  \/ LookUp(r) \/ Abandon(r) \/ CommitAdd(r) \/ CommitRemove(r) \/ CommitPromote(r)
  \/ \E l \in Listeners : \/ Enter(r, l) \/ View(r, l) \/ Mute(r, l)
                          \/ Ban(r, l) \/ Unban(r, l)
                          \/ \E v \in Videos : BeginAdd(r, l, v)
                          \/ \E t \in TrackIds : BeginRemove(r, l, t)
  \/ \E l \in Voters, t \in TrackIds, value \in VoteValues : Vote(r, l, t, value)
  \/ \E t \in TrackIds : BeginPromote(r, t) \/ Skip(r, t)

WorkerStep ==
  \/ \E v \in Videos : BeginPick(v)
  \/ CommitPick \/ AbandonPick
  \/ \E t \in TrackIds : \/ ClaimNextTrack(t)
                         \/ Requeue(t)
                         \/ \E state \in {"played", "failed"} : Finish(t, state)

Next ==
  \/ \E r \in Requests : RequestStep(r)
  \/ \E l \in Listeners : MuteExpires(l)
  \/ WorkerStep

Spec == Init /\ [][Next]_vars

-----------------------------------------------------------------------------
(***************************************************************************)
(* Properties.                                                             *)
(***************************************************************************)

\* Rule 1 of app/scheduling.py, on every queue that is shown or played from: of two tracks
\* of one submitter, the later never plays before another submitter's first,
\* unless the host promoted it.
FirstBeforeSecond ==
  \A l \in Listeners \cup {None} :
    LET Q == queued_tracks(l)
    IN  \A a, b, c \in Q :
          /\ a # b /\ a.added_by = b.added_by /\ c.added_by # a.added_by
          /\ Ahead(a, b, Q) /\ OwnAhead(c, Q) = {} /\ c.priority >= b.priority
          => Ahead(c, b, Q)

\* What a listener sees at the top of the queue is what plays next
\* (app/scheduling.py), for everyone who has no muted track of their own in it.
SeenIsPlayed ==
  [][\A t \in TrackIds : Queued(t) /\ InState(t, {"playing"})' =>
       \A l \in Listeners :
         (\A u \in TrackIds : Queued(u) /\ rows[u].added_by = l => ~rows[u].shadow)
         => Heads(Candidate(t), queued_tracks(l))]_rows

\* The duplicate check of two listeners cannot overlap, so two live rows of one
\* video are the radio's doing: one of them is its pick, and the later of them
\* was checked before the earlier was inserted.
DuplicatesAreTheRadios ==
  \A t, u \in TrackIds :
    /\ t < u
    /\ InState(t, {"queued", "playing"}) /\ InState(u, {"queued", "playing"})
    /\ rows[t].youtube_id = rows[u].youtube_id
    => /\ rows[u].checked_at < t
       /\ Radio \in {rows[t].added_by, rows[u].added_by}

\* The cap on pending tracks is overrun by one at most, however many requests
\* a listener has in flight: by the track a stopping player hands back.
PendingBounded ==
  \A l \in Listeners \ {Host} :
    Cardinality({t \in TrackIds : InState(t, {"queued", "playing"}) /\ rows[t].added_by = l})
      <= MaxPending + 1

\* A promotion puts its track on top of every queue that shows it, newest
\* promotion first (app/scheduling.py), unless the track that was on air is
\* handed back in between with a promotion of its own.
PromotionLeads ==
  [][\A r \in Requests :
       /\ Phase(r) = "promoting" /\ rows' # rows /\ requests'[r] = None
       /\ Queued(requests[r].track) /\ \E h \in -1 .. requests[r].highest : IsHighest(h)
       => \A l \in Listeners \cup {None} :
            \A c \in queued_tracks(l)' :
              c.id = requests[r].track => Heads(c, queued_tracks(l))']_vars

\* A ban removes everything of a listener and keeps them out, unless a request
\* of theirs is between the ban check and the look-up of their row.
BannedLeaveNothing ==
  \A l \in banned \ raced :
    /\ l \notin members
    /\ \A t \in TrackIds : Exists(t) => rows[t].added_by # l
    /\ l \in Voters => \A t \in TrackIds : votes[t][l] = 0

\* "Remove a listener and everything they have waiting" (ban), and a ban "still
\* bites on rejoin" (models.Ban): once a ban is committed, nothing of its
\* listener is in the queue.
BannedStayOut ==
  \A l \in banned : \A t \in TrackIds : Queued(t) => rows[t].added_by # l

\* Rule 1 as the docstring of order_queue and README.md state it, over time:
\* nobody gets another turn while a listener who has had none since is still
\* waiting with a track that was already queued at the previous turn.
EveryonesTurn ==
  [][\A t, p, w \in TrackIds :
       /\ Queued(t) /\ InState(t, {"playing"})'
       /\ Exists(p) /\ rows[p].started_at >= w
       /\ rows[p].added_by = rows[t].added_by
       /\ Queued(w) /\ ~rows[w].shadow /\ rows[w].added_by # rows[t].added_by
       /\ rows[w].priority = rows[t].priority
       => \E q \in TrackIds : /\ Exists(q) /\ rows[q].added_by = rows[w].added_by
                              /\ rows[q].started_at >= w]_rows
=============================================================================
