----------------------------- MODULE MCRoomQueue -----------------------------
(***************************************************************************)
(* A room with its host and a guest, for TLC.  The views forget what no    *)
(* step and no property asks for any more.                                 *)
(***************************************************************************)
EXTENDS RoomQueue, TLC

\* Request slots are only ever compared for equality.
Symmetry == Permutations(Requests)

Live(t) == InState(t, {"queued", "playing"})

\* Videos are only ever compared for equality, and only those of live tracks, of
\* requests that add and of the radio's pick: who shares one with whom.
Shared ==
  {<<{t \in TrackIds : Live(t) /\ rows[t].youtube_id = v},
     {r \in Requests : Phase(r) = "adding" /\ requests[r].youtube_id = v},
     radio # None /\ radio.youtube_id = v>> : v \in Videos}

\* What the play order and the worker ask of a live track: with one track playing
\* at a time nothing compares started_at.
Waiting(t) == <<rows[t].added_by, rows[t].state, rows[t].shadow, rows[t].priority>>

\* For the order and the length of the queue, a track that is over is as good as
\* deleted.
OrderView ==
  <<[t \in TrackIds |-> IF Live(t) THEN <<Waiting(t), votes[t]>> ELSE None],
    [r \in Requests |->
       IF Phase(r) # "adding" THEN requests[r] ELSE <<requests[r].by, requests[r].muted>>],
    Shared, radio = None, inserted, members, muted, banned>>

\* For what overlapping requests leave behind, it matters whose a track was that
\* is over; and of checked_at only this is ever asked: which live tracks of the
\* video were there by then?
Asked(video, at) == {t \in TrackIds : Live(t) /\ rows[t].youtube_id = video /\ t <= at}
OverlapView ==
  <<[t \in TrackIds |->
       IF ~Exists(t) THEN None
       ELSE IF Live(t) THEN <<Waiting(t), Asked(rows[t].youtube_id, rows[t].checked_at)>>
       ELSE rows[t].added_by],
    votes,
    [r \in Requests |->
       IF Phase(r) # "adding" THEN requests[r]
       ELSE <<requests[r].by, requests[r].muted,
              Asked(requests[r].youtube_id, requests[r].checked_at)>>],
    Shared,
    IF radio = None THEN None ELSE <<Asked(radio.youtube_id, radio.checked_at)>>,
    inserted, people>>
=============================================================================
