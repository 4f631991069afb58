------------------------------ MODULE Broadcast ------------------------------
(***************************************************************************)
(* What a room's playback promises, whatever its player, its control task  *)
(* and its lookahead are at: one thing is heard at a time, a track only    *)
(* after it was claimed from the queue and at most once for each claim,    *)
(* and never again once it is over; what is heard is not waiting, and what *)
(* is given back to the queue is not heard.                                *)
(*                                                                         *)
(* Playback implements it: see Playback!Stage.                             *)
(***************************************************************************)
CONSTANTS Tracks, News, None

VARIABLES
  stage,  \* of each track: "outside", "waiting", "claimed", "started" or "over"
  heard   \* a track, the bulletin, or None

broadcastVars == <<stage, heard>>

BroadcastInit ==
  /\ stage = [t \in Tracks |-> "outside"]
  /\ heard = None

\* Some tracks move to a stage together.
Move(ts, s) == stage' = [t \in Tracks |-> IF t \in ts THEN s ELSE stage[t]]

Submit(t) == stage[t] = "outside" /\ Move({t}, "waiting") /\ UNCHANGED heard

Claim(t) == stage[t] = "waiting" /\ heard = None /\ Move({t}, "claimed") /\ UNCHANGED heard

\* A track that failed before is let go of as another one starts.
Start(t) ==
  /\ stage[t] = "claimed" /\ heard = None
  /\ heard' = t
  /\ \E ts \in SUBSET {u \in Tracks : stage[u] = "started"} :
       stage' = [u \in Tracks |-> IF u = t THEN "started" ELSE IF u \in ts THEN "over" ELSE stage[u]]

\* It cannot be fetched, or something fails first: this claim is not heard.
Miss(t) == stage[t] = "claimed" /\ Move({t}, "started") /\ UNCHANGED heard

StartNews == heard = None /\ heard' = News /\ UNCHANGED stage

End == heard # None /\ heard' = None /\ UNCHANGED stage

GiveBack(t) == stage[t] = "started" /\ heard = None /\ Move({t}, "waiting") /\ UNCHANGED heard

\* Played, skipped, removed, failed or lost: whichever it is, it is over.
LetGo(ts) ==
  /\ ts # {} /\ \A t \in ts : stage[t] \in {"waiting", "claimed", "started"}
  /\ Move(ts, "over")
  /\ heard' \in {heard, None} \ ts

BroadcastNext ==
  \/ \E t \in Tracks : Submit(t) \/ Claim(t) \/ Start(t) \/ Miss(t) \/ GiveBack(t)
  \/ StartNews \/ End
  \/ \E ts \in SUBSET Tracks : LetGo(ts)

BroadcastSpec == BroadcastInit /\ [][BroadcastNext]_broadcastVars
=============================================================================
