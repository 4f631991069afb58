------------------------------- MODULE Limits -------------------------------
(***************************************************************************)
(* The fixed windows of app/ratelimit.py, as spam_guard (app/api/guards.py) *)
(* and the two endpoints of "me" (app/api/routers/rooms.py) use them for    *)
(* one listener and one scope: two counters in Redis, each of which is      *)
(* incremented and, the first time, given its expiry by a second command.  *)
(*                                                                         *)
(* A counter is told apart only up to the first value that is too many.    *)
(***************************************************************************)
EXTENDS Integers, FiniteSets

CONSTANTS
  Requests,   \* bound: requests at one time
  LIMIT, WINDOW, STRIKES, STRIKE_WINDOW

Counters == {"requests", "strikes"}
Ages == 0 .. STRIKE_WINDOW - 1

VARIABLES
  guarded,       \* the scope is spam_guard's, not that of a rename or an avatar
  count, ttl,    \* Redis: the counters, and the time left of each; 0 is none
  request,       \* where each request is, on which counter, and what INCR said
  muted,         \* Listener.is_shadow_banned
  \* bookkeeping
  refusals,      \* the strikes there have been: the age of each, and its number
  cut            \* counters whose request ended between INCR and EXPIRE

LimitAssumption == LIMIT \in Nat /\ STRIKES \in Nat \ {0} /\ WINDOW \in Nat \ {0} /\ STRIKE_WINDOW \in Nat \ {0}

limitVars == <<guarded, count, ttl, request, muted, refusals, cut>>

Nobody == [at |-> "away", on |-> "requests", n |-> 0]
Most(c) == IF c = "requests" THEN LIMIT + 1 ELSE STRIKES
Window(c) == IF c = "requests" THEN WINDOW ELSE STRIKE_WINDOW

LimitTypeOK ==
  /\ guarded \in BOOLEAN
  /\ \A c \in Counters : count[c] \in 0 .. Most(c) /\ ttl[c] \in 0 .. Window(c)
  /\ request \in [Requests -> [at : {"away", "first", "counted"}, on : Counters, n : 0 .. STRIKES + LIMIT + 1]]
  /\ muted \in BOOLEAN
  /\ refusals \subseteq Ages \X (1 .. STRIKES)
  /\ cut \subseteq Counters

LimitInit ==
  /\ guarded \in BOOLEAN
  /\ count = [c \in Counters |-> 0] /\ ttl = [c \in Counters |-> 0]
  /\ request = [i \in Requests |-> Nobody]
  /\ muted = FALSE
  /\ refusals = {}
  /\ cut = {}

OneMore(n, most) == IF n < most THEN n + 1 ELSE most

-----------------------------------------------------------------------------
\* Mistakes: every count sets the expiry anew; only one too many sets it.
EveryTime(n) == TRUE
OnceTooMany(n) == n = LIMIT + 1
\* check, record_strike: "if count == 1".
SetsExpiry(n) == n = 1

\* INCR, and what it said.
Bump(i, c) ==
  LET n == OneMore(count[c], Most(c)) IN
  /\ count' = [count EXCEPT ![c] = n]
  /\ request' = [request EXCEPT ![i] = [at |-> IF SetsExpiry(count[c] + 1) THEN "first" ELSE "counted", on |-> c, n |-> n]]

\* check.
Ask(i) ==
  /\ request[i].at = "away"
  /\ Bump(i, "requests")
  /\ UNCHANGED <<guarded, ttl, muted, refusals, cut>>

\* EXPIRE, which does nothing to a key that is gone.
Expire(i) ==
  LET c == request[i].on IN
  /\ request[i].at = "first"
  /\ ttl' = [ttl EXCEPT ![c] = IF count[c] = 0 THEN 0 ELSE Window(c)]
  /\ request' = [request EXCEPT ![i].at = "counted"]
  /\ UNCHANGED <<guarded, count, muted, refusals, cut>>

Verdict(i) == request[i].n <= LIMIT

\* The request goes on, or is told to slow down without a strike.
Answer(i) ==
  /\ request[i].at = "counted" /\ request[i].on = "requests"
  /\ Verdict(i) \/ ~guarded
  /\ request' = [request EXCEPT ![i] = Nobody]
  /\ UNCHANGED <<guarded, count, ttl, muted, refusals, cut>>

\* add_track, once its track is in: clear_strikes.
Forgive(i) ==
  /\ request[i].at = "counted" /\ request[i].on = "requests"
  /\ Verdict(i) /\ guarded
  /\ count' = [count EXCEPT !["strikes"] = 0] /\ ttl' = [ttl EXCEPT !["strikes"] = 0]
  /\ request' = [request EXCEPT ![i] = Nobody]
  /\ cut' = cut \ ({"strikes"} \ {request[j].on : j \in Requests})
  /\ UNCHANGED <<guarded, muted, refusals>>

\* One refusal more, unless there are as many of this age as are told apart.
Refused ==
  LET free == {n \in 1 .. STRIKES : <<0, n>> \notin refusals}
  IN refusals \cup (IF free = {} THEN {} ELSE {<<0, CHOOSE n \in free : TRUE>>})

\* record_strike.
Strike(i) ==
  /\ request[i].at = "counted" /\ request[i].on = "requests"
  /\ ~Verdict(i) /\ guarded
  /\ Bump(i, "strikes")
  /\ refusals' = Refused
  /\ UNCHANGED <<guarded, ttl, muted, cut>>

\* shadow_ban, and the refusal.
Judge(i) ==
  /\ request[i].at = "counted" /\ request[i].on = "strikes"
  /\ muted' = (muted \/ request[i].n >= STRIKES)
  /\ request' = [request EXCEPT ![i] = Nobody]
  /\ UNCHANGED <<guarded, count, ttl, refusals, cut>>

MuteEnds == muted /\ muted' = FALSE /\ UNCHANGED <<guarded, count, ttl, request, refusals, cut>>

\* The API process dies, or Redis fails under these requests.
RequestsFail ==
  /\ \E i \in Requests : request[i].at # "away"
  /\ request' = [i \in Requests |-> Nobody]
  /\ cut' = cut \cup {request[i].on : i \in {j \in Requests : request[j].at = "first"}}
  /\ UNCHANGED <<guarded, count, ttl, muted, refusals>>

\* "Counters are allowed to evaporate" (ratelimit.py).
Flush ==
  /\ count' = [c \in Counters |-> 0] /\ ttl' = [c \in Counters |-> 0]
  /\ cut' = cut \cap {request[i].on : i \in Requests}
  /\ UNCHANGED <<guarded, request, muted, refusals>>

\* A request takes far less than a tick.
Tick ==
  /\ \A i \in Requests : request[i].at = "away"
  /\ ttl' = [c \in Counters |-> IF ttl[c] > 0 THEN ttl[c] - 1 ELSE 0]
  /\ count' = [c \in Counters |-> IF ttl[c] = 1 THEN 0 ELSE count[c]]
  /\ refusals' = {r \in Ages \X (1 .. STRIKES) : <<r[1] - 1, r[2]>> \in refusals}
  /\ cut' = {c \in cut : count[c] > 0}
  /\ UNCHANGED <<guarded, request, muted>>

LimitNext ==
  \/ \E i \in Requests : Expire(i) \/ Answer(i) \/ Forgive(i) \/ Strike(i) \/ Judge(i) \/ Ask(i)
  \/ MuteEnds \/ RequestsFail \/ Flush \/ Tick

LimitSpec == LimitInit /\ [][LimitNext]_limitVars

-----------------------------------------------------------------------------
\* No listener is refused for ever: with no request between its two commands, a
\* counter has an expiry, unless a request that failed there has cost it its own.
CountersExpire ==
  \A c \in Counters : count[c] > 0 /\ ttl[c] = 0 =>
    c \in cut \/ \E i \in Requests : request[i].at = "first" /\ request[i].on = c

\* "A listener who keeps hammering after being told no" (spam_guard) and nobody
\* else is muted: there have been as many refusals as it takes within the last
\* strike window, whatever requests overlapped, unless the counter has lost its
\* expiry; and never for the scopes without strikes.
MutedForFlooding ==
  [][muted' /\ ~muted => guarded /\ (Cardinality(refusals) >= STRIKES \/ "strikes" \in cut)]_limitVars
=============================================================================
