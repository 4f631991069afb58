----------------------------- MODULE Admission -----------------------------
(***************************************************************************)
(* Who gets a seat in a room: current_listener (app/api/deps.py), which     *)
(* counts before it joins, the socket of app/api/routers/ws.py, which joins *)
(* without counting, the host's settings and the bans.                     *)
(***************************************************************************)
EXTENDS Naturals, FiniteSets

CONSTANTS
  Sessions,
  Joins,       \* bound: requests of newcomers at one time
  MaxListeners \* what a host may set

Highest == CHOOSE n \in MaxListeners : \A m \in MaxListeners : m <= n

Creator == CHOOSE s \in Sessions : TRUE

VARIABLES
  rows,           \* the listeners of the room
  hosts,          \* Listener.is_host
  max_listeners,
  join,           \* the newcomer of each request that has passed the count
  \* bookkeeping
  byway           \* who came in without being counted

AdmissionAssumption ==
  /\ Joins # {} /\ IsFiniteSet(Joins)
  /\ MaxListeners \subseteq Nat \ {0}
  /\ \E n \in MaxListeners : \A m \in MaxListeners : m <= n

admissionVars == <<rows, hosts, max_listeners, join, byway>>

AdmissionInit ==
  /\ rows = {Creator} /\ hosts = {Creator}   \* create joins as the host
  /\ max_listeners = Highest
  /\ join = [i \in Joins |-> {}]
  /\ byway = {}

\* Mistake: the room is full with one listener more.
OneTooMany == Cardinality(rows) > max_listeners
RoomIsFull == Cardinality(rows) >= max_listeners

\* current_listener of a session that is not in the room, up to its join.
Count(i, s) ==
  /\ join[i] = {} /\ s \notin rows
  /\ ~RoomIsFull
  /\ join' = [join EXCEPT ![i] = {s}]
  /\ UNCHANGED <<rows, hosts, max_listeners, byway>>

\* join_room and the commit.  A session has one row: another request of the same
\* session that got there first makes this one fail.
Join(i) ==
  /\ join[i] # {}
  /\ rows' = rows \cup join[i]
  /\ join' = [join EXCEPT ![i] = {}]
  /\ UNCHANGED <<hosts, max_listeners, byway>>

Abandon(i) == join[i] # {} /\ join' = [join EXCEPT ![i] = {}] /\ UNCHANGED <<rows, hosts, max_listeners, byway>>

\* With the host secret there is no count, nor with a socket.
JoinAsHost(s) ==
  /\ rows' = rows \cup {s} /\ hosts' = hosts \cup {s}
  /\ UNCHANGED <<max_listeners, join, byway>>

JoinBySocket(s) ==
  /\ s \notin rows
  /\ rows' = rows \cup {s} /\ byway' = byway \cup {s}
  /\ UNCHANGED <<hosts, max_listeners, join>>

\* ban, and unban some time later.
Leave(s) ==
  /\ s \in rows \ hosts
  /\ rows' = rows \ {s} /\ byway' = byway \ {s}
  /\ UNCHANGED <<hosts, max_listeners, join>>

SetLimit ==
  /\ max_listeners' \in MaxListeners
  /\ UNCHANGED <<rows, hosts, join, byway>>

AdmissionNext ==
  \/ \E i \in Joins : Join(i) \/ Abandon(i) \/ \E s \in Sessions : Count(i, s)
  \/ \E s \in Sessions : JoinAsHost(s) \/ JoinBySocket(s) \/ Leave(s)
  \/ SetLimit

AdmissionSpec == AdmissionInit /\ [][AdmissionNext]_admissionVars

-----------------------------------------------------------------------------
\* The count and the join are two steps, so a room can be overbooked; but never
\* by more than the requests of newcomers that were under way at one time:
\* sockets and all hosts but the first apart, no more people have a seat than the
\* largest limit and all but one of those requests.
Overbooking ==
  Cardinality(rows \ (hosts \cup byway)) + 1 <= Highest + Cardinality(Joins) - 1
=============================================================================
