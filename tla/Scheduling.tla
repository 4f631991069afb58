----------------------------- MODULE Scheduling -----------------------------
(***************************************************************************)
(* The play order of a room's queue (app/scheduling.py): pure operators    *)
(* over a finite set of candidates, with no state of their own.  A         *)
(* candidate is the record of the five fields the order depends on; the    *)
(* Python sort keys are tuples compared field by field, and they are       *)
(* tuples here too.  A definition marked "Mistake" is not the code: it is  *)
(* the mistake that the definition after it avoids.                        *)
(***************************************************************************)
EXTENDS Integers, FiniteSets

(***************************************************************************)
(* Identities and instants are naturals: the code only ever compares them. *)
(***************************************************************************)
CandidateOf(Submitters) ==
  [id : Nat, added_by : Submitters, score : Int, created_at : Nat, priority : Int]

\* Python's tuple comparison x < y, for tuples of the same length.
TupleLess(x, y) ==
  \E i \in DOMAIN x : /\ x[i] < y[i]
                      /\ \A j \in DOMAIN x : j < i => x[j] = y[j]

\* The key that sorts one submitter's tracks among themselves.
OwnOrder(c) == <<-c.priority, -c.score, c.created_at, c.id>>

\* The tracks of c's submitter that come before it.
OwnAhead(c, Q) ==
  {d \in Q : d.added_by = c.added_by /\ TupleLess(OwnOrder(d), OwnOrder(c))}

\* Mistake: every track is its submitter's first.
NoRounds(c, Q) == 0

\* The round c plays in: its index in its submitter's own list.
RoundIndex(c, Q) == Cardinality(OwnAhead(c, Q))

\* The key that sorts the whole queue.
QueueOrder(c, Q) ==
  <<-c.priority, RoundIndex(c, Q), -c.score, c.created_at, c.id>>

Ahead(c, d, Q) == TupleLess(QueueOrder(c, Q), QueueOrder(d, Q))

\* c is the first entry of order_queue(Q).
Heads(c, Q) == c \in Q /\ \A d \in Q \ {c} : Ahead(c, d, Q)
=============================================================================
