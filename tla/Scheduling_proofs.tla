------------------------- MODULE Scheduling_proofs -------------------------
(***************************************************************************)
(* Proofs about the play order, for a queue of any size.                   *)
(***************************************************************************)
EXTENDS Scheduling, FiniteSetTheorems, WellFoundedInduction, TLAPS

\* What it takes to compare two tracks.
IsQueue(Q, Submitters) == IsFiniteSet(Q) /\ Q \subseteq CandidateOf(Submitters)

\* A round is a natural number, and it is 0 exactly for a submitter's first track.
LEMMA RoundIndexNat ==
  ASSUME NEW S, NEW Q, IsQueue(Q, S), NEW c \in Q
  PROVE  /\ RoundIndex(c, Q) \in Nat
         /\ RoundIndex(c, Q) = 0 <=> OwnAhead(c, Q) = {}
<1>1. IsFiniteSet(OwnAhead(c, Q))
  BY FS_Subset DEF OwnAhead, IsQueue
<1> QED
  BY <1>1, FS_CardinalityType, FS_EmptySet DEF RoundIndex

\* The sort keys of the code, compared.
LEMMA AheadUnfolded ==
  ASSUME NEW S, NEW Q, IsQueue(Q, S), NEW c \in Q, NEW d \in Q
  PROVE  Ahead(c, d, Q) <=>
           \/ c.priority > d.priority
           \/ /\ c.priority = d.priority
              /\ \/ RoundIndex(c, Q) < RoundIndex(d, Q)
                 \/ RoundIndex(c, Q) = RoundIndex(d, Q) /\ c.score > d.score
                 \/ RoundIndex(c, Q) = RoundIndex(d, Q) /\ c.score = d.score
                      /\ c.created_at < d.created_at
                 \/ RoundIndex(c, Q) = RoundIndex(d, Q) /\ c.score = d.score
                      /\ c.created_at = d.created_at /\ c.id < d.id
<1>1. /\ c.priority \in Int /\ c.score \in Int /\ c.created_at \in Int /\ c.id \in Int
      /\ d.priority \in Int /\ d.score \in Int /\ d.created_at \in Int /\ d.id \in Int
  BY DEF IsQueue, CandidateOf
<1>2. RoundIndex(c, Q) \in Int /\ RoundIndex(d, Q) \in Int
  BY RoundIndexNat
<1>3. -c.priority \in Int /\ -c.score \in Int /\ -d.priority \in Int /\ -d.score \in Int
  BY <1>1
<1>4. Ahead(c, d, Q) <=>
        \/ -c.priority < -d.priority
        \/ -c.priority = -d.priority /\ RoundIndex(c, Q) < RoundIndex(d, Q)
        \/ -c.priority = -d.priority /\ RoundIndex(c, Q) = RoundIndex(d, Q) /\ -c.score < -d.score
        \/ -c.priority = -d.priority /\ RoundIndex(c, Q) = RoundIndex(d, Q) /\ -c.score = -d.score
             /\ c.created_at < d.created_at
        \/ -c.priority = -d.priority /\ RoundIndex(c, Q) = RoundIndex(d, Q) /\ -c.score = -d.score
             /\ c.created_at = d.created_at /\ c.id < d.id
  BY <1>1, <1>2, <1>3 DEF Ahead, QueueOrder, TupleLess
<1> QED
  BY <1>1, <1>2, <1>4

\* The keys of a submitter's own list, compared.
LEMMA OwnOrderUnfolded ==
  ASSUME NEW S, NEW Q, IsQueue(Q, S), NEW c \in Q, NEW d \in Q
  PROVE  TupleLess(OwnOrder(c), OwnOrder(d)) <=>
           \/ c.priority > d.priority
           \/ c.priority = d.priority /\ c.score > d.score
           \/ c.priority = d.priority /\ c.score = d.score /\ c.created_at < d.created_at
           \/ c.priority = d.priority /\ c.score = d.score /\ c.created_at = d.created_at
                /\ c.id < d.id
<1>1. /\ c.priority \in Int /\ c.score \in Int /\ c.created_at \in Int /\ c.id \in Int
      /\ d.priority \in Int /\ d.score \in Int /\ d.created_at \in Int /\ d.id \in Int
  BY DEF IsQueue, CandidateOf
<1>2. -c.priority \in Int /\ -c.score \in Int /\ -d.priority \in Int /\ -d.score \in Int
  BY <1>1
<1>3. TupleLess(OwnOrder(c), OwnOrder(d)) <=>
        \/ -c.priority < -d.priority
        \/ -c.priority = -d.priority /\ -c.score < -d.score
        \/ -c.priority = -d.priority /\ -c.score = -d.score /\ c.created_at < d.created_at
        \/ -c.priority = -d.priority /\ -c.score = -d.score /\ c.created_at = d.created_at
             /\ c.id < d.id
  <2> DEFINE x == OwnOrder(c)
             y == OwnOrder(d)
  <2>1. DOMAIN x = 1 .. 4 /\ x[1] = -c.priority /\ x[2] = -c.score
          /\ x[3] = c.created_at /\ x[4] = c.id
    BY DEF OwnOrder
  <2>2. y[1] = -d.priority /\ y[2] = -d.score /\ y[3] = d.created_at /\ y[4] = d.id
    BY DEF OwnOrder
  <2> HIDE DEF x, y
  <2>3. TupleLess(x, y) <=> \/ x[1] < y[1]
                            \/ x[1] = y[1] /\ x[2] < y[2]
                            \/ x[1] = y[1] /\ x[2] = y[2] /\ x[3] < y[3]
                            \/ x[1] = y[1] /\ x[2] = y[2] /\ x[3] = y[3] /\ x[4] < y[4]
    BY <2>1 DEF TupleLess
  <2> QED
    BY <2>1, <2>2, <2>3 DEF x, y
<1> QED
  BY <1>1, <1>3

-----------------------------------------------------------------------------
\* Rule 1 for every finite queue: of two tracks of one submitter the later never
\* plays before another submitter's first, unless it was promoted above it.
THEOREM FirstsBeforeSeconds ==
  ASSUME NEW S, NEW Q, IsQueue(Q, S),
         NEW a \in Q, NEW b \in Q, a.added_by = b.added_by, Ahead(a, b, Q),
         NEW c \in Q, OwnAhead(c, Q) = {}, c.priority >= b.priority
  PROVE  Ahead(c, b, Q)
<1>1. RoundIndex(a, Q) \in Nat /\ RoundIndex(b, Q) \in Nat /\ RoundIndex(c, Q) = 0
  BY RoundIndexNat
<1>2. a.priority \in Int /\ b.priority \in Int /\ c.priority \in Int
  BY DEF IsQueue, CandidateOf
<1>3. RoundIndex(b, Q) > 0
  <2>1. CASE RoundIndex(a, Q) < RoundIndex(b, Q)
    BY <2>1, <1>1
  <2>2. CASE ~(RoundIndex(a, Q) < RoundIndex(b, Q))
    <3>1. a \in OwnAhead(b, Q)
      BY <2>2, <1>1, <1>2, AheadUnfolded, OwnOrderUnfolded DEF OwnAhead
    <3> QED
      BY <3>1, <1>1, RoundIndexNat
  <2> QED
    BY <2>1, <2>2
<1> QED
  BY <1>1, <1>2, <1>3, AheadUnfolded

\* order_queue leaves no two tracks in either order: ids are distinct, so of two
\* tracks exactly one comes first, and the worker and every page agree on which.
THEOREM AheadIsTotal ==
  ASSUME NEW S, NEW Q, IsQueue(Q, S), NEW c \in Q, NEW d \in Q, c.id # d.id
  PROVE  Ahead(c, d, Q) <=> ~Ahead(d, c, Q)
<1>1. /\ c.priority \in Int /\ c.score \in Int /\ c.created_at \in Int /\ c.id \in Int
      /\ d.priority \in Int /\ d.score \in Int /\ d.created_at \in Int /\ d.id \in Int
  BY DEF IsQueue, CandidateOf
<1>2. RoundIndex(c, Q) \in Int /\ RoundIndex(d, Q) \in Int
  BY RoundIndexNat
<1> QED
  BY <1>1, <1>2, AheadUnfolded

\* Nor can three tracks be ordered in a circle, whatever the votes.
THEOREM AheadIsTransitive ==
  ASSUME NEW S, NEW Q, IsQueue(Q, S), NEW c \in Q, NEW d \in Q, NEW e \in Q,
         Ahead(c, d, Q), Ahead(d, e, Q)
  PROVE  Ahead(c, e, Q)
<1>1. /\ c.priority \in Int /\ c.score \in Int /\ c.created_at \in Int /\ c.id \in Int
      /\ d.priority \in Int /\ d.score \in Int /\ d.created_at \in Int /\ d.id \in Int
      /\ e.priority \in Int /\ e.score \in Int /\ e.created_at \in Int /\ e.id \in Int
  BY DEF IsQueue, CandidateOf
<1>2. RoundIndex(c, Q) \in Int /\ RoundIndex(d, Q) \in Int /\ RoundIndex(e, Q) \in Int
  BY RoundIndexNat
<1> QED
  BY <1>1, <1>2, AheadUnfolded

\* A submitter's own tracks play in the order _own_order gives them, "their
\* best-scoring track first", whatever the rounds do to them among the others'.
THEOREM OwnTracksKeepTheirOrder ==
  ASSUME NEW S, NEW Q, IsQueue(Q, S), NEW c \in Q, NEW d \in Q,
         c.added_by = d.added_by, TupleLess(OwnOrder(c), OwnOrder(d))
  PROVE  Ahead(c, d, Q)
<1> DEFINE before == OwnAhead(c, Q)
           beyond == OwnAhead(d, Q)
<1>1. \A x \in Q : x.priority \in Int /\ x.score \in Int /\ x.created_at \in Int /\ x.id \in Int
  BY DEF IsQueue, CandidateOf
<1>2. IsFiniteSet(beyond)
  BY FS_Subset DEF OwnAhead, IsQueue
<1>3. before \subseteq beyond
  <2> SUFFICES ASSUME NEW x \in Q, x.added_by = c.added_by, TupleLess(OwnOrder(x), OwnOrder(c))
               PROVE  TupleLess(OwnOrder(x), OwnOrder(d))
    BY DEF OwnAhead
  <2> QED
    BY <1>1, OwnOrderUnfolded
<1>4. c \in beyond /\ c \notin before
  <2>1. ~TupleLess(OwnOrder(c), OwnOrder(c))
    BY <1>1, OwnOrderUnfolded
  <2> QED
    BY <2>1 DEF OwnAhead
<1>5. RoundIndex(c, Q) < RoundIndex(d, Q)
  <2>1. Cardinality(before) <= Cardinality(beyond) /\ (Cardinality(beyond) = Cardinality(before) => beyond = before)
    BY <1>2, <1>3, FS_Subset
  <2>2. RoundIndex(c, Q) = Cardinality(before) /\ RoundIndex(d, Q) = Cardinality(beyond)
    BY DEF RoundIndex
  <2>3. RoundIndex(c, Q) \in Nat /\ RoundIndex(d, Q) \in Nat
    BY RoundIndexNat
  <2> HIDE DEF before, beyond
  <2> QED
    BY <1>4, <2>1, <2>2, <2>3
<1>6. c.priority >= d.priority
  BY <1>1, OwnOrderUnfolded
<1> QED
  BY <1>1, <1>5, <1>6, AheadUnfolded

\* Two tracks change places only by what their own submitters have queued: a third
\* submitter's track, arriving or leaving, leaves every other pair as it was.
THEOREM OthersDoNotReorder ==
  ASSUME NEW S, NEW Q, IsQueue(Q, S), NEW c \in Q, NEW d \in Q,
         NEW x \in CandidateOf(S), x.added_by # c.added_by, x.added_by # d.added_by
  PROVE  Ahead(c, d, Q \cup {x}) <=> Ahead(c, d, Q)
<1>1. OwnAhead(c, Q \cup {x}) = OwnAhead(c, Q) /\ OwnAhead(d, Q \cup {x}) = OwnAhead(d, Q)
  BY DEF OwnAhead
<1> QED
  BY <1>1 DEF Ahead, QueueOrder, RoundIndex

\* A set of naturals that is not empty has a least element.
LEMMA LeastNat ==
  ASSUME NEW those \in SUBSET Nat, those # {}
  PROVE  \E n \in those : \A m \in those : n <= m
<1>1. PICK n \in those : \A m \in those : ~ (<<m, n>> \in OpToRel(<, Nat))
  BY WFMin, NatLessThanWellFounded, Zenon
<1>2. \A m \in those : ~ (m < n)
  BY <1>1, Zenon DEF OpToRel
<1> QED
  BY <1>2

\* As long as anything waits there is a next track, and only one: what a page
\* shows on top is what the worker claims, however either has read the rows.
THEOREM EveryQueueHasOneHead ==
  ASSUME NEW S, NEW Q, IsQueue(Q, S), Q # {}, \A c, d \in Q : c.id = d.id => c = d
  PROVE  \E c \in Q : Heads(c, Q) /\ \A d \in Q : Heads(d, Q) => d = c
<1> DEFINE Preceding(c) == {d \in Q : Ahead(d, c, Q)}
           sizes == {Cardinality(Preceding(c)) : c \in Q}
<1>1. \A c \in Q : IsFiniteSet(Preceding(c)) /\ Cardinality(Preceding(c)) \in Nat
  BY FS_Subset, FS_CardinalityType DEF IsQueue
<1>2. PICK least \in sizes : \A m \in sizes : least <= m
  <2>1. sizes \in SUBSET Nat /\ sizes # {}
    <3> HIDE DEF Preceding
    <3> QED
      BY <1>1
  <2> HIDE DEF sizes
  <2> QED
    BY <2>1, LeastNat
<1>3. PICK c \in Q : least = Cardinality(Preceding(c))
  OBVIOUS
<1>4. \A x, y \in Q : x # y => (Ahead(x, y, Q) <=> ~Ahead(y, x, Q))
  BY AheadIsTotal
<1>5. ASSUME NEW d \in Q, Ahead(d, c, Q) PROVE FALSE
  <2>1. ~Ahead(d, d, Q)
    <3>1. d.priority \in Int /\ d.score \in Int /\ d.created_at \in Int /\ d.id \in Int
      BY DEF IsQueue, CandidateOf
    <3> QED
      BY <3>1, RoundIndexNat, AheadUnfolded
  <2>2. Preceding(d) \subseteq Preceding(c) /\ d \in Preceding(c) /\ d \notin Preceding(d)
    BY <1>5, <2>1, AheadIsTransitive
  <2>3. least <= Cardinality(Preceding(d))
    <3> HIDE DEF Preceding
    <3>1. Cardinality(Preceding(d)) \in sizes
      OBVIOUS
    <3> QED
      BY <1>2, <3>1
  <2>4. Cardinality(Preceding(c)) \in Nat /\ Cardinality(Preceding(d)) \in Nat /\ IsFiniteSet(Preceding(c))
    BY <1>1
  <2> HIDE DEF Preceding, sizes
  <2>5. /\ Cardinality(Preceding(d)) <= Cardinality(Preceding(c))
        /\ Cardinality(Preceding(c)) = Cardinality(Preceding(d)) => Preceding(c) = Preceding(d)
    BY <2>2, <2>4, FS_Subset
  <2> QED
    BY <1>3, <2>2, <2>3, <2>4, <2>5
<1>6. Heads(c, Q)
  BY <1>4, <1>5 DEF Heads
<1>7. ASSUME NEW d \in Q, Heads(d, Q) PROVE d = c
  BY <1>4, <1>6, <1>7 DEF Heads
<1> QED
  BY <1>6, <1>7
=============================================================================
