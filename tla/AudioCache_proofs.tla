--------------------------- MODULE AudioCache_proofs ---------------------------
(***************************************************************************)
(* Proofs about AudioCache, for any players, videos, threads and budget.   *)
(***************************************************************************)
EXTENDS AudioCache, TLAPS

\* A player looks ahead while it plays, and not otherwise.
LooksWhilePlaying == \A p \in Players : ahead[p] # "waiting" => at[p] = "playing"

\* A download that is still its player's is among the player's tasks.
WritersPend == \A i \in Slots : thread[i].of # None => thread[i].key \in pending[thread[i].of]

\* The inductive invariant.
IInv == CacheTypeOK /\ LooksWhilePlaying /\ FoundFilesStay /\ WritersPend /\ OneWriterPerPlayer

\* A player has nothing at first, and nobody works for it.
LEMMA IInvInit == CacheInit => IInv
  BY DEF CacheInit, IInv, CacheTypeOK, LooksWhilePlaying, FoundFilesStay, Located, WritersPend, OneWriterPerPlayer,
     Free

Threads == [Slots -> {Free} \cup [of : Players \cup {None}, key : Keys, part : BOOLEAN]]

\* A thread that is given a download has the type of one.
LEMMA AskTypes ==
  ASSUME CacheTypeOK, NEW p \in Players, NEW k \in Keys, Ask(p, k)
  PROVE  thread' \in Threads /\ pending' \in [Players -> SUBSET Keys]
<1> USE DEF CacheTypeOK, Threads
<1>1. CASE StartsDownload(p, k)
  <2>1. PICK i \in Slots : thread' = [thread EXCEPT ![i] = [of |-> p, key |-> k, part |-> TRUE]]
    BY <1>1 DEF Ask
  <2>2. pending' = [pending EXCEPT ![p] = @ \cup {k}]
    BY <1>1 DEF Ask
  <2> QED
    BY <2>1, <2>2
<1>2. CASE ~StartsDownload(p, k)
  BY <1>2 DEF Ask
<1> QED
  BY <1>1, <1>2

\* To unlink the .part of a thread that has none changes nothing.
LEMMA FreeHasNoPart == [Free EXCEPT !.part = FALSE] = Free
<1> DEFINE S == [of : {None}, key : {None}, part : {FALSE}]
<1>1. Free \in S /\ [Free EXCEPT !.part = FALSE] \in S
  BY DEF Free
<1>2. \A a, b \in S : a.of = b.of /\ a.key = b.key /\ a.part = b.part
  OBVIOUS
<1>3. \A a \in S : a = [of |-> a.of, key |-> a.key, part |-> a.part]
  OBVIOUS
<1> QED
  BY <1>1, <1>2, <1>3

\* Every step assigns every variable a value of its type.
LEMMA TypeStep ==
  CacheAssumption /\ CacheTypeOK /\ [CacheNext]_cacheVars => CacheTypeOK'
<1> SUFFICES ASSUME CacheAssumption, CacheTypeOK, [CacheNext]_cacheVars PROVE CacheTypeOK'
  OBVIOUS
<1> USE DEF CacheAssumption, CacheTypeOK, player, look, Free, Threads
<1>1. ASSUME NEW i \in Slots, Downloaded(i) PROVE CacheTypeOK'
  <2>1. thread[i] \in [of : Players \cup {None}, key : Keys, part : BOOLEAN]
    BY <1>1 DEF Downloaded
  <2>2. thread' \in Threads
    BY <1>1 DEF Downloaded
  <2>3. CASE thread[i].of = None
    BY <1>1, <2>1, <2>2, <2>3 DEF Downloaded
  <2>4. CASE thread[i].of # None
    <3>1. disk' \subseteq Keys
      <4>1. \E gone : disk' = (disk \cup {thread[i].key}) \ gone
        BY <1>1, <2>4 DEF Downloaded
      <4> QED
        BY <2>1, <4>1
    <3>2. /\ pending' \in [Players -> SUBSET Keys]
          /\ at' \in [Players -> {"idle", "fetching", "opening", "playing"}]
          /\ current' \in [Players -> Keys \cup {None}]
          /\ ahead' \in [Players -> {"waiting", "fetching", "measuring"}]
      BY <1>1, <2>1, <2>4 DEF Downloaded, Answered
    <3> QED
      BY <1>1, <2>2, <3>1, <3>2 DEF Downloaded
  <2> QED
    BY <2>3, <2>4
<1>2. ASSUME NEW i \in Slots, DownloadFails(i) PROVE CacheTypeOK'
  BY <1>2 DEF DownloadFails, Answered
<1>3. ASSUME NEW p \in Players, NEW k \in Keys, Start(p, k) PROVE CacheTypeOK'
  <2>1. Ask(p, k) => thread' \in Threads /\ pending' \in [Players -> SUBSET Keys]
    BY AskTypes
  <2> QED
    BY <1>3, <2>1 DEF Start
<1>4. ASSUME NEW p \in Players, NEW k \in Keys \cup {None}, LookAhead(p, k) PROVE CacheTypeOK'
  <2>1. k # None /\ Ask(p, k) => thread' \in Threads /\ pending' \in [Players -> SUBSET Keys]
    BY AskTypes
  <2> QED
    BY <1>4, <2>1 DEF LookAhead
<1>5. ASSUME NEW p \in Players, Open(p) PROVE CacheTypeOK'
  BY <1>5 DEF Open
<1>6. ASSUME NEW p \in Players, Measured(p) PROVE CacheTypeOK'
  BY <1>6 DEF Measured
<1>7. ASSUME NEW p \in Players, PlayEnds(p) PROVE CacheTypeOK'
  <2>1. ASSUME NEW i \in Slots
        PROVE  thread'[i] \in {Free} \cup [of : Players \cup {None}, key : Keys, part : BOOLEAN]
    <3>1. CASE thread[i] = Free
      <4>1. [Free EXCEPT !.part = FALSE] = Free
        BY FreeHasNoPart
      <4> HIDE DEF Free
      <4> QED
        BY <1>7, <3>1, <4>1 DEF PlayEnds
    <3>2. CASE thread[i] \in [of : Players \cup {None}, key : Keys, part : BOOLEAN]
      BY <1>7, <3>2 DEF PlayEnds
    <3> QED
      BY <3>1, <3>2
  <2>2. DOMAIN thread' = Slots /\ thread' = [i \in Slots |-> thread'[i]]
    BY <1>7 DEF PlayEnds
  <2>3. thread' \in Threads
    BY <2>1, <2>2
  <2>4. released' \subseteq Players \X Keys
    BY <1>7 DEF PlayEnds, Located
  <2> QED
    BY <1>7, <2>3, <2>4 DEF PlayEnds
<1>8. ASSUME NEW p \in Players, Drop(p) PROVE CacheTypeOK'
  BY <1>8 DEF Drop
<1>9. CASE SweepCache
  BY <1>9 DEF SweepCache
<1>10. CASE Purge
  BY <1>10 DEF Purge
<1>11. CASE UNCHANGED cacheVars
  BY <1>11 DEF cacheVars
<1> QED
  BY <1>1, <1>2, <1>3, <1>4, <1>5, <1>6, <1>7, <1>8, <1>9, <1>10, <1>11 DEF CacheNext

\* What starts or ends a track finds the lookahead waiting, or stops it.
LEMMA LooksStep ==
  CacheAssumption /\ CacheTypeOK /\ LooksWhilePlaying /\ [CacheNext]_cacheVars => LooksWhilePlaying'
<1> SUFFICES ASSUME CacheAssumption, CacheTypeOK, LooksWhilePlaying, [CacheNext]_cacheVars PROVE LooksWhilePlaying'
  OBVIOUS
<1> USE DEF CacheAssumption, CacheTypeOK, player, look, Free, LooksWhilePlaying
<1>1. ASSUME NEW i \in Slots, Downloaded(i) PROVE LooksWhilePlaying'
  BY <1>1 DEF Downloaded, Answered
<1>2. ASSUME NEW i \in Slots, DownloadFails(i) PROVE LooksWhilePlaying'
  BY <1>2 DEF DownloadFails, Answered
<1>3. ASSUME NEW p \in Players, NEW k \in Keys, Start(p, k) PROVE LooksWhilePlaying'
  BY <1>3 DEF Start, Ask
<1>4. ASSUME NEW p \in Players, NEW k \in Keys \cup {None}, LookAhead(p, k) PROVE LooksWhilePlaying'
  BY <1>4 DEF LookAhead, Ask
<1>5. ASSUME NEW p \in Players, Open(p) PROVE LooksWhilePlaying'
  BY <1>5 DEF Open
<1>6. ASSUME NEW p \in Players, Measured(p) PROVE LooksWhilePlaying'
  BY <1>6 DEF Measured
<1>7. ASSUME NEW p \in Players, PlayEnds(p) PROVE LooksWhilePlaying'
  BY <1>7 DEF PlayEnds
<1>8. ASSUME NEW p \in Players, Drop(p) PROVE LooksWhilePlaying'
  BY <1>8 DEF Drop
<1>9. CASE SweepCache
  BY <1>9 DEF SweepCache
<1>10. CASE Purge
  BY <1>10 DEF Purge
<1>11. CASE UNCHANGED cacheVars
  BY <1>11 DEF cacheVars
<1> QED
  BY <1>1, <1>2, <1>3, <1>4, <1>5, <1>6, <1>7, <1>8, <1>9, <1>10, <1>11 DEF CacheNext

\* Nothing but the end of a track takes a file that a player has found.
LEMMA FoundStep ==
  CacheAssumption /\ CacheTypeOK /\ LooksWhilePlaying /\ FoundFilesStay /\ [CacheNext]_cacheVars => FoundFilesStay'
<1> SUFFICES ASSUME CacheAssumption, CacheTypeOK, LooksWhilePlaying, FoundFilesStay, [CacheNext]_cacheVars PROVE FoundFilesStay'
  OBVIOUS
<1> USE DEF CacheAssumption, CacheTypeOK, player, look, Free, FoundFilesStay, Located
<1>1. ASSUME NEW i \in Slots, Downloaded(i) PROVE FoundFilesStay'
  <2>1. thread[i].key \in Keys /\ released' = released /\ next' = next
    BY <1>1 DEF Downloaded
  <2>2. ASSUME NEW q \in Players, NEW k \in Keys, k \in Located(q)', k \notin Located(q)
        PROVE  k = thread[i].key /\ thread[i].of # None
    BY <1>1, <2>2 DEF Downloaded, Answered
  <2>3. ASSUME NEW q \in Players, NEW k \in Keys, k \in Located(q) PROVE k \in protected_keys
    <3>1. k \in Protected(q)
      BY <2>3 DEF Protected
    <3> QED
      BY <3>1 DEF protected_keys
  <2>4. thread[i].key \in disk' /\ \A k \in Keys : k \in protected_keys /\ k \in disk => k \in disk'
    BY <1>1 DEF Downloaded, Evictions, Spared
  <2> HIDE DEF Located
  <2>5. ASSUME NEW q \in Players, NEW k \in Keys, k \in Located(q)' PROVE k \in disk' \/ <<q, k>> \in released'
    <3>1. CASE k \in Located(q)
      BY <2>1, <2>3, <2>4, <3>1
    <3>2. CASE k \notin Located(q)
      BY <2>2, <2>4, <2>5, <3>2
    <3> QED
      BY <3>1, <3>2
  <2> QED
    BY <2>5 DEF Located
<1>2. ASSUME NEW i \in Slots, DownloadFails(i) PROVE FoundFilesStay'
  <2>1. UNCHANGED <<disk, released>>
    BY <1>2 DEF DownloadFails
  <2>2. \A q \in Players : Located(q)' \subseteq Located(q)
    BY <1>2 DEF DownloadFails, Answered
  <2> HIDE DEF Located
  <2> QED
    BY <2>1, <2>2
<1>3. ASSUME NEW p \in Players, NEW k \in Keys, Start(p, k) PROVE FoundFilesStay'
  BY <1>3 DEF Start, Ask
<1>4. ASSUME NEW p \in Players, NEW k \in Keys \cup {None}, LookAhead(p, k) PROVE FoundFilesStay'
  BY <1>4 DEF LookAhead, Ask
<1>5. ASSUME NEW p \in Players, Open(p) PROVE FoundFilesStay'
  <2>1. disk' = disk /\ released' = released \ {<<p, current[p]>>}
    BY <1>5 DEF Open
  <2>2. \A q \in Players : Located(q)' \subseteq Located(q)
    BY <1>5 DEF Open
  <2>3. Located(p)' = {}
    BY <1>5 DEF Open, LooksWhilePlaying
  <2> HIDE DEF Located
  <2> QED
    BY <2>1, <2>2, <2>3
<1>6. ASSUME NEW p \in Players, Measured(p) PROVE FoundFilesStay'
  <2>1. disk' = disk /\ released' = released \ {<<p, next[p]>>}
    BY <1>6 DEF Measured
  <2>2. \A q \in Players : Located(q)' \subseteq Located(q)
    BY <1>6 DEF Measured
  <2>3. Located(p)' = {}
    BY <1>6 DEF Measured, LooksWhilePlaying
  <2> HIDE DEF Located
  <2> QED
    BY <2>1, <2>2, <2>3
<1>7. ASSUME NEW p \in Players, PlayEnds(p) PROVE FoundFilesStay'
  BY <1>7 DEF PlayEnds
<1>8. ASSUME NEW p \in Players, Drop(p) PROVE FoundFilesStay'
  BY <1>8 DEF Drop
<1>9. CASE SweepCache
  <2>1. ASSUME NEW q \in Players, NEW k \in Keys, k \in Located(q) PROVE k \in protected_keys
    <3>1. k \in Protected(q)
      BY <2>1 DEF Protected
    <3> QED
      BY <3>1 DEF protected_keys
  <2>2. \A q \in Players : Located(q)' = Located(q)
    BY <1>9 DEF SweepCache
  <2>3. released' = released /\ \A k \in Keys : k \in protected_keys /\ k \in disk => k \in disk'
    BY <1>9 DEF SweepCache
  <2> HIDE DEF Located
  <2> QED
    BY <2>1, <2>2, <2>3
<1>10. CASE Purge
  BY <1>10 DEF Purge
<1>11. CASE UNCHANGED cacheVars
  BY <1>11 DEF cacheVars
<1> QED
  BY <1>1, <1>2, <1>3, <1>4, <1>5, <1>6, <1>7, <1>8, <1>9, <1>10, <1>11 DEF CacheNext

\* A download begins with a task that was not there, and ends with it.
LEMMA WriterStep ==
  CacheAssumption /\ CacheTypeOK /\ WritersPend /\ OneWriterPerPlayer /\ [CacheNext]_cacheVars => (WritersPend /\ OneWriterPerPlayer)'
<1> SUFFICES ASSUME CacheAssumption, CacheTypeOK, WritersPend, OneWriterPerPlayer, [CacheNext]_cacheVars PROVE (WritersPend /\ OneWriterPerPlayer)'
  OBVIOUS
<1> USE DEF CacheAssumption, CacheTypeOK, player, look, Free, WritersPend, OneWriterPerPlayer, StartsDownload
<1>1. ASSUME NEW i \in Slots, Downloaded(i) PROVE (WritersPend /\ OneWriterPerPlayer)'
  BY <1>1 DEF Downloaded, Answered
<1>2. ASSUME NEW i \in Slots, DownloadFails(i) PROVE (WritersPend /\ OneWriterPerPlayer)'
  BY <1>2 DEF DownloadFails, Answered
<1>3. ASSUME NEW p \in Players, NEW k \in Keys, Start(p, k) PROVE (WritersPend /\ OneWriterPerPlayer)'
  BY <1>3 DEF Start, Ask
<1>4. ASSUME NEW p \in Players, NEW k \in Keys \cup {None}, LookAhead(p, k) PROVE (WritersPend /\ OneWriterPerPlayer)'
  BY <1>4 DEF LookAhead, Ask
<1>5. ASSUME NEW p \in Players, Open(p) PROVE (WritersPend /\ OneWriterPerPlayer)'
  BY <1>5 DEF Open
<1>6. ASSUME NEW p \in Players, Measured(p) PROVE (WritersPend /\ OneWriterPerPlayer)'
  BY <1>6 DEF Measured
<1>7. ASSUME NEW p \in Players, PlayEnds(p) PROVE (WritersPend /\ OneWriterPerPlayer)'
  BY <1>7 DEF PlayEnds
<1>8. ASSUME NEW p \in Players, Drop(p) PROVE (WritersPend /\ OneWriterPerPlayer)'
  BY <1>8 DEF Drop
<1>9. CASE SweepCache
  BY <1>9 DEF SweepCache
<1>10. CASE Purge
  BY <1>10 DEF Purge
<1>11. CASE UNCHANGED cacheVars
  BY <1>11 DEF cacheVars
<1> QED
  BY <1>1, <1>2, <1>3, <1>4, <1>5, <1>6, <1>7, <1>8, <1>9, <1>10, <1>11 DEF CacheNext

\* The invariant survives every step of a player, a thread or the directory's owner.
LEMMA IInvStep == CacheAssumption /\ IInv /\ [CacheNext]_cacheVars => IInv'
  BY TypeStep, LooksStep, FoundStep, WriterStep DEF IInv

\* A player finds the file it has been told is there, and no player downloads a
\* video twice at one time.
THEOREM CacheIsSafe == CacheAssumption => (CacheSpec => [](FoundFilesStay /\ OneWriterPerPlayer))
<1> SUFFICES ASSUME CacheAssumption PROVE CacheSpec => [](FoundFilesStay /\ OneWriterPerPlayer)
  OBVIOUS
<1>1. IInv => FoundFilesStay /\ OneWriterPerPlayer
  BY DEF IInv
<1>2. IInv /\ [CacheNext]_cacheVars => IInv'
  BY IInvStep
<1> QED
  BY <1>1, <1>2, IInvInit, PTL DEF CacheSpec
=============================================================================
