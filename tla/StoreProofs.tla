------------------------------ MODULE StoreProofs ------------------------------
(***************************************************************************)
(* Proofs about the store, for any number of sessions, messages, seeds and *)
(* verdicts: one inductive invariant from which all the properties that    *)
(* MCStore checks follow.                                                  *)
(***************************************************************************)
EXTENDS Store, WellFoundedInduction, TLAPS

\* What is noted of a session in progress.
Loads == UNION {[ids -> Rows] : ids \in SUBSET Ids}
Analyses == UNION {[ids -> Verdicts] : ids \in SUBSET Ids}

Session == [pc : {"idle", "flush", "refresh"}, op : Texts \cup {None, "reanalyse", "delete"},
            loaded : Loads, fresh : Analyses, todo : SUBSET Ids, id : Ids \cup {None},
            reset : BOOLEAN]

Types ==
    /\ table \in [Ids -> Rows \cup {None}]
    /\ lastId \in 0..MaxId
    /\ sess \in [Sessions -> Session]
    /\ locks \in [Ids -> Sessions \cup {None}]
    /\ deleted \subseteq 1..lastId
    /\ raced \subseteq Ids
    /\ Existing \subseteq 1..lastId

\* A session that flushes has loaded rows of the past, and what it must still
\* write is among them. Locks are of flushing sessions, on rows that exist.
Held ==
    /\ \A s \in Open :
          /\ sess[s].op \in {"reanalyse", "delete"}
          /\ DOMAIN sess[s].loaded \subseteq 1..lastId
          /\ sess[s].todo \subseteq DOMAIN sess[s].loaded
          /\ sess[s].op = "reanalyse" => DOMAIN sess[s].fresh = DOMAIN sess[s].loaded
    /\ \A i \in Ids : locks[i] # None =>
          /\ locks[i] \in Open
          /\ table[i] # None
          /\ i \in DOMAIN sess[locks[i]].loaded

\* A flush moves up: what is written lies below what is still to be written.
Upward == \A i \in Ids : locks[i] # None => \A j \in sess[locks[i]].todo : i < j

\* What a delete is done with is locked by it, or gone.
DeletesDone ==
    \A s \in Open : sess[s].op = "delete" =>
        \A i \in DOMAIN sess[s].loaded : i \in sess[s].todo \/ locks[i] = s \/ table[i] = None

\* A row that no other session wrote since it was loaded is as it was loaded.
LoadedUnlessRaced ==
    \A s \in Open : sess[s].op = "reanalyse" =>
        \A i \in DOMAIN sess[s].loaded : i \in raced \/ table[i] = None \/ table[i] = sess[s].loaded[i]

\* The row a session will answer with has been there.
Answers ==
    \A s \in Sessions : sess[s].pc = "refresh" =>
        /\ sess[s].id \in Ids
        /\ ~sess[s].reset =>
              /\ sess[s].id \in 1..lastId
              /\ table[sess[s].id] # None => table[sess[s].id].text = sess[s].op

SInv ==
    /\ Types /\ Held /\ Upward /\ DeletesDone /\ LoadedUnlessRaced /\ Answers
    /\ LoadedIsCurrent /\ DeletedStaysDeleted /\ MixedNeedsRace

\* The smallest element of a set of numbers.
Smaller == {ss \in Nat \X Nat : ss[1] < ss[2]}

LEMMA SmallerWellFounded == IsWellFoundedOn(Smaller, Nat)
  BY NatLessThanWellFounded, Zenon DEF Smaller, OpToRel

LEMMA HasLeast ==
    ASSUME NEW T, T \subseteq Nat, T # {}
    PROVE  \E x \in T : \A y \in T : x <= y
  <1>1. PICK x \in T : \A y \in T : ~(<<y, x>> \in Smaller)
    BY SmallerWellFounded, WFMin, Zenon
  <1>2. ASSUME NEW y \in T PROVE x <= y
    <2>1. x \in Nat /\ y \in Nat /\ ~(<<y, x>> \in Smaller)
      BY <1>1
    <2>2. ~(y < x)
      BY <2>1 DEF Smaller
    <2> QED
      BY <2>1, <2>2
  <1> QED
    BY <1>2

\* The row a flush is at is the first of those to be written.
LEMMA NextRowIsFirst ==
    ASSUME Types, NEW s \in Sessions, Flushing(s)
    PROVE  /\ NextRow(s) \in sess[s].todo
           /\ NextRow(s) \in Ids
           /\ \A j \in sess[s].todo : NextRow(s) <= j
  <1>1. sess[s].todo \subseteq Ids /\ sess[s].todo # {}
    BY DEF Types, Flushing, Session
  <1>2. sess[s].todo \subseteq Nat
    BY <1>1 DEF Ids
  <1>3. \E i \in sess[s].todo : \A j \in sess[s].todo : i <= j
    BY <1>1, <1>2, HasLeast
  <1>4. NextRow(s) \in sess[s].todo /\ \A j \in sess[s].todo : NextRow(s) <= j
    BY <1>3, Zenon DEF NextRow
  <1> QED
    BY <1>1, <1>4

\* The records the actions put into sess.
LEMMA IdleSession == Idle \in Session /\ Nothing \in Loads /\ Nothing \in Analyses
  <1>1. Nothing \in [{} -> Rows] /\ Nothing \in [{} -> Verdicts]
    BY DEF Nothing
  <1>2. Nothing \in Loads /\ Nothing \in Analyses
    BY <1>1 DEF Loads, Analyses
  <1> QED
    BY <1>2 DEF Idle, Session

LEMMA InitSInv == SInit => SInv
  <1> SUFFICES ASSUME SInit PROVE SInv
    OBVIOUS
  <1>1. Types
    BY StoreAssumption, IdleSession DEF SInit, Types, Existing
  <1>2. Held /\ Upward /\ DeletesDone /\ LoadedUnlessRaced /\ LoadedIsCurrent
    BY DEF SInit, Held, Upward, DeletesDone, LoadedUnlessRaced, LoadedIsCurrent, Open, Idle
  <1>3. Answers /\ DeletedStaysDeleted /\ MixedNeedsRace
    BY DEF SInit, Answers, DeletedStaysDeleted, MixedNeedsRace, Existing, Idle
  <1> QED
    BY <1>1, <1>2, <1>3 DEF SInv

\* What a session holds of a row.
LEMMA HeldRows ==
    ASSUME Types, NEW s \in Sessions
    PROVE  /\ \A i \in DOMAIN sess[s].loaded : sess[s].loaded[i] \in Rows
           /\ \A i \in DOMAIN sess[s].fresh : sess[s].fresh[i] \in Verdicts
  <1>1. sess[s].loaded \in Loads /\ sess[s].fresh \in Analyses
    BY DEF Types, Session
  <1>2. ASSUME NEW f \in Loads, NEW i \in DOMAIN f PROVE f[i] \in Rows
    BY <1>2 DEF Loads
  <1>3. ASSUME NEW f \in Analyses, NEW i \in DOMAIN f PROVE f[i] \in Verdicts
    BY <1>3 DEF Analyses
  <1> QED
    BY <1>1, <1>2, <1>3

\* Loaded ids are ids.
LEMMA LoadedIds ==
    ASSUME SInv, NEW s \in Open
    PROVE  /\ s \in Sessions
           /\ DOMAIN sess[s].loaded \subseteq Ids
           /\ sess[s].todo \subseteq DOMAIN sess[s].loaded
  <1>1. lastId \in Nat /\ 1..lastId \subseteq Ids
    BY StoreAssumption DEF SInv, Types, Ids
  <1> QED
    BY <1>1 DEF SInv, Held, Open

\* A request that ends without writing: answered, failed or rolled back.
LEMMA Abandons ==
    ASSUME SInv, NEW s \in Sessions, UNCHANGED <<table, lastId, deleted, raced>>,
           sess' = [sess EXCEPT ![s] = Idle],
           locks' = Unlocked(s)
    PROVE  SInv'
  <1> USE DEF SInv
  <1>1. Types'
    BY IdleSession DEF Types, Unlocked, Existing
  <1>2. \A t \in Sessions : sess'[t] = IF t = s THEN Idle ELSE sess[t]
    BY DEF Types
  <1>3. Open' = Open \ {s}
    BY <1>2 DEF Open, Idle
  <1>4. \A i \in Ids : locks'[i] = IF locks[i] = s THEN None ELSE locks[i]
    BY DEF Unlocked
  <1>5. s # None /\ Open \subseteq Sessions
    BY StoreAssumption DEF Open
  <1>6. Held'
    BY <1>2, <1>3, <1>4, <1>5 DEF Held
  <1>7. Upward'
    BY <1>2, <1>3, <1>4, <1>5 DEF Upward, Held
  <1>8. DeletesDone' /\ LoadedUnlessRaced' /\ LoadedIsCurrent'
    BY <1>2, <1>3, <1>4, <1>5, LoadedIds DEF DeletesDone, LoadedUnlessRaced, LoadedIsCurrent
  <1>9. Answers'
    BY <1>2 DEF Answers, Idle
  <1>10. DeletedStaysDeleted' /\ MixedNeedsRace'
    BY DEF DeletedStaysDeleted, MixedNeedsRace, Existing
  <1> QED
    BY <1>1, <1>6, <1>7, <1>8, <1>9, <1>10

\* A request that loads rows.
LEMMA Begins ==
    ASSUME SInv, NEW s \in Sessions, sess[s].pc = "idle", UNCHANGED <<table, lastId, locks, deleted, raced>>,
           NEW ids \in SUBSET Existing, NEW new \in Session,
           sess' = [sess EXCEPT ![s] = new],
           new.pc = "flush", new.op \in {"reanalyse", "delete"},
           new.loaded = [i \in ids |-> table[i]],
           new.todo \subseteq ids,
           new.op = "reanalyse" => DOMAIN new.fresh = ids,
           new.op = "delete" => new.todo = ids
    PROVE  SInv'
  <1> USE DEF SInv
  <1>1. Types'
    BY DEF Types, Existing
  <1>2. \A t \in Sessions : sess'[t] = IF t = s THEN new ELSE sess[t]
    BY DEF Types
  <1>3. Open' = Open \cup {s} /\ s \notin Open
    BY <1>2 DEF Open
  <1>4. ids \subseteq Ids /\ ids \subseteq 1..lastId /\ DOMAIN new.loaded = ids /\ \A i \in ids : new.loaded[i] = table[i]
    BY DEF Existing, Types
  <1>5. \A i \in Ids : locks[i] # s
    BY <1>3, StoreAssumption DEF Held
  <1>6. Held'
    <2>1. ASSUME NEW t \in Open'
          PROVE  /\ sess'[t].op \in {"reanalyse", "delete"}
                 /\ DOMAIN sess'[t].loaded \subseteq 1..lastId
                 /\ sess'[t].todo \subseteq DOMAIN sess'[t].loaded
                 /\ sess'[t].op = "reanalyse" => DOMAIN sess'[t].fresh = DOMAIN sess'[t].loaded
      <3>1. CASE t = s
        BY <1>2, <1>4, <3>1
      <3>2. CASE t # s
        BY <1>2, <1>3, <3>2 DEF Held, Open
      <3> QED
        BY <3>1, <3>2
    <2>2. ASSUME NEW i \in Ids, locks[i] # None
          PROVE  locks[i] \in Open' /\ table[i] # None /\ i \in DOMAIN sess'[locks[i]].loaded
      BY <1>2, <1>3, <1>5, <2>2 DEF Held, Open
    <2> QED
      BY <2>1, <2>2 DEF Held
  <1>7. Upward'
    BY <1>2, <1>3, <1>5 DEF Upward, Held, Open
  <1>8. ASSUME NEW t \in Open'
        PROVE  /\ sess'[t].op = "delete" =>
                     \A i \in DOMAIN sess'[t].loaded : i \in sess'[t].todo \/ locks[i] = t \/ table[i] = None
               /\ sess'[t].op = "reanalyse" =>
                     \A i \in DOMAIN sess'[t].loaded :
                         i \in raced \/ table[i] = None \/ table[i] = sess'[t].loaded[i]
               /\ \A i \in DOMAIN sess'[t].loaded : table[i] # None => table[i].text = sess'[t].loaded[i].text
    <2>1. CASE t = s
      <3>1. sess'[t] = new
        BY <1>2, <2>1
      <3>2. \A i \in ids : table[i] = new.loaded[i]
        BY <1>4
      <3>3. DOMAIN new.loaded = ids /\ new.op = "delete" => new.todo = ids
        BY <1>4
      <3> QED
        BY <1>4, <3>1, <3>2, <3>3, Zenon
    <2>2. CASE t # s
      <3>1. t \in Open /\ sess'[t] = sess[t]
        BY <1>2, <1>3, <2>2 DEF Open
      <3> QED
        BY <3>1 DEF DeletesDone, LoadedUnlessRaced, LoadedIsCurrent
    <2> QED
      BY <2>1, <2>2
  <1>9. DeletesDone' /\ LoadedUnlessRaced' /\ LoadedIsCurrent'
    BY <1>8 DEF DeletesDone, LoadedUnlessRaced, LoadedIsCurrent
  <1>10. Answers'
    BY <1>2 DEF Answers
  <1>11. DeletedStaysDeleted' /\ MixedNeedsRace'
    BY DEF DeletedStaysDeleted, MixedNeedsRace, Existing
  <1> QED
    BY <1>1, <1>6, <1>7, <1>9, <1>10, <1>11

\* A flush gets on by a row, which it locks or finds gone.
LEMMA Advances ==
    ASSUME SInv, NEW s \in Sessions, Flushing(s), UNCHANGED <<table, lastId, deleted, raced>>,
           sess' = [sess EXCEPT ![s].todo = @ \ {NextRow(s)}],
           \/ /\ locks[NextRow(s)] = None
              /\ table[NextRow(s)] # None
              /\ locks' = [locks EXCEPT ![NextRow(s)] = s]
           \/ table[NextRow(s)] = None /\ UNCHANGED locks
    PROVE  SInv'
  <1> DEFINE n == NextRow(s)
  <1>1. n \in Ids /\ n \in sess[s].todo /\ \A j \in sess[s].todo : n <= j
    BY NextRowIsFirst DEF SInv
  <1>2. \/ locks[n] = None /\ table[n] # None /\ locks' = [locks EXCEPT ![n] = s]
        \/ table[n] = None /\ UNCHANGED locks
    OBVIOUS
  <1>3. sess' = [sess EXCEPT ![s] = [sess[s] EXCEPT !.todo = sess[s].todo \ {n}]]
    OBVIOUS
  <1> HIDE DEF n
  <1>4. Types'
    BY <1>1, <1>2, <1>3 DEF SInv, Types, Session, Existing
  <1>5. /\ \A t \in Sessions : t # s => sess'[t] = sess[t]
        /\ sess'[s].todo = sess[s].todo \ {n}
        /\ sess'[s].pc = sess[s].pc /\ sess'[s].op = sess[s].op /\ sess'[s].loaded = sess[s].loaded
        /\ sess'[s].fresh = sess[s].fresh /\ sess'[s].id = sess[s].id /\ sess'[s].reset = sess[s].reset
    BY <1>3 DEF SInv, Types, Session
  <1>6. s \in Open /\ Open' = Open /\ Open \subseteq Sessions
    BY <1>5 DEF Open, Flushing
  <1>7. /\ s # None /\ n \in DOMAIN sess[s].loaded
        /\ \A i \in Ids : locks'[i] = locks[i] \/ (i = n /\ locks'[n] = s /\ table[n] # None)
        /\ locks'[n] = s \/ table[n] = None
        /\ \A i \in Ids : locks[i] # None => locks'[i] = locks[i]
    BY <1>1, <1>2, <1>6, LoadedIds, StoreAssumption DEF SInv, Types
  <1>8. Held'
    <2>1. ASSUME NEW t \in Open
          PROVE  /\ sess'[t].op \in {"reanalyse", "delete"}
                 /\ DOMAIN sess'[t].loaded \subseteq 1..lastId
                 /\ sess'[t].todo \subseteq DOMAIN sess'[t].loaded
                 /\ sess'[t].op = "reanalyse" => DOMAIN sess'[t].fresh = DOMAIN sess'[t].loaded
      BY <1>5, <1>6 DEF SInv, Held
    <2>2. ASSUME NEW i \in Ids, locks'[i] # None
          PROVE  locks'[i] \in Open /\ table[i] # None /\ i \in DOMAIN sess'[locks'[i]].loaded
      <3>1. CASE locks'[i] = locks[i]
        BY <1>5, <1>6, <2>2, <3>1 DEF SInv, Held
      <3>2. CASE i = n /\ locks'[n] = s /\ table[n] # None
        BY <1>5, <1>6, <1>7, <3>2
      <3> QED
        BY <1>7, <3>1, <3>2
    <2> QED
      BY <1>6, <2>1, <2>2 DEF Held
  <1>9. Upward'
    <2> SUFFICES ASSUME NEW i \in Ids, locks'[i] # None, NEW j \in sess'[locks'[i]].todo
                 PROVE  i < j
      BY DEF Upward
    <2>1. CASE locks'[i] = locks[i]
      <3>1. j \in sess[locks[i]].todo
        BY <1>5, <1>6, <2>1 DEF SInv, Held
      <3> QED
        BY <2>1, <3>1 DEF SInv, Upward
    <2>2. CASE i = n /\ locks'[n] = s
      <3>1. j \in sess[s].todo /\ j # n
        BY <1>5, <2>2
      <3>2. j \in Ids
        BY <1>6, <3>1, LoadedIds
      <3> QED
        BY <1>1, <2>2, <3>1, <3>2 DEF Ids
    <2> QED
      BY <1>7, <2>1, <2>2
  <1>10. DeletesDone'
    <2> SUFFICES ASSUME NEW t \in Open, sess'[t].op = "delete", NEW i \in DOMAIN sess'[t].loaded
                 PROVE  i \in sess'[t].todo \/ locks'[i] = t \/ table[i] = None
      BY <1>6 DEF DeletesDone
    <2>1. i \in DOMAIN sess[t].loaded /\ sess[t].op = "delete" /\ i \in Ids /\ t # None
      BY <1>5, <1>6, LoadedIds, StoreAssumption
    <2>2. i \in sess[t].todo \/ locks[i] = t \/ table[i] = None
      BY <2>1 DEF SInv, DeletesDone
    <2> QED
      BY <1>5, <1>6, <1>7, <2>1, <2>2
  <1>11. LoadedUnlessRaced' /\ LoadedIsCurrent'
    BY <1>5, <1>6 DEF SInv, LoadedUnlessRaced, LoadedIsCurrent
  <1>12. Answers'
    BY <1>5 DEF SInv, Answers
  <1>13. DeletedStaysDeleted' /\ MixedNeedsRace'
    BY DEF SInv, DeletedStaysDeleted, MixedNeedsRace, Existing
  <1> QED
    BY <1>4, <1>8, <1>9, <1>10, <1>11, <1>12, <1>13 DEF SInv

\* An ingest: the new id is none that anybody loaded or deleted.
LEMMA InsertKeeps ==
    ASSUME SInv, NEW s \in Sessions, NEW text \in Mails, NEW v \in Verdicts, Insert(s, text, v)
    PROVE  SInv'
  <1> DEFINE n == lastId + 1
  <1> DEFINE new == [Idle EXCEPT !.pc = "refresh", !.op = text, !.id = n]
  <1>1. n \in Ids /\ lastId' = n /\ n \notin 1..lastId /\ lastId \in Nat
    BY StoreAssumption DEF Insert, SInv, Types, Ids
  <1>2. table' = [table EXCEPT ![n] = Row(text, v)] /\ UNCHANGED <<locks, deleted, raced>>
    BY DEF Insert
  <1>3. sess' = [sess EXCEPT ![s] = new] /\ sess[s].pc = "idle"
    BY DEF Insert
  <1>4. Row(text, v) \in Rows /\ Row(text, v) # None /\ Row(text, v).text = text
        /\ Row(text, v) = Row(Row(text, v).text, v)
    BY StoreAssumption DEF Row, Rows, Texts, Auths, Delivs
  <1>5. new \in Session /\ new.pc = "refresh" /\ new.op = text /\ new.id = n
    BY <1>1, IdleSession DEF Idle, Session, Texts
  <1>6. \A i \in Ids : table'[i] = IF i = n THEN Row(text, v) ELSE table[i]
    BY <1>1, <1>2 DEF SInv, Types
  <1> HIDE DEF new, n
  <1>7. \A t \in Sessions : sess'[t] = IF t = s THEN new ELSE sess[t]
    BY <1>3 DEF SInv, Types
  <1>8. Open' = Open /\ s \notin Open /\ Open \subseteq Sessions
    BY <1>3, <1>5, <1>7 DEF Open
  <1>9. \A i \in 1..lastId : i \in Ids /\ i # n /\ i \in 1..lastId'
    BY <1>1, StoreAssumption DEF SInv, Types, Ids
  <1>10. \A t \in Open : /\ sess'[t] = sess[t]
                         /\ DOMAIN sess[t].loaded \subseteq 1..lastId
                         /\ \A i \in DOMAIN sess[t].loaded : table'[i] = table[i]
    BY <1>6, <1>7, <1>8, <1>9 DEF SInv, Held
  <1>11. Types'
    <2>1. table' \in [Ids -> Rows \cup {None}] /\ sess' \in [Sessions -> Session]
      BY <1>2, <1>3, <1>4, <1>5 DEF SInv, Types
    <2>2. lastId' \in 0..MaxId /\ 1..lastId \subseteq 1..lastId' /\ n \in 1..lastId'
      BY <1>1 DEF Ids
    <2>3. Existing' \subseteq 1..lastId'
      BY <1>6, <2>2 DEF SInv, Types, Existing
    <2> QED
      BY <1>2, <2>1, <2>2, <2>3 DEF SInv, Types
  <1>12. Held'
    BY <1>2, <1>6, <1>8, <1>9, <1>10, <1>4 DEF SInv, Held
  <1>13. Upward'
    BY <1>2, <1>8, <1>10 DEF SInv, Upward, Held
  <1>14. DeletesDone' /\ LoadedUnlessRaced' /\ LoadedIsCurrent'
    BY <1>2, <1>8, <1>10 DEF SInv, DeletesDone, LoadedUnlessRaced, LoadedIsCurrent
  <1>15. Answers'
    <2> SUFFICES ASSUME NEW t \in Sessions, sess'[t].pc = "refresh"
                 PROVE  /\ sess'[t].id \in Ids
                        /\ ~sess'[t].reset =>
                              /\ sess'[t].id \in 1..lastId'
                              /\ table'[sess'[t].id] # None => table'[sess'[t].id].text = sess'[t].op
      BY DEF Answers
    <2>1. CASE t = s
      BY <1>1, <1>4, <1>5, <1>6, <1>7, <2>1 DEF n
    <2>2. CASE t # s
      BY <1>6, <1>7, <1>9, <2>2 DEF SInv, Answers
    <2> QED
      BY <2>1, <2>2
  <1>16. DeletedStaysDeleted'
    BY <1>2, <1>6, <1>9 DEF SInv, Types, DeletedStaysDeleted, Existing
  <1>17. MixedNeedsRace'
    BY <1>2, <1>4, <1>6 DEF SInv, MixedNeedsRace, Existing
  <1> QED
    BY <1>11, <1>12, <1>13, <1>14, <1>15, <1>16, <1>17 DEF SInv

\* The commit of a reanalysis writes what was locked, and nobody else's rows.
LEMMA ReanalysisKeeps ==
    ASSUME SInv, NEW s \in Sessions, CommitReanalysis(s)
    PROVE  SInv'
  <1>1. s \in Open /\ Open \subseteq Sessions /\ s # None /\ sess[s].op = "reanalyse" /\ sess[s].todo = {}
    BY StoreAssumption DEF CommitReanalysis, Open
  <1>2. PICK new \in Session :
           /\ sess' = [sess EXCEPT ![s] = new]
           /\ \/ new.pc = "idle"
              \/ \E i \in DOMAIN sess[s].loaded :
                    new.pc = "refresh" /\ new.id = i /\ new.op = sess[s].loaded[i].text
    <2>1. CASE sess' = [sess EXCEPT ![s] = Idle]
      BY <2>1, IdleSession DEF Idle
    <2>2. CASE \E i \in DOMAIN sess[s].loaded :
                  sess' = [sess EXCEPT ![s] =
                     [Idle EXCEPT !.pc = "refresh", !.op = sess[s].loaded[i].text, !.id = i]]
      <3>1. PICK i \in DOMAIN sess[s].loaded :
                  sess' = [sess EXCEPT ![s] =
                     [Idle EXCEPT !.pc = "refresh", !.op = sess[s].loaded[i].text, !.id = i]]
        BY <2>2
      <3>2. i \in Ids /\ sess[s].loaded[i] \in Rows
        BY <1>1, <3>1, LoadedIds, HeldRows DEF SInv
      <3>3. sess[s].loaded[i].text \in Texts
        BY <3>2 DEF Rows
      <3> DEFINE new == [Idle EXCEPT !.pc = "refresh", !.op = sess[s].loaded[i].text, !.id = i]
      <3>4. new \in Session /\ new.pc = "refresh" /\ new.id = i /\ new.op = sess[s].loaded[i].text
        BY <3>2, <3>3, IdleSession DEF Idle, Session
      <3> QED
        BY <3>1, <3>4
    <2> QED
      BY <2>1, <2>2 DEF CommitReanalysis
  <1>3. \A t \in Sessions : sess'[t] = IF t = s THEN new ELSE sess[t]
    BY <1>2 DEF SInv, Types
  <1>4. Open' = Open \ {s}
    BY <1>2, <1>3 DEF Open
  <1>5. /\ \A i \in Ids : locks'[i] = IF locks[i] = s THEN None ELSE locks[i]
        /\ lastId' = lastId /\ deleted' = deleted
    BY DEF CommitReanalysis, Unlocked
  <1>6. \A i \in Ids : IF locks[i] = s
                       THEN table'[i] = [table[i] EXCEPT !.auth = Value(s, i, "auth"), !.deliv = Value(s, i, "deliv")]
                       ELSE table'[i] = table[i]
    BY DEF CommitReanalysis, Written
  <1>7. raced' = raced \cup {i \in Written(s) : Others(s, i) # {}}
    BY DEF CommitReanalysis
  \* A written row: its type, its text and, unless raced, its one analysis.
  <1>8. ASSUME NEW i \in Ids, locks[i] = s
        PROVE  /\ table[i] \in Rows /\ table'[i] \in Rows /\ table'[i].text = table[i].text
               /\ i \in DOMAIN sess[s].loaded
               /\ i \notin raced => table'[i] = Row(table[i].text, sess[s].fresh[i]) /\ sess[s].fresh[i] \in Verdicts
    <2>1. table[i] # None /\ i \in DOMAIN sess[s].loaded /\ DOMAIN sess[s].fresh = DOMAIN sess[s].loaded
      BY <1>1, <1>8 DEF SInv, Held
    <2>2. table[i] \in Rows
      BY <2>1 DEF SInv, Types
    <2>3. sess[s].fresh[i] \in Verdicts
      BY <1>1, <2>1, HeldRows DEF SInv
    <2>4. sess[s].fresh[i].auth \in Auths /\ sess[s].fresh[i].deliv \in Delivs
      BY <2>3 DEF Auths, Delivs
    <2>5. Value(s, i, "auth") \in Auths /\ Value(s, i, "deliv") \in Delivs
      BY <2>2, <2>4 DEF Value, Rows
    <2> DEFINE a == Value(s, i, "auth")
    <2> DEFINE d == Value(s, i, "deliv")
    <2>6. table'[i] = [table[i] EXCEPT !.auth = a, !.deliv = d]
      BY <1>6, <1>8
    <2> HIDE DEF a, d
    <2>7. table'[i] = [text |-> table[i].text, auth |-> a, deliv |-> d]
      BY <2>2, <2>6 DEF Rows
    <2>8. table[i].text \in Texts
      BY <2>2 DEF Rows
    <2>9. table'[i] \in Rows /\ table'[i].text = table[i].text
      BY <2>5, <2>7, <2>8 DEF Rows, a, d
    <2>10. ASSUME i \notin raced PROVE table'[i] = Row(table[i].text, sess[s].fresh[i])
      <3>1. table[i] = sess[s].loaded[i]
        BY <1>1, <2>1, <2>10 DEF SInv, LoadedUnlessRaced
      <3>2. a = sess[s].fresh[i].auth /\ d = sess[s].fresh[i].deliv
        BY <3>1 DEF Value, a, d
      <3> QED
        BY <2>7, <3>2 DEF Row
    <2> QED
      BY <2>1, <2>2, <2>3, <2>9, <2>10
  <1>9. /\ \A i \in Ids : table'[i] = None <=> table[i] = None
        /\ \A i \in Ids : table[i] # None => table'[i].text = table[i].text
        /\ Existing' = Existing
    BY <1>6, <1>8, StoreAssumption DEF Existing
  <1>10. Types'
    <2>1. table' \in [Ids -> Rows \cup {None}]
      <3>1. table' = [i \in Ids |-> table'[i]]
        BY DEF CommitReanalysis
      <3>2. \A i \in Ids : table'[i] \in Rows \cup {None}
        BY <1>6, <1>8 DEF SInv, Types
      <3> QED
        BY <3>1, <3>2
    <2>2. locks' \in [Ids -> Sessions \cup {None}] /\ sess' \in [Sessions -> Session] /\ raced' \subseteq Ids
      BY <1>2, <1>7 DEF CommitReanalysis, Unlocked, Written, SInv, Types
    <2> QED
      BY <1>5, <1>9, <2>1, <2>2 DEF SInv, Types
  <1>11. Held'
    BY <1>1, <1>3, <1>4, <1>5, <1>9 DEF SInv, Held
  <1>12. Upward'
    BY <1>1, <1>3, <1>4, <1>5 DEF SInv, Upward, Held
  <1>13. ASSUME NEW t \in Open' PROVE t \in Open /\ t # s /\ sess'[t] = sess[t] /\ DOMAIN sess[t].loaded \subseteq Ids
    BY <1>1, <1>3, <1>4, LoadedIds
  <1>14. DeletesDone'
    BY <1>5, <1>9, <1>13 DEF SInv, DeletesDone
  <1>15. LoadedIsCurrent'
    BY <1>9, <1>13 DEF SInv, LoadedIsCurrent
  <1>16. LoadedUnlessRaced'
    <2> SUFFICES ASSUME NEW t \in Open', sess'[t].op = "reanalyse", NEW i \in DOMAIN sess'[t].loaded
                 PROVE  i \in raced' \/ table'[i] = None \/ table'[i] = sess'[t].loaded[i]
      BY DEF LoadedUnlessRaced
    <2>1. t \in Open \ {s} /\ i \in DOMAIN sess[t].loaded /\ i \in Ids /\ sess'[t] = sess[t]
      BY <1>13
    <2>2. i \in raced \/ table[i] = None \/ table[i] = sess[t].loaded[i]
      BY <2>1 DEF SInv, LoadedUnlessRaced
    <2>3. CASE locks[i] = s
      BY <1>7, <2>1, <2>3 DEF Written, Others
    <2>4. CASE locks[i] # s
      BY <1>6, <1>7, <2>1, <2>2, <2>4
    <2> QED
      BY <2>3, <2>4
  <1>17. Answers'
    <2> SUFFICES ASSUME NEW t \in Sessions, sess'[t].pc = "refresh"
                 PROVE  /\ sess'[t].id \in Ids
                        /\ ~sess'[t].reset =>
                              /\ sess'[t].id \in 1..lastId'
                              /\ table'[sess'[t].id] # None => table'[sess'[t].id].text = sess'[t].op
      BY DEF Answers
    <2>1. CASE t = s
      <3>1. PICK i \in DOMAIN sess[s].loaded : new.id = i /\ new.op = sess[s].loaded[i].text
        BY <1>2, <1>3, <2>1
      <3>2. i \in Ids /\ i \in 1..lastId
        BY <1>1, LoadedIds DEF SInv, Held
      <3>3. table[i] # None => table[i].text = sess[s].loaded[i].text
        BY <1>1 DEF SInv, LoadedIsCurrent
      <3> QED
        BY <1>3, <1>5, <1>9, <2>1, <3>1, <3>2, <3>3
    <2>2. CASE t # s
      BY <1>3, <1>5, <1>9, <2>2 DEF SInv, Answers
    <2> QED
      BY <2>1, <2>2
  <1>18. DeletedStaysDeleted'
    BY <1>5, <1>9 DEF SInv, DeletedStaysDeleted
  <1>19. MixedNeedsRace'
    <2> SUFFICES ASSUME NEW i \in Existing', i \notin raced'
                 PROVE  \E v \in Verdicts : table'[i] = Row(table'[i].text, v)
      BY DEF MixedNeedsRace
    <2>1. i \in Ids /\ i \in Existing /\ i \notin raced
      BY <1>7, <1>9 DEF Existing
    <2>2. CASE locks[i] = s
      BY <1>8, <2>1, <2>2
    <2>3. CASE locks[i] # s
      BY <1>6, <2>1, <2>3 DEF SInv, MixedNeedsRace
    <2> QED
      BY <2>2, <2>3
  <1> QED
    BY <1>10, <1>11, <1>12, <1>14, <1>15, <1>16, <1>17, <1>18, <1>19 DEF SInv

\* The commit of a delete takes away what was locked.
LEMMA DeleteKeeps ==
    ASSUME SInv, NEW s \in Sessions, CommitDelete(s)
    PROVE  SInv'
  <1>1. s \in Open /\ Open \subseteq Sessions /\ s # None
    BY StoreAssumption DEF CommitDelete, Open
  <1>2. \A t \in Sessions : sess'[t] = IF t = s THEN Idle ELSE sess[t]
    BY DEF CommitDelete, SInv, Types
  <1>3. Open' = Open \ {s}
    BY <1>2 DEF Open, Idle
  <1>4. /\ \A i \in Ids : locks'[i] = IF locks[i] = s THEN None ELSE locks[i]
        /\ \A i \in Ids : table'[i] = IF locks[i] = s THEN None ELSE table[i]
        /\ lastId' = lastId /\ raced' = raced
        /\ deleted' = deleted \cup {i \in Ids : locks[i] = s}
    BY DEF CommitDelete, Unlocked, Written
  <1>5. \A i \in Ids : locks[i] = s => i \in 1..lastId
    BY <1>1 DEF SInv, Held
  <1>6. Types'
    <2>1. table' \in [Ids -> Rows \cup {None}] /\ locks' \in [Ids -> Sessions \cup {None}]
      BY DEF CommitDelete, Unlocked, SInv, Types
    <2>2. sess' \in [Sessions -> Session]
      BY IdleSession DEF CommitDelete, SInv, Types
    <2>3. Existing' \subseteq Existing
      BY <1>4 DEF Existing
    <2> QED
      BY <1>4, <1>5, <2>1, <2>2, <2>3 DEF SInv, Types
  <1>7. Held'
    BY <1>1, <1>2, <1>3, <1>4 DEF SInv, Held
  <1>8. Upward'
    BY <1>1, <1>2, <1>3, <1>4 DEF SInv, Upward, Held
  <1>9. ASSUME NEW t \in Open' PROVE t \in Open /\ t # s /\ sess'[t] = sess[t] /\ DOMAIN sess[t].loaded \subseteq Ids
    BY <1>1, <1>2, <1>3, LoadedIds
  <1>10. DeletesDone'
    BY <1>4, <1>9 DEF SInv, DeletesDone
  <1>11. LoadedUnlessRaced' /\ LoadedIsCurrent'
    BY <1>4, <1>9 DEF SInv, LoadedUnlessRaced, LoadedIsCurrent
  <1>12. Answers'
    BY <1>2, <1>4 DEF SInv, Answers, Idle
  <1>13. DeletedStaysDeleted' /\ MixedNeedsRace'
    BY <1>4 DEF SInv, DeletedStaysDeleted, MixedNeedsRace, Existing
  <1> QED
    BY <1>6, <1>7, <1>8, <1>10, <1>11, <1>12, <1>13 DEF SInv

\* The reset comes when nobody has rows loaded.
LEMMA ResetKeeps ==
    ASSUME SInv, NEW n \in 0..SeedMails, NEW v \in [1..n -> Verdicts], Reset(n, v)
    PROVE  SInv'
  <1>1. /\ \A t \in Sessions : /\ sess'[t].pc = sess[t].pc /\ sess'[t].id = sess[t].id
                               /\ sess'[t].reset = (sess[t].pc = "refresh")
        /\ sess' \in [Sessions -> Session]
    BY DEF Reset, Reseeded, SInv, Types, Session
  <1>2. Open' = {} /\ Open = {}
    BY <1>1 DEF Reset, Open
  <1>3. lastId' = n /\ deleted' = {} /\ raced' = {} /\ locks' = locks
    BY DEF Reset, Reseeded
  <1>4. \A i \in Ids : locks[i] = None
    BY <1>2 DEF SInv, Held
  <1>5. n \in Nat /\ n <= SeedMails /\ 1..n \subseteq Ids /\ n \in 0..MaxId
    BY StoreAssumption DEF Ids
  <1>6. ASSUME NEW i \in 1..n
        PROVE  /\ table'[i] = Row(i, v[i]) /\ v[i] \in Verdicts
               /\ Row(i, v[i]) \in Rows /\ Row(i, v[i]).text = i
    <2>1. i \in Texts /\ v[i] \in Verdicts
      BY <1>5, StoreAssumption DEF Texts, Seeds
    <2>2. Row(i, v[i]) \in Rows /\ Row(i, v[i]).text = i
      BY <2>1 DEF Row, Rows, Auths, Delivs
    <2>3. i \in Ids /\ i <= n
      BY <1>5
    <2> QED
      BY <2>1, <2>2, <2>3 DEF Reset, Reseeded
  <1>7. \A i \in Ids : i \in 1..n \/ table'[i] = None
    BY <1>5 DEF Reset, Reseeded, Ids
  <1>8. Types'
    <2>1. \A i \in Ids : table'[i] \in Rows \cup {None}
      BY <1>6, <1>7
    <2>2. table' = [i \in Ids |-> table'[i]]
      BY DEF Reset, Reseeded
    <2>3. table' \in [Ids -> Rows \cup {None}]
      BY <2>1, <2>2
    <2>4. Existing' \subseteq 1..n
      BY <1>7 DEF Existing
    <2> QED
      BY <1>1, <1>3, <1>5, <2>3, <2>4 DEF SInv, Types
  <1>9. Held' /\ Upward'
    BY <1>2, <1>3, <1>4 DEF Held, Upward
  <1>10. DeletesDone' /\ LoadedUnlessRaced' /\ LoadedIsCurrent'
    BY <1>2 DEF DeletesDone, LoadedUnlessRaced, LoadedIsCurrent
  <1>11. Answers'
    BY <1>1 DEF SInv, Answers
  <1>12. DeletedStaysDeleted'
    BY <1>3 DEF DeletedStaysDeleted
  <1>13. MixedNeedsRace'
    <2> SUFFICES ASSUME NEW i \in Existing'
                 PROVE  \E w \in Verdicts : table'[i] = Row(table'[i].text, w)
      BY DEF MixedNeedsRace
    <2>1. i \in 1..n
      BY <1>7 DEF Existing
    <2>2. table'[i] = Row(table'[i].text, v[i]) /\ v[i] \in Verdicts
      BY <1>6, <2>1
    <2> QED
      BY <2>2
  <1> QED
    BY <1>8, <1>9, <1>10, <1>11, <1>12, <1>13 DEF SInv

\* The API's process ends: no request is left.
LEMMA DeathKeeps ==
    ASSUME SInv, ApiDies
    PROVE  SInv'
  <1>1. \A t \in Sessions : sess'[t] = Idle
    BY DEF ApiDies
  <1>2. Open' = {} /\ \A i \in Ids : locks'[i] = None
    BY <1>1 DEF ApiDies, Open, Idle
  <1>3. Types'
    BY IdleSession DEF ApiDies, SInv, Types, Existing
  <1>4. Held' /\ Upward'
    BY <1>2 DEF Held, Upward
  <1>5. DeletesDone' /\ LoadedUnlessRaced' /\ LoadedIsCurrent'
    BY <1>2 DEF DeletesDone, LoadedUnlessRaced, LoadedIsCurrent
  <1>6. Answers'
    BY <1>1 DEF Answers, Idle
  <1>7. DeletedStaysDeleted' /\ MixedNeedsRace'
    BY DEF ApiDies, SInv, DeletedStaysDeleted, MixedNeedsRace, Existing
  <1> QED
    BY <1>3, <1>4, <1>5, <1>6, <1>7 DEF SInv

\* What Reanalyse and Delete put into sess is what Begins asks for.
LEMMA ReanalyseBegins ==
    ASSUME SInv, NEW s \in Sessions, NEW ids \in SUBSET Existing, NEW fresh \in [ids -> Verdicts],
           Reanalyse(s, ids, fresh)
    PROVE  SInv'
  <1> DEFINE old == [i \in ids |-> table[i]]
  <1> DEFINE todo == {i \in ids : \E c \in {"auth", "deliv"} : fresh[i][c] # table[i][c]}
  <1> DEFINE new == [Idle EXCEPT !.pc = "flush", !.op = "reanalyse", !.loaded = old, !.fresh = fresh,
                                 !.todo = todo]
  <1>1. ids \in SUBSET Ids /\ todo \subseteq ids
    BY DEF Existing
  <1>2. old \in [ids -> Rows] /\ old = [i \in ids |-> table[i]]
    BY <1>1 DEF Existing, SInv, Types
  <1>3. sess' = [sess EXCEPT ![s] = new] /\ sess[s].pc = "idle"
        /\ UNCHANGED <<table, lastId, locks, deleted, raced>>
    BY DEF Reanalyse
  <1>4. old \in Loads /\ fresh \in Analyses
    BY <1>1, <1>2 DEF Loads, Analyses
  <1> HIDE DEF todo, old
  <1>5. /\ new \in Session /\ new.pc = "flush" /\ new.op = "reanalyse" /\ new.loaded = old
        /\ new.todo = todo /\ new.fresh = fresh
    BY <1>1, <1>4, IdleSession DEF Idle, Session
  <1> HIDE DEF new
  <1> QED
    BY <1>1, <1>2, <1>3, <1>5, Begins

LEMMA DeleteBegins ==
    ASSUME SInv, NEW s \in Sessions, NEW ids \in SUBSET Existing, Delete(s, ids)
    PROVE  SInv'
  <1> DEFINE old == [i \in ids |-> table[i]]
  <1> DEFINE new == [Idle EXCEPT !.pc = "flush", !.op = "delete", !.loaded = old, !.todo = ids]
  <1>1. ids \in SUBSET Ids
    BY DEF Existing
  <1>2. old \in [ids -> Rows] /\ old = [i \in ids |-> table[i]]
    BY <1>1 DEF Existing, SInv, Types
  <1>3. sess' = [sess EXCEPT ![s] = new] /\ sess[s].pc = "idle"
        /\ UNCHANGED <<table, lastId, locks, deleted, raced>>
    BY DEF Delete
  <1>4. old \in Loads
    BY <1>1, <1>2 DEF Loads
  <1> HIDE DEF old
  <1>5. /\ new \in Session /\ new.pc = "flush" /\ new.op = "delete" /\ new.loaded = old /\ new.todo = ids
    BY <1>1, <1>4, IdleSession DEF Idle, Session
  <1> HIDE DEF new
  <1> QED
    BY <1>1, <1>2, <1>3, <1>5, Begins

\* A session that is not flushing holds no lock.
LEMMA NoLocks ==
    ASSUME SInv, NEW s \in Sessions, s \notin Open
    PROVE  locks = Unlocked(s)
  <1>1. \A i \in Ids : locks[i] # s
    BY StoreAssumption DEF SInv, Held
  <1> QED
    BY <1>1 DEF Unlocked, SInv, Types

\* SInv is inductive.
LEMMA NextSInv ==
    ASSUME SInv, [SNext]_svars
    PROVE  SInv'
  <1>1. ASSUME NEW s \in Sessions, Request(s) PROVE SInv'
    BY <1>1, InsertKeeps, ReanalyseBegins, DeleteBegins DEF Request
  <1>2. ASSUME NEW s \in Sessions, Work(s) PROVE SInv'
    <2>1. CASE AnalysisFails(s)
      <3>1. locks = Unlocked(s)
        BY <2>1 DEF AnalysisFails, Unlocked, SInv, Types
      <3> QED
        BY <2>1, <3>1, Abandons DEF AnalysisFails
    <2>2. CASE Refresh(s)
      <3>1. locks = Unlocked(s)
        BY <2>2, NoLocks DEF Refresh, Open
      <3> QED
        BY <2>2, <3>1, Abandons DEF Refresh
    <2>3. CASE FlushStale(s)
      BY <2>3, Abandons DEF FlushStale
    <2>4. CASE FlushRow(s)
      BY <2>4, Advances DEF FlushRow
    <2>5. CASE FlushGone(s)
      BY <2>5, Advances DEF FlushGone
    <2> QED
      BY <1>2, <2>1, <2>2, <2>3, <2>4, <2>5, ReanalysisKeeps, DeleteKeeps DEF Work
  <1>3. ASSUME NEW n \in 0..SeedMails, NEW v \in [1..n -> Verdicts], Reset(n, v) PROVE SInv'
    BY <1>3, ResetKeeps
  <1>4. CASE ApiDies
    BY <1>4, DeathKeeps
  <1>5. CASE UNCHANGED svars
    BY <1>5 DEF svars, SInv, Types, Held, Upward, DeletesDone, LoadedUnlessRaced, Answers, LoadedIsCurrent,
                DeletedStaysDeleted, MixedNeedsRace, Existing, Open
  <1> QED
    BY <1>1, <1>2, <1>3, <1>4, <1>5 DEF SNext

LEMMA StoreInvariant == SSpec => []SInv
  BY InitSInv, NextSInv, PTL DEF SSpec

\* The table, the sequence, the locks and what the sessions hold keep their
\* types; a lock belongs to a flush, on a row that exists.
THEOREM StoreTypeCorrect == SSpec => []STypeOK
  <1>1. SInv => STypeOK
    BY DEF SInv, Types, Held, Answers, STypeOK, Session, Open
  <1> QED
    BY <1>1, StoreInvariant, PTL

\* No write and no delete lands on another message than the one loaded under
\* the id, resets included.
THEOREM WritesHitTheirRow == SSpec => []LoadedIsCurrent
  <1>1. SInv => LoadedIsCurrent
    BY DEF SInv
  <1> QED
    BY <1>1, StoreInvariant, PTL

\* A row that was deleted does not come back before the next reset.
THEOREM NoResurrection == SSpec => []DeletedStaysDeleted
  <1>1. SInv => DeletedStaysDeleted
    BY DEF SInv
  <1> QED
    BY <1>1, StoreInvariant, PTL

\* A row shows the columns of two analyses only after an overlap on it.
THEOREM OneAnalysisUnlessRaced == SSpec => []MixedNeedsRace
  <1>1. SInv => MixedNeedsRace
    BY DEF SInv
  <1> QED
    BY <1>1, StoreInvariant, PTL

\* An ingest and a reanalysis answer with their own message, unless a reset
\* came between.
THEOREM AnswersAreOwn == SSpec => []AnswerIsOwn
  <1>1. SInv => AnswerIsOwn
    BY DEF SInv, Answers, AnswerIsOwn
  <1> QED
    BY <1>1, StoreInvariant, PTL

\* Flushes wait for each other in id order only: no cycle.
THEOREM NoDeadlock == SSpec => []WaitsUpward
  <1>1. SInv => WaitsUpward
    <2> SUFFICES ASSUME SInv, NEW s \in Sessions, NEW t \in Sessions, Waits(s, t), Flushing(t)
                 PROVE  NextRow(s) < NextRow(t)
      BY DEF WaitsUpward
    <2>1. NextRow(s) \in Ids /\ locks[NextRow(s)] = t /\ t # None
      BY NextRowIsFirst, StoreAssumption DEF SInv, Waits
    <2>2. NextRow(t) \in sess[t].todo
      BY NextRowIsFirst DEF SInv
    <2> QED
      BY <2>1, <2>2 DEF SInv, Upward
  <1> QED
    BY <1>1, StoreInvariant, PTL

\* All the rows a bulk delete counts are gone when it answers.
THEOREM CountedRowsAreGone == SSpec => CountedIsGone
  <1>1. ASSUME SInv, NEW s \in Sessions, CommitDelete(s), NEW i \in DOMAIN sess[s].loaded
        PROVE  table'[i] = None
    <2>1. s \in Open /\ i \in Ids /\ sess[s].todo = {} /\ sess[s].op = "delete"
      BY <1>1, LoadedIds DEF CommitDelete, Open
    <2>2. locks[i] = s \/ table[i] = None
      BY <1>1, <2>1 DEF SInv, DeletesDone
    <2> QED
      BY <1>1, <2>1, <2>2 DEF CommitDelete, Written
  <1>2. SInv /\ [SNext]_svars =>
          [\A s \in Sessions : CommitDelete(s) => \A i \in DOMAIN sess[s].loaded : table'[i] = None]_svars
    BY <1>1
  <1> QED
    BY <1>2, StoreInvariant, PTL DEF SSpec, CountedIsGone
=============================================================================
